---------------------------- MODULE Match_proofs ----------------------------
(***************************************************************************)
(* Safety of the matching component, for all orders, amounts and bounds:   *)
(* what every step keeps, and that the order book, the orders table and    *)
(* the match transactions agree.                                           *)
(***************************************************************************)
EXTENDS Match, NaturalsInduction, WellFoundedInduction, TLAPS

-----------------------------------------------------------------------------
(***************************************************************************)
(* Sums of amounts. Induction is by the least number that fails, because   *)
(* the numbers are well founded.                                           *)
(***************************************************************************)

\* Every non-empty set of numbers has a least one.
LEMMA Least ==
  ASSUME NEW S \in SUBSET Nat, S # {}
  PROVE  \E n \in S : \A m \in Nat : m < n => m \notin S
<1>1. PICK n \in S : \A m \in SetLessThan(n, OpToRel(<, Nat), Nat) : m \notin S
  BY NatLessThanWellFounded, WFMin DEF SetLessThan
<1> QED
  BY <1>1 DEF SetLessThan, OpToRel

\* h holds the sums of the first i values of f, for all i up to n.
SumsOf(f, n, h) ==
  /\ h \in [0..n -> Int]
  /\ h[0] = 0
  /\ \A i \in 1..n : h[i] = h[i - 1] + f[i]

LEMMA SumsExist ==
  ASSUME NEW n \in Nat, NEW f \in [1..n -> Int]
  PROVE  \E h : SumsOf(f, n, h)
<1> DEFINE Bad == {k \in 0..n : ~ \E h : SumsOf(f, k, h)}
<1>1. ASSUME Bad # {} PROVE FALSE
  <2>1. PICK k \in Bad : \A m \in Nat : m < k => m \notin Bad
    <3>1. Bad \in SUBSET Nat
      OBVIOUS
    <3> HIDE DEF Bad
    <3> QED
      BY <1>1, <3>1, Least
  <2>2. k # 0
    <3>1. SumsOf(f, 0, [i \in 0..0 |-> 0])
      BY DEF SumsOf
    <3> QED
      BY <3>1
  <2>3. k - 1 \in 0..n /\ k - 1 < k
    BY <2>2
  <2>4. PICK h : SumsOf(f, k - 1, h)
    BY <2>1, <2>3
  <2> DEFINE g == [i \in 0..k |-> IF i = k THEN h[k - 1] + f[k] ELSE h[i]]
  <2>5. SumsOf(f, k, g)
    BY <2>2, <2>3, <2>4 DEF SumsOf
  <2> QED
    BY <2>5
<1>2. n \in 0..n /\ n \notin Bad
  <2>1. n \in 0..n
    OBVIOUS
  <2> HIDE DEF Bad
  <2> QED
    BY <1>1, <2>1
<1> QED
  BY <1>2

\* Total is the last of the sums.
LEMMA TotalIsSum ==
  ASSUME NEW n \in Nat, NEW f \in [1..n -> Int]
  PROVE  \E h : SumsOf(f, n, h) /\ Total(f, n) = h[n]
<1> DEFINE Rec(h) == h = [i \in 0..n |-> IF i = 0 THEN 0 ELSE h[i - 1] + f[i]]
           sum == CHOOSE h : Rec(h)
<1>1. Total(f, n) = sum[n]
  BY DEF Total
<1>2. PICK h : SumsOf(f, n, h)
  BY SumsExist
<1>3. Rec(h)
  BY <1>2 DEF SumsOf
<1>4. Rec(sum)
  BY <1>3
<1> HIDE DEF sum
<1>5. /\ sum[0] = 0
      /\ \A i \in 1..n : sum[i] = sum[i - 1] + f[i]
  BY <1>4
<1>6. \A i \in 0..n : sum[i] \in Int
  <2> DEFINE Bad == {i \in 0..n : sum[i] \notin Int}
  <2> SUFFICES ASSUME Bad # {} PROVE FALSE
    OBVIOUS
  <2>1. PICK i \in Bad : \A j \in Nat : j < i => j \notin Bad
    <3>1. Bad \in SUBSET Nat
      OBVIOUS
    <3> HIDE DEF Bad
    <3> QED
      BY <3>1, Least
  <2>2. i \in 1..n /\ i - 1 \in Nat /\ i - 1 < i
    BY <1>5
  <2>3. sum[i - 1] \in Int
    BY <2>1, <2>2
  <2> QED
    BY <1>5, <2>2, <2>3
<1>7. sum \in [0..n -> Int]
  BY <1>4, <1>6
<1> QED
  BY <1>1, <1>5, <1>7 DEF SumsOf

LEMMA TotalType ==
  ASSUME NEW n \in Nat, NEW f \in [1..n -> Int]
  PROVE  Total(f, n) \in Int
<1>1. PICK h : SumsOf(f, n, h) /\ Total(f, n) = h[n]
  BY TotalIsSum
<1> QED
  BY <1>1 DEF SumsOf

\* Changing one of the summands changes the total by the difference.
LEMMA TotalChanged ==
  ASSUME NEW n \in Nat, NEW f \in [1..n -> Int], NEW g \in [1..n -> Int],
         NEW t \in 1..n, \A i \in 1..n : i # t => g[i] = f[i]
  PROVE  Total(g, n) = Total(f, n) + (g[t] - f[t])
<1>1. PICK h : SumsOf(f, n, h) /\ Total(f, n) = h[n]
  BY TotalIsSum
<1>2. PICK k : SumsOf(g, n, k) /\ Total(g, n) = k[n]
  BY TotalIsSum
<1> DEFINE d == g[t] - f[t]
           Bad == {i \in 0..n : k[i] # h[i] + (IF i < t THEN 0 ELSE d)}
<1>3. ASSUME Bad # {} PROVE FALSE
  <2>1. PICK i \in Bad : \A j \in Nat : j < i => j \notin Bad
    <3>1. Bad \in SUBSET Nat
      OBVIOUS
    <3> HIDE DEF Bad
    <3> QED
      BY <1>3, <3>1, Least
  <2>2. i \in 1..n /\ i - 1 \in 0..n /\ i - 1 < i
    BY <1>1, <1>2 DEF SumsOf
  <2>3. k[i - 1] = h[i - 1] + (IF i - 1 < t THEN 0 ELSE d)
    BY <2>1, <2>2
  <2>4. k[i] = k[i - 1] + g[i] /\ h[i] = h[i - 1] + f[i]
    BY <1>1, <1>2, <2>2 DEF SumsOf
  <2>5. h[i - 1] \in Int /\ h[i] \in Int /\ k[i] \in Int
    BY <1>1, <1>2, <2>2 DEF SumsOf
  <2>6. k[i] = h[i] + (IF i < t THEN 0 ELSE d)
    <3>1. CASE i = t
      BY <2>2, <2>3, <2>4, <2>5, <3>1
    <3>2. CASE i # t
      <4>1. g[i] = f[i] /\ (i < t <=> i - 1 < t) /\ d \in Int
        BY <2>2, <3>2
      <4> HIDE DEF d
      <4> QED
        BY <2>2, <2>3, <2>4, <2>5, <4>1
    <3> QED
      BY <3>1, <3>2
  <2> QED
    BY <2>6
<1>4. k[n] = h[n] + d
  BY <1>3
<1> QED
  BY <1>1, <1>2, <1>4

\* The total of parts of x with the sign of x, and each part of the total
LEMMA TotalNotNegative ==
  ASSUME NEW n \in Nat, NEW f \in [1..n -> Int], \A i \in 1..n : 0 <= f[i]
  PROVE  0 <= Total(f, n) /\ \A t \in 1..n : f[t] <= Total(f, n)
<1>1. PICK h : SumsOf(f, n, h) /\ Total(f, n) = h[n]
  BY TotalIsSum
<1> DEFINE Bad == {i \in 0..n : h[i] < 0 \/ \E t \in 1..i : h[i] < f[t]}
<1>2. ASSUME Bad # {} PROVE FALSE
  <2>1. PICK i \in Bad : \A j \in Nat : j < i => j \notin Bad
    <3>1. Bad \in SUBSET Nat
      OBVIOUS
    <3> HIDE DEF Bad
    <3> QED
      BY <1>2, <3>1, Least
  <2>2. i \in 1..n /\ i - 1 \in 0..n /\ i - 1 < i
    BY <1>1 DEF SumsOf
  <2>3. h[i - 1] \in Int /\ h[i] = h[i - 1] + f[i]
    BY <1>1, <2>2 DEF SumsOf
  <2>4. 0 <= h[i - 1] /\ \A t \in 1..(i - 1) : f[t] <= h[i - 1]
    BY <2>1, <2>2, <2>3
  <2> QED
    BY <2>2, <2>3, <2>4
<1>3. h[n] \in Int /\ n \in 0..n
  BY <1>1 DEF SumsOf
<1>4. n \notin Bad
  <2> HIDE DEF Bad
  <2> QED
    BY <1>2
<1> QED
  BY <1>1, <1>3, <1>4

LEMMA TotalNotPositive ==
  ASSUME NEW n \in Nat, NEW f \in [1..n -> Int], \A i \in 1..n : f[i] <= 0
  PROVE  Total(f, n) <= 0 /\ \A t \in 1..n : Total(f, n) <= f[t]
<1>1. PICK h : SumsOf(f, n, h) /\ Total(f, n) = h[n]
  BY TotalIsSum
<1> DEFINE Bad == {i \in 0..n : h[i] > 0 \/ \E t \in 1..i : h[i] > f[t]}
<1>2. ASSUME Bad # {} PROVE FALSE
  <2>1. PICK i \in Bad : \A j \in Nat : j < i => j \notin Bad
    <3>1. Bad \in SUBSET Nat
      OBVIOUS
    <3> HIDE DEF Bad
    <3> QED
      BY <1>2, <3>1, Least
  <2>2. i \in 1..n /\ i - 1 \in 0..n /\ i - 1 < i
    BY <1>1 DEF SumsOf
  <2>3. h[i - 1] \in Int /\ h[i] = h[i - 1] + f[i]
    BY <1>1, <2>2 DEF SumsOf
  <2>4. h[i - 1] <= 0 /\ \A t \in 1..(i - 1) : h[i - 1] <= f[t]
    BY <2>1, <2>2, <2>3
  <2> QED
    BY <2>2, <2>3, <2>4
<1>3. h[n] \in Int /\ n \in 0..n
  BY <1>1 DEF SumsOf
<1>4. n \notin Bad
  <2> HIDE DEF Bad
  <2> QED
    BY <1>2
<1> QED
  BY <1>1, <1>3, <1>4

-----------------------------------------------------------------------------
(***************************************************************************)
(* The rows of the orders and the lists of the match transactions          *)
(***************************************************************************)

RowSum(r) == r.available + r.pending + r.confirmed + r.canceled

\* r is a row that holds what old held, split in another way.
Redistributed(old, r) ==
  r \in Row /\ r.status # "none" /\ RowSum(r) = RowSum(old)

\* Only orders with a row are in the lists of a match transaction.
ItemsExist ==
  \A t \in Txs : \A o \in Orders : matchTx[t].items[o] # 0 => Exists(o)

IInv == TypeOK /\ Conservation /\ ItemsExist

-----------------------------------------------------------------------------
(***************************************************************************)
(* Rows                                                                    *)
(***************************************************************************)

LEMMA AmountsType ==
  Amount \in [Orders -> Int] /\ MinTrade \in [Orders -> Int]
BY ConstantsAssumption DEF Lots

LEMMA StatusType ==
  ASSUME NEW o, NEW r
  PROVE  setStatusByAmounts(o, r) \in OrderStatus \ {"none"}
BY DEF OrderStatus, setStatusByAmounts

\* Saving a row sets its status and nothing else.
LEMMA SaveOrderType ==
  ASSUME NEW o, NEW r \in Row
  PROVE  /\ SaveOrder(o, r) \in Row
         /\ SaveOrder(o, r).available = r.available
         /\ SaveOrder(o, r).pending = r.pending
         /\ SaveOrder(o, r).confirmed = r.confirmed
         /\ SaveOrder(o, r).canceled = r.canceled
         /\ SaveOrder(o, r).status = setStatusByAmounts(o, r)
         /\ SaveOrder(o, r).status # "none"
BY StatusType DEF SaveOrder, Row

LEMMA UpdateOrderType ==
  ASSUME TypeOK, NEW o \in Orders,
         NEW a \in Int, NEW p \in Int, NEW c \in Int, NEW x \in Int
  PROVE  /\ UpdateOrder(o, a, p, c, x) \in Row
         /\ UpdateOrder(o, a, p, c, x).available = order[o].available + a
         /\ UpdateOrder(o, a, p, c, x).pending = order[o].pending + p
         /\ UpdateOrder(o, a, p, c, x).confirmed = order[o].confirmed + c
         /\ UpdateOrder(o, a, p, c, x).canceled = order[o].canceled + x
         /\ UpdateOrder(o, a, p, c, x).status # "none"
<1> DEFINE r == [available |-> order[o].available + a,
                 pending   |-> order[o].pending + p,
                 confirmed |-> order[o].confirmed + c,
                 canceled  |-> order[o].canceled + x,
                 status    |-> order[o].status]
<1>1. order[o] \in Row
  BY DEF TypeOK
<1>2. /\ r \in Row
      /\ r.available = order[o].available + a
      /\ r.pending = order[o].pending + p
      /\ r.confirmed = order[o].confirmed + c
      /\ r.canceled = order[o].canceled + x
  BY <1>1 DEF Row
<1>3. UpdateOrder(o, a, p, c, x) = SaveOrder(o, r)
  BY DEF UpdateOrder
<1> HIDE DEF r
<1> QED
  BY <1>2, <1>3, SaveOrderType

\* An update whose differences add up to zero redistributes the row.
LEMMA UpdateOrderRedistributes ==
  ASSUME TypeOK, NEW o \in Orders,
         NEW a \in Int, NEW p \in Int, NEW c \in Int, NEW x \in Int,
         a + p + c + x = 0
  PROVE  Redistributed(order[o], UpdateOrder(o, a, p, c, x))
<1>1. order[o] \in Row
  BY DEF TypeOK
<1> QED
  BY <1>1, UpdateOrderType DEF Redistributed, RowSum, Row

LEMMA MatchedRowOK ==
  ASSUME TypeOK, NEW o \in Orders, NEW m \in Int
  PROVE  Redistributed(order[o], MatchedRow(o, m))
<1>1. book[o] \in Int
  BY DEF TypeOK
<1>2. OrderTotalCancel(o, m) \in Int
  BY <1>1, AmountsType DEF OrderTotalCancel
<1> QED
  BY <1>2, UpdateOrderRedistributes DEF MatchedRow

LEMMA SettledRowOK ==
  ASSUME TypeOK, NEW o \in Orders, NEW m \in Int, NEW s \in Int, NEW f \in Int
  PROVE  Redistributed(order[o], SettledRow(o, m, s, f))
BY UpdateOrderRedistributes DEF SettledRow

LEMMA CanceledRowOK ==
  ASSUME TypeOK, NEW o \in Orders, NEW amt \in Int
  PROVE  Redistributed(order[o], CanceledRow(o, amt))
BY UpdateOrderRedistributes DEF CanceledRow

\* What RolledBack does, case by case
LEMMA RolledBackCases ==
  ASSUME TypeOK, NEW o \in Orders,
         NEW sb \in Int, NEW fb \in Int, NEW s \in Int, NEW f \in Int,
         NEW R, R = RolledBack(o, sb, fb, s, f)
  PROVE  \/ sb # 0 /\ s # 0 /\ R = [row |-> order[o], succ |-> sb, failed |-> 0]
         \/ sb # 0 /\ s = 0 /\ f # 0 /\ R = [row |-> UpdateOrder(o, 0, 0, -sb, sb), succ |-> 0, failed |-> sb]
         \/ sb # 0 /\ s = 0 /\ f = 0 /\ R = [row |-> UpdateOrder(o, sb, 0, -sb, 0), succ |-> 0, failed |-> 0]
         \/ sb = 0 /\ fb # 0 /\ s # 0 /\ R = [row |-> UpdateOrder(o, 0, 0, fb, -fb), succ |-> fb, failed |-> 0]
         \/ sb = 0 /\ fb # 0 /\ s = 0 /\ f # 0 /\ R = [row |-> order[o], succ |-> 0, failed |-> fb]
         \/ sb = 0 /\ fb # 0 /\ s = 0 /\ f = 0 /\ R = [row |-> UpdateOrder(o, fb, 0, 0, -fb), succ |-> 0, failed |-> 0]
         \/ /\ sb = 0 /\ fb = 0 /\ s # 0 /\ Abs(order[o].available) >= Abs(s)
            /\ R = [row |-> UpdateOrder(o, -s, 0, s, 0), succ |-> s, failed |-> 0]
         \/ /\ sb = 0 /\ fb = 0 /\ s = 0 /\ f # 0 /\ Abs(order[o].available) >= Abs(f)
            /\ R = [row |-> UpdateOrder(o, -f, 0, 0, f), succ |-> 0, failed |-> f]
         \/ sb = 0 /\ fb = 0 /\ R = [row |-> order[o], succ |-> 0, failed |-> 0]
BY DEF RolledBack

LEMMA RolledBackOK ==
  ASSUME TypeOK, NEW o \in Orders, Exists(o),
         NEW sb \in Int, NEW fb \in Int, NEW s \in Int, NEW f \in Int
  PROVE  /\ Redistributed(order[o], RolledBack(o, sb, fb, s, f).row)
         /\ RolledBack(o, sb, fb, s, f).succ \in Int
         /\ RolledBack(o, sb, fb, s, f).failed \in Int
<1> DEFINE R == RolledBack(o, sb, fb, s, f)
<1>1. order[o] \in Row /\ Redistributed(order[o], order[o])
  BY DEF TypeOK, Redistributed, Exists
<1>2. \A n \in Int : Redistributed(order[o], UpdateOrder(o, 0, 0, -n, n))
  BY UpdateOrderRedistributes
<1>3. \A n \in Int : Redistributed(order[o], UpdateOrder(o, 0, 0, n, -n))
  BY UpdateOrderRedistributes
<1>4. \A n \in Int : Redistributed(order[o], UpdateOrder(o, n, 0, -n, 0))
  BY UpdateOrderRedistributes
<1>5. \A n \in Int : Redistributed(order[o], UpdateOrder(o, -n, 0, n, 0))
  BY UpdateOrderRedistributes
<1>6. \A n \in Int : Redistributed(order[o], UpdateOrder(o, n, 0, 0, -n))
  BY UpdateOrderRedistributes
<1>7. \A n \in Int : Redistributed(order[o], UpdateOrder(o, -n, 0, 0, n))
  BY UpdateOrderRedistributes
<1> HIDE DEF R
<1> QED
  BY <1>1, <1>2, <1>3, <1>4, <1>5, <1>6, <1>7, RolledBackCases DEF R

-----------------------------------------------------------------------------
(***************************************************************************)
(* The orders table as a whole                                             *)
(***************************************************************************)

\* new is a table in which some rows that exist are redistributed.
Reworked(new) ==
  /\ new \in [Orders -> Row]
  /\ \A o \in Orders : \/ new[o] = order[o]
                       \/ Exists(o) /\ Redistributed(order[o], new[o])

LEMMA ReworkedOK ==
  ASSUME IInv, Reworked(order')
  PROVE  /\ order' \in [Orders -> Row]
         /\ Conservation'
         /\ \A o \in Orders : Exists(o) => Exists(o)'
<1>1. \A o \in Orders : Exists(o)' => RowSum(order'[o]) = Amount[o]
  BY DEF IInv, Conservation, Reworked, Redistributed, RowSum, Exists
<1> QED
  BY <1>1 DEF Reworked, Redistributed, Exists, Conservation, RowSum

LEMMA rollbackOrderbookType ==
  ASSUME TypeOK, NEW o \in Orders, NEW old \in Int, NEW new \in Int
  PROVE  rollbackOrderbook(o, old, new) \in Int
BY DEF TypeOK, rollbackOrderbook

LEMMA CommitRowsOK ==
  ASSUME IInv, NEW new, Reworked(new), CommitRows(new)
  PROVE  order' = new /\ book' \in [Orders -> Int] /\ faults' \in Nat
<1>1. \A o \in Orders : order[o].available \in Int /\ new[o].available \in Int
  BY DEF IInv, TypeOK, Reworked, Row
<1> QED
  BY <1>1, rollbackOrderbookType DEF IInv, TypeOK, CommitRows

LEMMA AbortRowsOK ==
  ASSUME IInv, NEW new, Reworked(new), AbortRows(new)
  PROVE  /\ order' = order /\ matchTx' = matchTx
         /\ book' \in [Orders -> Int] /\ faults' \in Nat
<1>1. \A o \in Orders : order[o].available \in Int /\ new[o].available \in Int
  BY DEF IInv, TypeOK, Reworked, Row
<1>2. \A o \in Orders : /\ book[o] \in Int
                        /\ rollbackOrderbook(o, order[o].available, new[o].available) \in Int
  BY <1>1, rollbackOrderbookType DEF IInv, TypeOK
<1>3. book' \in [Orders -> Int]
  BY <1>2 DEF AbortRows
<1> QED
  BY <1>3 DEF IInv, TypeOK, AbortRows

-----------------------------------------------------------------------------
(***************************************************************************)
(* The operations                                                          *)
(***************************************************************************)

\* Cancelling, whoever asks for it
LEMMA CancelOK ==
  ASSUME IInv, NEW o \in Orders, NEW all, NEW amt \in Int,
         cancelOrderWithoutLock(o, all, amt)
  PROVE  /\ Reworked(order')
         /\ book' \in [Orders -> Int] /\ timer' \subseteq Orders /\ faults' \in Nat
<1> DEFINE db == cancelDBAmount(o, all, amt)
           bk == cancelBookAmount(o, all, amt)
<1>1. order[o] \in Row /\ book[o] \in Int /\ order[o].available \in Int
  BY DEF IInv, TypeOK, Row
<1>2. db \in Int /\ bk \in Int
  BY <1>1 DEF cancelDBAmount, cancelBookAmount
<1>3. Reworked(order)
  BY DEF IInv, TypeOK, Reworked
<1> HIDE DEF db, bk
<1>4. CASE CancelNothing(o, all, amt)
  BY <1>3, <1>4 DEF CancelNothing, IInv, TypeOK
<1>5. CASE CancelDone(o, all, amt)
  <2>1. book' = [book EXCEPT ![o] = @ - bk] /\ timer' = timer \ {o} /\ faults' = faults
    BY <1>5 DEF CancelDone, bk
  <2>2. Exists(o) /\ \/ order' = order
                     \/ order' = [order EXCEPT ![o] = CanceledRow(o, db)]
    BY <1>5 DEF CancelDone, db
  <2>3. Redistributed(order[o], CanceledRow(o, db))
    BY <1>2, CanceledRowOK DEF IInv
  <2>4. Reworked(order')
    BY <1>3, <2>2, <2>3 DEF Reworked, Redistributed
  <2> QED
    BY <1>1, <1>2, <2>1, <2>4 DEF IInv, TypeOK
<1>6. CASE CancelAborted(o, all, amt)
  <2>1. book' = [book EXCEPT ![o] = @ - bk] /\ order' = order
    BY <1>6 DEF CancelAborted, bk
  <2>2. timer' \subseteq timer /\ faults' \in {faults, faults + 1}
    BY <1>6 DEF CancelAborted
  <2> QED
    BY <1>1, <1>2, <1>3, <2>1, <2>2 DEF IInv, TypeOK
<1> QED
  BY <1>4, <1>5, <1>6 DEF cancelOrderWithoutLock

LEMMA NewOrderOK ==
  ASSUME IInv, NEW o \in Orders, NewOrder(o)
  PROVE  IInv'
<1>1. NoRow \in Row /\ [NoRow EXCEPT !.available = Amount[o]] \in Row
  BY AmountsType DEF NoRow, Row, OrderStatus
<1>2. RowSum([NoRow EXCEPT !.available = Amount[o]]) = Amount[o]
  BY AmountsType DEF NoRow, RowSum
<1>3. NewRow(o) \in Row /\ NewRow(o).status # "none" /\ RowSum(NewRow(o)) = Amount[o]
  BY <1>1, <1>2, SaveOrderType DEF NewRow, RowSum
<1>4. order' = [order EXCEPT ![o] = NewRow(o)]
  BY DEF NewOrder
<1>5. \A p \in Orders : order'[p] = order[p] \/ (p = o /\ order'[p] = NewRow(o))
  BY <1>4 DEF IInv, TypeOK
<1>6. TypeOK'
  <2>1. order' \in [Orders -> Row]
    BY <1>3, <1>4 DEF IInv, TypeOK
  <2> QED
    BY <2>1, AmountsType DEF NewOrder, IInv, TypeOK
<1>7. Conservation'
  BY <1>3, <1>5 DEF IInv, Conservation, RowSum, Exists
<1>8. ItemsExist'
  <2>1. matchTx' = matchTx
    BY DEF NewOrder
  <2> QED
    BY <1>3, <1>5, <2>1 DEF IInv, ItemsExist, Exists
<1> QED
  BY <1>6, <1>7, <1>8 DEF IInv

LEMMA NewOrderFailsOK ==
  ASSUME IInv, NEW o \in Orders, NewOrderFails(o)
  PROVE  IInv'
<1>1. UNCHANGED <<order, expiring, toCancel, matchTx, lost, repeats>>
  BY DEF NewOrderFails
<1>2. TypeOK'
  <2>1. book' \in [Orders -> Int]
    BY AmountsType DEF NewOrderFails, IInv, TypeOK
  <2>2. timer' \subseteq Orders /\ faults' \in Nat
    BY DEF NewOrderFails, IInv, TypeOK
  <2> QED
    BY <1>1, <2>1, <2>2 DEF IInv, TypeOK
<1> QED
  BY <1>1, <1>2 DEF IInv, Conservation, ItemsExist, Exists

\* A step that reworks the orders table and leaves the match transactions
LEMMA ReworkStepOK ==
  ASSUME IInv, Reworked(order'), UNCHANGED <<matchTx, lost, repeats>>,
         book' \in [Orders -> Int], timer' \subseteq Orders,
         expiring' \subseteq Orders, toCancel' \subseteq OrderCancel, faults' \in Nat
  PROVE  IInv'
<1>1. TypeOK' /\ Conservation'
  BY ReworkedOK DEF IInv, TypeOK
<1>2. ItemsExist'
  BY ReworkedOK DEF IInv, ItemsExist
<1> QED
  BY <1>1, <1>2 DEF IInv

LEMMA CancelOrderOK ==
  ASSUME IInv, NEW o \in Orders, CancelOrder(o)
  PROVE  IInv'
<1>1. cancelOrderWithoutLock(o, TRUE, 0) /\ UNCHANGED <<expiring, toCancel, matchTx, lost, repeats>>
  BY DEF CancelOrder
<1>0. 0 \in Int
  OBVIOUS
<1>2. /\ Reworked(order')
      /\ book' \in [Orders -> Int] /\ timer' \subseteq Orders /\ faults' \in Nat
  BY <1>0, <1>1, CancelOK, Zenon
<1> QED
  BY <1>1, <1>2, ReworkStepOK DEF IInv, TypeOK

LEMMA onOrderExpiredOK ==
  ASSUME IInv, NEW o \in Orders, onOrderExpired(o)
  PROVE  IInv'
<1>1. /\ cancelOrderWithoutLock(o, TRUE, 0)
      /\ expiring' = expiring \ {o} /\ UNCHANGED <<toCancel, matchTx, lost, repeats>>
  BY DEF onOrderExpired
<1>0. 0 \in Int
  OBVIOUS
<1>2. /\ Reworked(order')
      /\ book' \in [Orders -> Int] /\ timer' \subseteq Orders /\ faults' \in Nat
  BY <1>0, <1>1, CancelOK, Zenon
<1> QED
  BY <1>1, <1>2, ReworkStepOK DEF IInv, TypeOK

LEMMA checkPerpUserOrdersOK ==
  ASSUME IInv, NEW c \in toCancel, checkPerpUserOrders(c)
  PROVE  IInv'
<1>1. c.hash \in Orders /\ c.amount \in Int
  BY DEF IInv, TypeOK, OrderCancel
<1>2. /\ cancelOrderWithoutLock(c.hash, FALSE, c.amount)
      /\ toCancel' = toCancel \ {c} /\ UNCHANGED <<expiring, matchTx, lost, repeats>>
  BY DEF checkPerpUserOrders
<1>3. /\ Reworked(order')
      /\ book' \in [Orders -> Int] /\ timer' \subseteq Orders /\ faults' \in Nat
  BY <1>1, <1>2, CancelOK
<1> QED
  BY <1>2, <1>3, ReworkStepOK DEF IInv, TypeOK

LEMMA checkUserPendingOrdersOK ==
  ASSUME IInv, NEW u, checkUserPendingOrders(u)
  PROVE  IInv'
<1>1. toCancel' \subseteq OrderCancel
  BY DEF checkUserPendingOrders, OrderCancel, PendingOrdersOf, PendingOrders, Lots
<1>2. UNCHANGED <<order, book, timer, expiring, matchTx, lost, repeats, faults>>
  BY DEF checkUserPendingOrders
<1> QED
  BY <1>1, <1>2 DEF IInv, TypeOK, Conservation, ItemsExist, Exists

LEMMA TimerFiresOK ==
  ASSUME IInv, NEW o \in Orders, TimerFires(o)
  PROVE  IInv'
BY DEF TimerFires, IInv, TypeOK, Conservation, ItemsExist, Exists

LEMMA reloadActiveOrdersOK ==
  ASSUME IInv, reloadActiveOrders
  PROVE  IInv'
<1>1. \A o \in Orders : order[o].available \in Int
  BY DEF IInv, TypeOK, Row
<1>2. book' \in [Orders -> Int] /\ timer' \subseteq Orders
  BY <1>1 DEF reloadActiveOrders, PendingOrders
<1>3. expiring' = {} /\ toCancel' = {} /\ UNCHANGED <<order, matchTx, lost, repeats, faults>>
  BY DEF reloadActiveOrders
<1> QED
  BY <1>2, <1>3 DEF IInv, TypeOK, Conservation, ItemsExist, Exists

LEMMA MatchItemsType ==
  ASSUME NEW m \in MatchItems
  PROVE  m \in [Orders -> Int]
BY DEF MatchItems, Lots

LEMMA BookAfterMatchType ==
  ASSUME TypeOK, NEW m \in [Orders -> Int]
  PROVE  BookAfterMatch(m) \in [Orders -> Int]
<1>1. \A o \in Orders : book[o] \in Int /\ m[o] \in Int
  BY DEF TypeOK
<1>2. \A o \in Orders : OrderTotalCancel(o, m[o]) \in Int
  BY <1>1, AmountsType DEF OrderTotalCancel
<1> QED
  BY <1>1, <1>2 DEF BookAfterMatch

LEMMA NothingType == Nothing \in [Orders -> Int]
BY DEF Nothing

LEMMA matchOrdersOK ==
  ASSUME IInv, NEW t \in Txs, matchOrders(t)
  PROVE  IInv'
<1>1. PICK m \in MatchItems :
        /\ \A o \in Orders : ~MatchRefused(o, m[o])
        /\ order' = [o \in Orders |-> IF m[o] = 0 THEN order[o]
                                      ELSE MatchedRow(o, m[o])]
        /\ matchTx' = [matchTx EXCEPT ![t] = NewTx(m)]
        /\ book' = BookAfterMatch(m)
  BY DEF matchOrders
<1>2. m \in [Orders -> Int]
  BY MatchItemsType
<1>3. Reworked(order')
  <2>1. \A o \in Orders : m[o] # 0 => Exists(o) /\ Redistributed(order[o], MatchedRow(o, m[o]))
    BY <1>1, <1>2, MatchedRowOK DEF MatchRefused, IInv
  <2> QED
    BY <1>1, <2>1 DEF Reworked, Redistributed, IInv, TypeOK
<1>4. NewTx(m) \in MatchTransaction /\ NewTx(m).items = m
  BY <1>2, NothingType DEF NewTx, MatchTransaction, TransactionStatus
<1>5. TypeOK'
  <2>1. order' \in [Orders -> Row]
    BY <1>3 DEF Reworked
  <2>2. book' \in [Orders -> Int]
    BY <1>1, <1>2, BookAfterMatchType DEF IInv
  <2>3. matchTx' \in [Txs -> MatchTransaction]
    BY <1>1, <1>4 DEF IInv, TypeOK
  <2> QED
    BY <2>1, <2>2, <2>3 DEF matchOrders, IInv, TypeOK
<1>6. Conservation' /\ \A o \in Orders : Exists(o) => Exists(o)'
  BY <1>3, ReworkedOK
<1>7. ItemsExist'
  <2>1. \A o \in Orders : m[o] # 0 => Exists(o)
    BY <1>1 DEF MatchRefused
  <2>2. \A u \in Txs : matchTx'[u] = matchTx[u] \/ matchTx'[u].items = m
    BY <1>1, <1>4 DEF IInv, TypeOK
  <2> QED
    BY <1>6, <2>1, <2>2 DEF IInv, ItemsExist
<1> QED
  BY <1>5, <1>6, <1>7 DEF IInv

LEMMA matchOrdersFailsOK ==
  ASSUME IInv, matchOrdersFails
  PROVE  IInv'
<1>1. book' \in [Orders -> Int]
  BY MatchItemsType, BookAfterMatchType DEF matchOrdersFails, IInv
<1>2. faults' \in Nat /\ UNCHANGED <<order, timer, expiring, toCancel, matchTx, lost, repeats>>
  BY DEF matchOrdersFails, IInv, TypeOK
<1> QED
  BY <1>1, <1>2 DEF IInv, TypeOK, Conservation, ItemsExist, Exists

\* A step that changes one match transaction but not its items
LEMMA TxStepOK ==
  ASSUME IInv, Reworked(order'), NEW t \in Txs, NEW tx \in MatchTransaction,
         tx.items = matchTx[t].items, matchTx' = [matchTx EXCEPT ![t] = tx],
         book' \in [Orders -> Int], faults' \in Nat,
         lost' \subseteq Txs, UNCHANGED <<timer, expiring, toCancel, repeats>>
  PROVE  IInv'
<1>1. TypeOK' /\ Conservation' /\ \A o \in Orders : Exists(o) => Exists(o)'
  BY ReworkedOK DEF IInv, TypeOK
<1>2. \A u \in Txs : matchTx'[u].items = matchTx[u].items
  BY DEF IInv, TypeOK
<1>3. ItemsExist'
  BY <1>1, <1>2 DEF IInv, ItemsExist
<1> QED
  BY <1>1, <1>3 DEF IInv

LEMMA createLaunchTransactionOK ==
  ASSUME IInv, NEW t \in Txs, createLaunchTransaction(t)
  PROVE  IInv'
<1> DEFINE tx == [matchTx[t] EXCEPT !.status = "PENDING"]
<1>1. matchTx[t] \in MatchTransaction
  BY DEF IInv, TypeOK
<1>2. tx \in MatchTransaction /\ tx.items = matchTx[t].items
  BY <1>1 DEF MatchTransaction, TransactionStatus
<1>3. matchTx' = [matchTx EXCEPT ![t] = tx]
  BY DEF createLaunchTransaction, IInv, TypeOK
<1>4. UNCHANGED <<order, book, timer, expiring, toCancel, lost, repeats, faults>>
  BY DEF createLaunchTransaction
<1>5. Reworked(order')
  BY <1>4 DEF Reworked, IInv, TypeOK
<1> HIDE DEF tx
<1> QED
  BY <1>2, <1>3, <1>4, <1>5, TxStepOK DEF IInv, TypeOK

LEMMA UpdateOrdersStatusOK ==
  ASSUME IInv, NEW t \in Txs, NEW status \in TransactionStatus,
         NEW succ \in [Orders -> Int], NEW failed \in [Orders -> Int],
         UpdateOrdersStatus(t, status, succ, failed)
  PROVE  IInv'
<1> DEFINE items == matchTx[t].items
           new == [o \in Orders |->
                     IF o \notin Items(t) THEN order[o]
                     ELSE SettledRow(o, items[o], succ[o], failed[o])]
           tx == [status |-> status, blockConfirmed |-> TRUE, items |-> items,
                  succ   |-> Appended(matchTx[t].succ, succ),
                  failed |-> Appended(matchTx[t].failed, failed)]
<1>1. matchTx[t] \in MatchTransaction
  BY DEF IInv, TypeOK
<1>2. items \in [Orders -> Int] /\ \A o \in Items(t) : o \in Orders /\ Exists(o)
  BY <1>1 DEF MatchTransaction, Items, IInv, ItemsExist
<1>3. Reworked(new)
  <2>1. \A o \in Orders : o \in Items(t) =>
          Exists(o) /\ Redistributed(order[o], SettledRow(o, items[o], succ[o], failed[o]))
    BY <1>2, SettledRowOK DEF IInv
  <2> QED
    BY <2>1 DEF Reworked, Redistributed, IInv, TypeOK
<1>4. tx \in MatchTransaction /\ tx.items = items
  <2>1. /\ Appended(matchTx[t].succ, succ) \in [Orders -> Int]
        /\ Appended(matchTx[t].failed, failed) \in [Orders -> Int]
    BY <1>1 DEF Appended, MatchTransaction
  <2> QED
    BY <1>2, <2>1 DEF MatchTransaction
<1>5. /\ \/ CommitRows(new) /\ matchTx' = [matchTx EXCEPT ![t] = tx]
         \/ AbortRows(new)
      /\ lost' \subseteq Txs /\ UNCHANGED <<timer, expiring, toCancel, repeats>>
  BY DEF UpdateOrdersStatus, IInv, TypeOK
<1> HIDE DEF new, tx
<1>6. CASE CommitRows(new) /\ matchTx' = [matchTx EXCEPT ![t] = tx]
  <2>1. order' = new /\ book' \in [Orders -> Int] /\ faults' \in Nat
    BY <1>3, <1>6, CommitRowsOK
  <2> QED
    BY <1>3, <1>4, <1>5, <1>6, <2>1, TxStepOK
<1>7. CASE AbortRows(new)
  <2>1. /\ order' = order /\ matchTx' = matchTx
        /\ book' \in [Orders -> Int] /\ faults' \in Nat
    BY <1>3, <1>7, AbortRowsOK
  <2> QED
    BY <1>5, <2>1 DEF IInv, TypeOK, Conservation, ItemsExist, Exists
<1> QED
  BY <1>5, <1>6, <1>7

LEMMA RollbackOrdersStatusOK ==
  ASSUME IInv, NEW t \in Txs, NEW status \in TransactionStatus,
         NEW succ \in [Orders -> Int], NEW failed \in [Orders -> Int],
         RollbackOrdersStatus(t, status, succ, failed)
  PROVE  IInv'
<1> DEFINE old == matchTx[t]
           res == [o \in Orders |->
                     IF o \notin Items(t)
                     THEN [row |-> order[o], succ |-> 0, failed |-> 0]
                     ELSE RolledBack(o, old.succ[o], old.failed[o], succ[o], failed[o])]
           new == [o \in Orders |-> res[o].row]
           tx == [status |-> status, blockConfirmed |-> old.blockConfirmed,
                  items  |-> old.items,
                  succ   |-> [o \in Orders |-> res[o].succ],
                  failed |-> [o \in Orders |-> res[o].failed]]
<1>1. old \in MatchTransaction
  BY DEF IInv, TypeOK
<1>2. \A o \in Items(t) : o \in Orders /\ Exists(o)
  BY <1>1 DEF Items, IInv, ItemsExist
<1>3. \A o \in Orders : /\ res[o].succ \in Int /\ res[o].failed \in Int
                        /\ \/ res[o].row = order[o]
                           \/ Exists(o) /\ Redistributed(order[o], res[o].row)
  <2> SUFFICES ASSUME NEW o \in Orders
               PROVE  /\ res[o].succ \in Int /\ res[o].failed \in Int
                      /\ \/ res[o].row = order[o]
                         \/ Exists(o) /\ Redistributed(order[o], res[o].row)
    OBVIOUS
  <2>1. CASE o \notin Items(t)
    BY <2>1
  <2>2. CASE o \in Items(t)
    <3>1. old.succ[o] \in Int /\ old.failed[o] \in Int
      BY <1>1 DEF MatchTransaction
    <3> QED
      BY <1>2, <2>2, <3>1, RolledBackOK DEF IInv
  <2> QED
    BY <2>1, <2>2
<1> HIDE DEF res
<1>4. Reworked(new)
  BY <1>3 DEF Reworked, Redistributed, IInv, TypeOK
<1>5. tx \in MatchTransaction /\ tx.items = old.items
  BY <1>1, <1>3 DEF MatchTransaction
<1>6. /\ \/ CommitRows(new) /\ matchTx' = [matchTx EXCEPT ![t] = tx]
         \/ AbortRows(new)
      /\ lost' \subseteq Txs /\ UNCHANGED <<timer, expiring, toCancel, repeats>>
  BY DEF RollbackOrdersStatus, res, IInv, TypeOK
<1> HIDE DEF new, tx
<1>7. CASE CommitRows(new) /\ matchTx' = [matchTx EXCEPT ![t] = tx]
  <2>1. order' = new /\ book' \in [Orders -> Int] /\ faults' \in Nat
    BY <1>4, <1>7, CommitRowsOK
  <2> QED
    BY <1>4, <1>5, <1>6, <1>7, <2>1, TxStepOK
<1>8. CASE AbortRows(new)
  <2>1. /\ order' = order /\ matchTx' = matchTx
        /\ book' \in [Orders -> Int] /\ faults' \in Nat
    BY <1>4, <1>8, AbortRowsOK
  <2> QED
    BY <1>6, <2>1 DEF IInv, TypeOK, Conservation, ItemsExist, Exists
<1> QED
  BY <1>6, <1>7, <1>8

\* The events of the chain are amounts.
LEMMA EventsType ==
  ASSUME IInv, NEW t \in Txs, NEW s \in Fills(t), NEW F
  PROVE  /\ SuccessEvents(s, F) \in [Orders -> Int]
         /\ FailedEvents(t, F) \in [Orders -> Int]
<1>1. s \in [Orders -> Int]
  BY DEF Fills, Lots
<1>2. matchTx[t].items \in [Orders -> Int]
  BY DEF IInv, TypeOK, MatchTransaction
<1> QED
  BY <1>1, <1>2 DEF SuccessEvents, FailedEvents

LEMMA SettleOK ==
  ASSUME IInv, NEW t \in Txs, Settle(t)
  PROVE  IInv'
<1>1. {"SUCCESS", "FAIL"} \subseteq TransactionStatus
  BY DEF TransactionStatus
<1>2. CASE \E s \in Fills(t), F \in SUBSET Items(t) :
             UpdateOrdersStatus(t, "SUCCESS", SuccessEvents(s, F), FailedEvents(t, F))
  BY <1>1, <1>2, EventsType, UpdateOrdersStatusOK
<1>3. CASE UpdateOrdersStatus(t, "FAIL", Nothing, Nothing)
  BY <1>1, <1>3, NothingType, UpdateOrdersStatusOK
<1> QED
  BY <1>2, <1>3 DEF Settle

LEMMA AbortOK ==
  ASSUME IInv, NEW t \in Txs, Abort(t)
  PROVE  IInv'
<1>1. "ABORT" \in TransactionStatus
  BY DEF TransactionStatus
<1> QED
  BY <1>1, NothingType, UpdateOrdersStatusOK DEF Abort

LEMMA RecheckOK ==
  ASSUME IInv, NEW t \in Txs, Recheck(t)
  PROVE  IInv'
<1>1. {"SUCCESS", "FAIL"} \subseteq TransactionStatus
  BY DEF TransactionStatus
<1>2. CASE \E s \in Fills(t), F \in SUBSET Items(t) :
             RollbackOrdersStatus(t, "SUCCESS", SuccessEvents(s, F), FailedEvents(t, F))
  BY <1>1, <1>2, EventsType, RollbackOrdersStatusOK
<1>3. CASE RollbackOrdersStatus(t, "FAIL", Nothing, Nothing)
  BY <1>1, <1>3, NothingType, RollbackOrdersStatusOK
<1> QED
  BY <1>2, <1>3 DEF Recheck

LEMMA ResultLostOK ==
  ASSUME IInv, NEW t \in Txs, ResultLost(t)
  PROVE  IInv'
<1>1. UNCHANGED <<order, book, timer, expiring, toCancel, matchTx>>
  BY DEF ResultLost
<1>2. lost' \subseteq Txs /\ repeats' \in Nat /\ faults' \in Nat
  BY DEF ResultLost, IInv, TypeOK
<1> QED
  BY <1>1, <1>2 DEF IInv, TypeOK, Conservation, ItemsExist, Exists

LEMMA InitOK == Init => IInv
<1> SUFFICES ASSUME Init PROVE IInv
  OBVIOUS
<1>1. NoRow \in Row /\ NoRow.status = "none"
  BY DEF NoRow, Row, OrderStatus
<1>2. NoTx \in MatchTransaction /\ NoTx.items = Nothing
  BY NothingType DEF NoTx, MatchTransaction, TransactionStatus
<1>3. TypeOK
  BY <1>1, <1>2, NothingType DEF Init, TypeOK
<1>4. Conservation
  BY <1>1 DEF Init, Conservation, Exists
<1>5. ItemsExist
  BY <1>2 DEF Init, ItemsExist, Nothing
<1> QED
  BY <1>3, <1>4, <1>5 DEF IInv

LEMMA NextOK == IInv /\ [Next]_vars => IInv'
<1> SUFFICES ASSUME IInv, [Next]_vars PROVE IInv'
  OBVIOUS
<1>1. ASSUME NEW o \in Orders, NewOrder(o) PROVE IInv'
  BY <1>1, NewOrderOK
<1>2. ASSUME NEW o \in Orders, NewOrderFails(o) PROVE IInv'
  BY <1>2, NewOrderFailsOK
<1>3. ASSUME NEW o \in Orders, CancelOrder(o) PROVE IInv'
  BY <1>3, CancelOrderOK
<1>4. ASSUME NEW o \in Orders, TimerFires(o) PROVE IInv'
  BY <1>4, TimerFiresOK
<1>5. ASSUME NEW o \in Orders, onOrderExpired(o) PROVE IInv'
  BY <1>5, onOrderExpiredOK
<1>6. ASSUME NEW u, checkUserPendingOrders(u) PROVE IInv'
  BY <1>6, checkUserPendingOrdersOK
<1>7. ASSUME NEW c \in toCancel, checkPerpUserOrders(c) PROVE IInv'
  BY <1>7, checkPerpUserOrdersOK
<1>8. ASSUME NEW t \in Txs, matchOrders(t) PROVE IInv'
  BY <1>8, matchOrdersOK
<1>9. ASSUME NEW t \in Txs, createLaunchTransaction(t) PROVE IInv'
  BY <1>9, createLaunchTransactionOK
<1>10. ASSUME NEW t \in Txs, Settle(t) PROVE IInv'
  BY <1>10, SettleOK
<1>11. ASSUME NEW t \in Txs, Abort(t) PROVE IInv'
  BY <1>11, AbortOK
<1>12. ASSUME NEW t \in Txs, Recheck(t) PROVE IInv'
  BY <1>12, RecheckOK
<1>13. ASSUME matchOrdersFails PROVE IInv'
  BY <1>13, matchOrdersFailsOK
<1>14. ASSUME reloadActiveOrders PROVE IInv'
  BY <1>14, reloadActiveOrdersOK
<1>15. CASE UNCHANGED vars
  BY <1>15 DEF vars, IInv, TypeOK, Conservation, ItemsExist, Exists
<1>16. ASSUME NEW t \in Txs, ResultLost(t) PROVE IInv'
  BY <1>16, ResultLostOK
<1> QED
  BY <1>1, <1>2, <1>3, <1>4, <1>5, <1>6, <1>7, <1>8, <1>9, <1>10, <1>11,
     <1>12, <1>13, <1>14, <1>15, <1>16 DEF Next

-----------------------------------------------------------------------------

\* The invariant holds in every reachable state.
THEOREM Invariance == Spec => []IInv
BY InitOK, NextOK, PTL DEF Spec

\* Type correctness: every operation of the matcher, the failing ones
\* included, leaves well-formed rows and match transactions.
THEOREM TypeCorrectness == Spec => []TypeOK
<1>1. IInv => TypeOK
  BY DEF IInv
<1> QED
  BY <1>1, Invariance, PTL

\* What an order was placed for is always exactly split into available,
\* pending, confirmed and canceled, whatever the chain reports, whichever
\* database transactions fail and however often the process restarts.
THEOREM AmountsConserved == Spec => []Conservation
<1>1. IInv => Conservation
  BY DEF IInv
<1> QED
  BY <1>1, Invariance, PTL

-----------------------------------------------------------------------------
(***************************************************************************)
(* The order book, the orders table and the match transactions agree, as   *)
(* long as no result is handed in twice and no database transaction        *)
(* failed; what needs the first of these only is stated without the        *)
(* second.                                                                 *)
(***************************************************************************)

\* A status that is computed from the amounts of the row
Saved(o, r) == r.status = setStatusByAmounts(o, r)

\* A row that exists was saved; the others are empty.
RowsSaved ==
  \A o \in Orders : IF Exists(o) THEN Saved(o, order[o]) ELSE order[o] = NoRow

\* The records of a match transaction start empty; they are about its items,
\* and no item both succeeded and failed.
RecordOK(tx) ==
  /\ tx.blockConfirmed <=> tx.status \in {"SUCCESS", "FAIL", "ABORT"}
  /\ ~tx.blockConfirmed => tx.succ = Nothing /\ tx.failed = Nothing
  /\ \A o \in Orders : /\ tx.items[o] = 0 => tx.succ[o] = 0 /\ tx.failed[o] = 0
                       /\ tx.succ[o] = 0 \/ tx.failed[o] = 0

RecordsKept == \A t \in Txs : RecordOK(matchTx[t])

\* What is pending and confirmed of an order is what its transactions say.
SumsAgree ==
  \A o \in Orders : order[o].pending = InFlight(o) /\ order[o].confirmed = Succeeded(o)

\* x has the sign of order o.
Signed(o, x) == HasTheSameSign(x, Amount[o])

TxSigned(tx) ==
  \A o \in Orders : /\ Signed(o, tx.items[o])
                    /\ Signed(o, tx.succ[o]) /\ Signed(o, tx.failed[o])

\* Every amount has the sign of its order.
AmountsSigned ==
  /\ \A o \in Orders : /\ Signed(o, order[o].available)
                       /\ Signed(o, order[o].canceled - FailedOnChain(o))
  /\ \A t \in Txs : TxSigned(matchTx[t])
  /\ \A c \in toCancel : Signed(c.hash, c.amount)

BookIsTable == \A o \in Orders : book[o] = order[o].available

BInv ==
  /\ IInv
  /\ RowsSaved
  /\ RecordsKept
  /\ SumsAgree
  /\ faults = 0 => AmountsSigned /\ BookIsTable

\* A lost result is counted, among the repeats and among the faults.
LossesCounted ==
  /\ repeats = 0 => lost = {}
  /\ faults = 0 => repeats = 0

\* BInv is kept until the launcher loses a result.
AInv ==
  /\ IInv
  /\ LossesCounted
  /\ repeats = 0 => BInv

-----------------------------------------------------------------------------
(***************************************************************************)
(* Amounts and sums                                                        *)
(***************************************************************************)

LEMMA OrderAmount ==
  ASSUME NEW o \in Orders
  PROVE  Amount[o] \in Int /\ Amount[o] # 0
BY ConstantsAssumption DEF Lots

LEMMA RowType ==
  ASSUME TypeOK, NEW o \in Orders
  PROVE  /\ order[o] \in Row /\ book[o] \in Int
         /\ order[o].available \in Int /\ order[o].pending \in Int
         /\ order[o].confirmed \in Int /\ order[o].canceled \in Int
BY DEF TypeOK, Row

LEMMA TxType ==
  ASSUME TypeOK, NEW t \in Txs
  PROVE  /\ matchTx[t] \in MatchTransaction
         /\ matchTx[t].blockConfirmed \in BOOLEAN
         /\ matchTx[t].items \in [Orders -> Int]
         /\ matchTx[t].succ \in [Orders -> Int]
         /\ matchTx[t].failed \in [Orders -> Int]
         /\ \A o \in Orders : /\ matchTx[t].items[o] \in Int
                              /\ matchTx[t].succ[o] \in Int
                              /\ matchTx[t].failed[o] \in Int
BY DEF TypeOK, MatchTransaction

\* The sum of amounts of one sign has that sign and holds each of them.
LEMMA TotalSigned ==
  ASSUME NEW f \in [Txs -> Int], NEW o \in Orders,
         \A t \in Txs : Signed(o, f[t])
  PROVE  /\ Signed(o, Total(f, MaxTxs))
         /\ \A t \in Txs : PartOf(f[t], Total(f, MaxTxs))
<1>1. MaxTxs \in Nat /\ Txs = 1..MaxTxs
  BY ConstantsAssumption DEF Txs
<1>2. Total(f, MaxTxs) \in Int
  BY <1>1, TotalType
<1>3. CASE Amount[o] > 0
  <2>1. \A t \in 1..MaxTxs : 0 <= f[t]
    BY <1>1, <1>3, OrderAmount DEF Signed, HasTheSameSign
  <2>2. 0 <= Total(f, MaxTxs) /\ \A t \in 1..MaxTxs : f[t] <= Total(f, MaxTxs)
    BY <1>1, <2>1, TotalNotNegative
  <2> QED
    BY <1>1, <1>2, <1>3, <2>1, <2>2, OrderAmount DEF Signed, HasTheSameSign, PartOf
<1>4. CASE Amount[o] < 0
  <2>1. \A t \in 1..MaxTxs : f[t] <= 0
    BY <1>1, <1>4, OrderAmount DEF Signed, HasTheSameSign
  <2>2. Total(f, MaxTxs) <= 0 /\ \A t \in 1..MaxTxs : Total(f, MaxTxs) <= f[t]
    BY <1>1, <2>1, TotalNotPositive
  <2> QED
    BY <1>1, <1>2, <1>4, <2>1, <2>2, OrderAmount DEF Signed, HasTheSameSign, PartOf
<1> QED
  BY <1>3, <1>4, OrderAmount

\* What tx carries to the chain of order o
Carries(tx, o) == IF tx.blockConfirmed THEN 0 ELSE tx.items[o]

LEMMA SumsType ==
  ASSUME TypeOK, NEW o \in Orders
  PROVE  InFlight(o) \in Int /\ Succeeded(o) \in Int /\ FailedOnChain(o) \in Int
<1>1. MaxTxs \in Nat /\ Txs = 1..MaxTxs
  BY ConstantsAssumption DEF Txs
<1>2. /\ [t \in Txs |-> IF matchTx[t].blockConfirmed THEN 0 ELSE matchTx[t].items[o]]
           \in [1..MaxTxs -> Int]
      /\ [t \in Txs |-> matchTx[t].succ[o]] \in [1..MaxTxs -> Int]
      /\ [t \in Txs |-> matchTx[t].failed[o]] \in [1..MaxTxs -> Int]
  BY <1>1, TxType
<1> QED
  BY <1>1, <1>2, TotalType DEF InFlight, Succeeded, FailedOnChain

\* When one match transaction changes, the sums change by the difference.
LEMMA SumsFollow ==
  ASSUME TypeOK, NEW o \in Orders, NEW t \in Txs, NEW tx \in MatchTransaction,
         matchTx' = [matchTx EXCEPT ![t] = tx]
  PROVE  /\ InFlight(o)' = InFlight(o) + (Carries(tx, o) - Carries(matchTx[t], o))
         /\ Succeeded(o)' = Succeeded(o) + (tx.succ[o] - matchTx[t].succ[o])
         /\ FailedOnChain(o)' = FailedOnChain(o) + (tx.failed[o] - matchTx[t].failed[o])
<1> DEFINE N == MaxTxs
           p == [u \in Txs |-> IF matchTx[u].blockConfirmed THEN 0 ELSE matchTx[u].items[o]]
           s == [u \in Txs |-> matchTx[u].succ[o]]
           f == [u \in Txs |-> matchTx[u].failed[o]]
           q == [u \in Txs |-> IF matchTx'[u].blockConfirmed THEN 0 ELSE matchTx'[u].items[o]]
           r == [u \in Txs |-> matchTx'[u].succ[o]]
           g == [u \in Txs |-> matchTx'[u].failed[o]]
<1>1. N \in Nat /\ Txs = 1..N
  BY ConstantsAssumption DEF Txs
<1>2. Carries(tx, o) \in Int /\ tx.succ[o] \in Int /\ tx.failed[o] \in Int
  BY DEF Carries, MatchTransaction
<1>3. p \in [Txs -> Int] /\ s \in [Txs -> Int] /\ f \in [Txs -> Int]
  BY TxType
<1>4. matchTx'[t] = tx /\ \A u \in Txs : u # t => matchTx'[u] = matchTx[u]
  BY DEF TypeOK
<1>5. /\ q[t] = Carries(tx, o) /\ r[t] = tx.succ[o] /\ g[t] = tx.failed[o]
      /\ p[t] = Carries(matchTx[t], o)
      /\ s[t] = matchTx[t].succ[o] /\ f[t] = matchTx[t].failed[o]
  BY <1>4 DEF Carries
<1>6. \A u \in Txs : u # t => q[u] = p[u] /\ r[u] = s[u] /\ g[u] = f[u]
  BY <1>4
<1>7. /\ InFlight(o) = Total(p, N) /\ Succeeded(o) = Total(s, N)
      /\ FailedOnChain(o) = Total(f, N)
  BY DEF InFlight, Succeeded, FailedOnChain
<1>8. /\ InFlight(o)' = Total(q, N) /\ Succeeded(o)' = Total(r, N)
      /\ FailedOnChain(o)' = Total(g, N)
  BY DEF InFlight, Succeeded, FailedOnChain
<1>9. \A u \in Txs : q[u] \in Int /\ r[u] \in Int /\ g[u] \in Int
  <2> SUFFICES ASSUME NEW u \in Txs PROVE q[u] \in Int /\ r[u] \in Int /\ g[u] \in Int
    OBVIOUS
  <2>1. /\ p[u] \in Int /\ s[u] \in Int /\ f[u] \in Int
    BY <1>3
  <2> HIDE DEF p, s, f, q, r, g
  <2> QED
    BY <1>2, <1>5, <1>6, <2>1
<1>10. q \in [Txs -> Int] /\ r \in [Txs -> Int] /\ g \in [Txs -> Int]
  BY <1>9
<1> HIDE DEF N, p, s, f, q, r, g
<1>11. Total(q, N) = Total(p, N) + (q[t] - p[t])
  BY <1>1, <1>3, <1>6, <1>10, TotalChanged
<1>12. Total(r, N) = Total(s, N) + (r[t] - s[t])
  BY <1>1, <1>3, <1>6, <1>10, TotalChanged
<1>13. Total(g, N) = Total(f, N) + (g[t] - f[t])
  BY <1>1, <1>3, <1>6, <1>10, TotalChanged
<1> QED
  BY <1>5, <1>7, <1>8, <1>11, <1>12, <1>13

LEMMA SumsStay ==
  ASSUME matchTx' = matchTx, NEW o
  PROVE  /\ InFlight(o)' = InFlight(o) /\ Succeeded(o)' = Succeeded(o)
         /\ FailedOnChain(o)' = FailedOnChain(o)
BY DEF InFlight, Succeeded, FailedOnChain

-----------------------------------------------------------------------------
(***************************************************************************)
(* Consequences of the invariant                                           *)
(***************************************************************************)

LEMMA PendingSigned ==
  ASSUME BInv, faults = 0, NEW o \in Orders
  PROVE  /\ Signed(o, order[o].pending) /\ Signed(o, order[o].confirmed)
         /\ Signed(o, order[o].canceled)
         /\ PartOf(FailedOnChain(o), order[o].canceled)
         /\ \A t \in Txs : ~matchTx[t].blockConfirmed =>
              PartOf(matchTx[t].items[o], order[o].pending)
<1> DEFINE p == [t \in Txs |-> IF matchTx[t].blockConfirmed THEN 0 ELSE matchTx[t].items[o]]
           s == [t \in Txs |-> matchTx[t].succ[o]]
           f == [t \in Txs |-> matchTx[t].failed[o]]
<1>1. TypeOK /\ AmountsSigned
  BY DEF BInv, IInv
<1>2. p \in [Txs -> Int] /\ s \in [Txs -> Int] /\ f \in [Txs -> Int]
  BY <1>1, TxType
<1>3. \A t \in Txs : Signed(o, p[t]) /\ Signed(o, s[t]) /\ Signed(o, f[t])
  BY <1>1 DEF AmountsSigned, TxSigned, Signed, HasTheSameSign
<1>4. \A t \in Txs : ~matchTx[t].blockConfirmed => p[t] = matchTx[t].items[o]
  OBVIOUS
<1>5. /\ order[o].pending = Total(p, MaxTxs) /\ order[o].confirmed = Total(s, MaxTxs)
      /\ FailedOnChain(o) = Total(f, MaxTxs)
  BY DEF BInv, SumsAgree, InFlight, Succeeded, FailedOnChain
<1> HIDE DEF p, s, f
<1>6. /\ Signed(o, order[o].pending) /\ Signed(o, order[o].confirmed)
      /\ Signed(o, FailedOnChain(o))
      /\ \A t \in Txs : PartOf(p[t], order[o].pending)
  BY <1>2, <1>3, <1>5, TotalSigned
<1>7. /\ Signed(o, order[o].canceled)
      /\ PartOf(FailedOnChain(o), order[o].canceled)
  <2>1. Signed(o, order[o].canceled - FailedOnChain(o))
    BY <1>1 DEF AmountsSigned
  <2> QED
    BY <1>1, <1>6, <2>1, RowType, SumsType, OrderAmount
       DEF Signed, HasTheSameSign, PartOf
<1> QED
  BY <1>4, <1>6, <1>7

LEMMA PartsOK == BInv => PartsWithinOrder
<1> SUFFICES ASSUME BInv, faults = 0, NEW o \in Orders
             PROVE  /\ PartOf(order[o].available, Amount[o])
                    /\ PartOf(order[o].pending, Amount[o])
                    /\ PartOf(order[o].confirmed, Amount[o])
                    /\ PartOf(order[o].canceled, Amount[o])
  BY DEF PartsWithinOrder
<1>1. CASE Exists(o)
  <2>1. order[o].available + order[o].pending + order[o].confirmed + order[o].canceled
          = Amount[o]
    BY <1>1 DEF BInv, IInv, Conservation
  <2>2. Signed(o, order[o].available)
    BY DEF BInv, AmountsSigned
  <2> QED
    BY <2>1, <2>2, PendingSigned, RowType, OrderAmount
       DEF Signed, HasTheSameSign, PartOf, BInv, IInv
<1>2. CASE ~Exists(o)
  <2>1. order[o] = NoRow
    BY <1>2 DEF BInv, RowsSaved
  <2> QED
    BY <2>1, OrderAmount DEF NoRow, PartOf
<1> QED
  BY <1>1, <1>2

LEMMA StatusOK == BInv => StatusTellsAmounts
<1> SUFFICES ASSUME BInv, faults = 0, NEW o \in Orders, Exists(o)
             PROVE  order[o].status = "pending" <=>
                      order[o].available # 0 \/ order[o].pending # 0
  BY DEF StatusTellsAmounts
<1>1. order[o].available + order[o].pending + order[o].confirmed + order[o].canceled
        = Amount[o]
  BY DEF BInv, IInv, Conservation
<1>2. Signed(o, order[o].available)
  BY DEF BInv, AmountsSigned
<1>3. order[o].status = setStatusByAmounts(o, order[o])
  BY DEF BInv, RowsSaved, Saved
<1>4. /\ Signed(o, order[o].pending) /\ Signed(o, order[o].confirmed)
      /\ Signed(o, order[o].canceled)
  BY PendingSigned
<1>5. (order[o].available = 0 /\ order[o].pending = 0)
        <=> order[o].available + order[o].pending = 0
  BY <1>2, <1>4, RowType, OrderAmount DEF Signed, HasTheSameSign, BInv, IInv
<1>6. order[o].confirmed = Amount[o] \/ order[o].canceled = Amount[o]
        => order[o].available = 0 /\ order[o].pending = 0
  BY <1>1, <1>2, <1>4, RowType, OrderAmount DEF Signed, HasTheSameSign, BInv, IInv
<1> QED
  BY <1>3, <1>5, <1>6, RowType DEF setStatusByAmounts, Abs, BInv, IInv
-----------------------------------------------------------------------------
(***************************************************************************)
(* Rows                                                                    *)
(***************************************************************************)

LEMMA UpdateOrderSaved ==
  ASSUME TypeOK, NEW o \in Orders,
         NEW a \in Int, NEW p \in Int, NEW c \in Int, NEW x \in Int
  PROVE  Saved(o, UpdateOrder(o, a, p, c, x))
<1> DEFINE r == [available |-> order[o].available + a,
                 pending   |-> order[o].pending + p,
                 confirmed |-> order[o].confirmed + c,
                 canceled  |-> order[o].canceled + x,
                 status    |-> order[o].status]
<1>1. r \in Row
  BY RowType DEF Row
<1>2. UpdateOrder(o, a, p, c, x) = SaveOrder(o, r)
  BY DEF UpdateOrder
<1> HIDE DEF r
<1>3. setStatusByAmounts(o, SaveOrder(o, r)) = setStatusByAmounts(o, r)
  BY <1>1, SaveOrderType DEF setStatusByAmounts
<1> QED
  BY <1>1, <1>2, <1>3, SaveOrderType DEF Saved

\* The row r of order o, compared with the present one: a, p, c and x are
\* what was added to the available, pending, confirmed and canceled amount.
Changed(o, r, a, p, c, x) ==
  /\ r.available = order[o].available + a
  /\ r.pending = order[o].pending + p
  /\ r.confirmed = order[o].confirmed + c
  /\ r.canceled = order[o].canceled + x
  /\ \/ r = order[o]
     \/ Saved(o, r) /\ r.status # "none"

LEMMA UpdateOrderChanged ==
  ASSUME TypeOK, NEW o \in Orders,
         NEW a \in Int, NEW p \in Int, NEW c \in Int, NEW x \in Int
  PROVE  Changed(o, UpdateOrder(o, a, p, c, x), a, p, c, x)
BY UpdateOrderType, UpdateOrderSaved DEF Changed

LEMMA SameRowChanged ==
  ASSUME TypeOK, NEW o \in Orders
  PROVE  Changed(o, order[o], 0, 0, 0, 0)
BY RowType DEF Changed

\* Taking no more than there is keeps the sign.
LEMMA StillSigned ==
  ASSUME NEW o \in Orders, NEW a \in Int, NEW s \in Int,
         Signed(o, a), Signed(o, s), Abs(a) >= Abs(s)
  PROVE  Signed(o, a + (-s)) /\ Signed(o, a - s)
BY OrderAmount DEF Signed, HasTheSameSign, Abs

\* A settlement takes the matched amount out of the pending one and gives
\* back what neither succeeded nor failed.
LEMMA SettledChanged ==
  ASSUME TypeOK, NEW o \in Orders, NEW m \in Int, NEW s \in Int, NEW f \in Int,
         s = 0 \/ f = 0, f = 0 \/ f = m
  PROVE  Changed(o, SettledRow(o, m, s, f), m - s - f, -m, s, f)
<1>1. CASE s # 0
  <2>1. Changed(o, UpdateOrder(o, m - s, -m, s, 0), m - s, -m, s, 0)
    BY UpdateOrderChanged
  <2>2. f = 0 /\ m - s - f = m - s
    BY <1>1
  <2> QED
    BY <1>1, <2>1, <2>2 DEF SettledRow
<1>2. CASE s = 0 /\ f # 0
  <2>1. Changed(o, UpdateOrder(o, 0, -f, 0, f), 0, -f, 0, f)
    BY UpdateOrderChanged
  <2>2. f = m /\ m - s - f = 0
    BY <1>2
  <2> QED
    BY <1>2, <2>1, <2>2 DEF SettledRow
<1>3. CASE s = 0 /\ f = 0
  <2>1. Changed(o, UpdateOrder(o, m, -m, 0, 0), m, -m, 0, 0)
    BY UpdateOrderChanged
  <2>2. m - s - f = m
    BY <1>3
  <2> QED
    BY <1>3, <2>1, <2>2 DEF SettledRow
<1> QED
  BY <1>1, <1>2, <1>3

\* A rollback changes the confirmed and canceled amounts as it changes the
\* records of the transaction, and keeps all signs.
LEMMA RolledBackChanged ==
  ASSUME TypeOK, NEW o \in Orders,
         NEW sb \in Int, NEW fb \in Int, NEW s \in Int, NEW f \in Int,
         sb = 0 \/ fb = 0,
         NEW R, R = RolledBack(o, sb, fb, s, f)
  PROVE  /\ R.succ \in Int /\ R.failed \in Int
         /\ R.succ = 0 \/ R.failed = 0
         /\ Changed(o, R.row, (sb + fb) - (R.succ + R.failed), 0,
                    R.succ - sb, R.failed - fb)
         /\ (/\ Signed(o, order[o].available) /\ Signed(o, sb) /\ Signed(o, fb)
             /\ Signed(o, s) /\ Signed(o, f))
            => /\ Signed(o, R.row.available) /\ Signed(o, R.succ)
               /\ Signed(o, R.failed)
<1>1. CASE R = [row |-> order[o], succ |-> sb, failed |-> fb]
  <2>1. /\ R.row = order[o] /\ R.succ = sb /\ R.failed = fb
        /\ (sb + fb) - (R.succ + R.failed) = 0
        /\ R.succ - sb = 0 /\ R.failed - fb = 0
    BY <1>1
  <2> QED
    BY <2>1, SameRowChanged
<1>2. CASE sb # 0 /\ fb = 0 /\ R = [row |-> UpdateOrder(o, 0, 0, -sb, sb), succ |-> 0, failed |-> sb]
  <2>1. /\ R.row = UpdateOrder(o, 0, 0, -sb, sb) /\ R.succ = 0 /\ R.failed = sb
        /\ (sb + fb) - (R.succ + R.failed) = 0
        /\ R.succ - sb = -sb /\ R.failed - fb = sb
    BY <1>2
  <2>2. Changed(o, R.row, 0, 0, -sb, sb)
    BY <2>1, UpdateOrderChanged
  <2> QED
    BY <1>2, <2>1, <2>2, RowType DEF Changed, Signed, HasTheSameSign
<1>3. CASE sb # 0 /\ fb = 0 /\ R = [row |-> UpdateOrder(o, sb, 0, -sb, 0), succ |-> 0, failed |-> 0]
  <2>1. /\ R.row = UpdateOrder(o, sb, 0, -sb, 0) /\ R.succ = 0 /\ R.failed = 0
        /\ (sb + fb) - (R.succ + R.failed) = sb
        /\ R.succ - sb = -sb /\ R.failed - fb = 0
    BY <1>3
  <2>2. Changed(o, R.row, sb, 0, -sb, 0)
    BY <2>1, UpdateOrderChanged
  <2> QED
    BY <1>3, <2>1, <2>2, RowType, OrderAmount DEF Changed, Signed, HasTheSameSign
<1>4. CASE sb = 0 /\ fb # 0 /\ R = [row |-> UpdateOrder(o, 0, 0, fb, -fb), succ |-> fb, failed |-> 0]
  <2>1. /\ R.row = UpdateOrder(o, 0, 0, fb, -fb) /\ R.succ = fb /\ R.failed = 0
        /\ (sb + fb) - (R.succ + R.failed) = 0
        /\ R.succ - sb = fb /\ R.failed - fb = -fb
    BY <1>4
  <2>2. Changed(o, R.row, 0, 0, fb, -fb)
    BY <2>1, UpdateOrderChanged
  <2> QED
    BY <1>4, <2>1, <2>2, RowType DEF Changed, Signed, HasTheSameSign
<1>5. CASE sb = 0 /\ fb # 0 /\ R = [row |-> UpdateOrder(o, fb, 0, 0, -fb), succ |-> 0, failed |-> 0]
  <2>1. /\ R.row = UpdateOrder(o, fb, 0, 0, -fb) /\ R.succ = 0 /\ R.failed = 0
        /\ (sb + fb) - (R.succ + R.failed) = fb
        /\ R.succ - sb = 0 /\ R.failed - fb = -fb
    BY <1>5
  <2>2. Changed(o, R.row, fb, 0, 0, -fb)
    BY <2>1, UpdateOrderChanged
  <2> QED
    BY SMTT(30), <1>5, <2>1, <2>2, RowType, OrderAmount DEF Changed, Signed, HasTheSameSign
<1>6. CASE /\ sb = 0 /\ fb = 0 /\ Abs(order[o].available) >= Abs(s)
           /\ R = [row |-> UpdateOrder(o, -s, 0, s, 0), succ |-> s, failed |-> 0]
  <2>1. /\ R.row = UpdateOrder(o, -s, 0, s, 0) /\ R.succ = s /\ R.failed = 0
        /\ (sb + fb) - (R.succ + R.failed) = -s
        /\ R.succ - sb = s /\ R.failed - fb = 0
    BY <1>6
  <2>2. Changed(o, R.row, -s, 0, s, 0)
    BY <2>1, UpdateOrderChanged
  <2>3. Signed(o, 0)
    BY DEF Signed, HasTheSameSign
  <2> QED
    BY <1>6, <2>1, <2>2, <2>3, RowType, StillSigned DEF Changed
<1>7. CASE /\ sb = 0 /\ fb = 0 /\ Abs(order[o].available) >= Abs(f)
           /\ R = [row |-> UpdateOrder(o, -f, 0, 0, f), succ |-> 0, failed |-> f]
  <2>1. /\ R.row = UpdateOrder(o, -f, 0, 0, f) /\ R.succ = 0 /\ R.failed = f
        /\ (sb + fb) - (R.succ + R.failed) = -f
        /\ R.succ - sb = 0 /\ R.failed - fb = f
    BY <1>7
  <2>2. Changed(o, R.row, -f, 0, 0, f)
    BY <2>1, UpdateOrderChanged
  <2>3. Signed(o, 0)
    BY DEF Signed, HasTheSameSign
  <2> QED
    BY <1>7, <2>1, <2>2, <2>3, RowType, StillSigned DEF Changed
<1> QED
  BY <1>1, <1>2, <1>3, <1>4, <1>5, <1>6, <1>7, RolledBackCases
-----------------------------------------------------------------------------
(***************************************************************************)
(* Steps                                                                   *)
(***************************************************************************)

\* The table new follows a change of match transaction t to tx.
Follows(new, t, tx) ==
  \A o \in Orders :
    /\ new[o].pending = order[o].pending + (Carries(tx, o) - Carries(matchTx[t], o))
    /\ new[o].confirmed = order[o].confirmed + (tx.succ[o] - matchTx[t].succ[o])
    /\ \/ new[o] = order[o]
       \/ Saved(o, new[o]) /\ new[o].status # "none"

\* In the table new, available amounts have their sign; so has what was
\* canceled for other reasons than the new failures of tx.
NewSigned(new, t, tx) ==
  \A o \in Orders :
    /\ Signed(o, new[o].available)
    /\ Signed(o, (new[o].canceled - order[o].canceled)
                   - (tx.failed[o] - matchTx[t].failed[o]))

LEMMA SumSigned ==
  ASSUME NEW o \in Orders, NEW x \in Int, NEW y \in Int, Signed(o, x), Signed(o, y)
  PROVE  Signed(o, x + y)
BY OrderAmount DEF Signed, HasTheSameSign

\* A step that changes one match transaction and lets the table follow
LEMMA TxStep ==
  ASSUME BInv, IInv', NEW t \in Txs, NEW tx \in MatchTransaction,
         matchTx' = [matchTx EXCEPT ![t] = tx], RecordOK(tx),
         Follows(order', t, tx), faults' = faults, toCancel' = toCancel,
         faults = 0 => TxSigned(tx) /\ NewSigned(order', t, tx) /\ BookIsTable'
  PROVE  BInv'
<1>1. TypeOK /\ TypeOK'
  BY DEF BInv, IInv
<1>2. \A u \in Txs : matchTx'[u] = IF u = t THEN tx ELSE matchTx[u]
  BY <1>1 DEF TypeOK
<1>3. RowsSaved'
  BY DEF Follows, BInv, RowsSaved, Saved, Exists, setStatusByAmounts
<1>4. RecordsKept'
  BY <1>2 DEF BInv, RecordsKept
<1>5. SumsAgree'
  BY <1>1, SumsFollow DEF Follows, BInv, SumsAgree
<1>6. ASSUME faults = 0 PROVE AmountsSigned'
  <2>1. AmountsSigned /\ TxSigned(tx) /\ NewSigned(order', t, tx)
    BY <1>6 DEF BInv
  <2>2. \A u \in Txs : TxSigned(matchTx'[u])
    BY <1>2, <2>1 DEF AmountsSigned
  <2>3. ASSUME NEW o \in Orders
        PROVE  Signed(o, order'[o].canceled - FailedOnChain(o)')
    <3> DEFINE new == (order'[o].canceled - order[o].canceled)
                        - (tx.failed[o] - matchTx[t].failed[o])
               old == order[o].canceled - FailedOnChain(o)
    <3>1. FailedOnChain(o)' = FailedOnChain(o) + (tx.failed[o] - matchTx[t].failed[o])
      BY <1>1, SumsFollow
    <3>2. /\ order[o].canceled \in Int /\ order'[o].canceled \in Int
          /\ FailedOnChain(o) \in Int
          /\ tx.failed[o] \in Int /\ matchTx[t].failed[o] \in Int
      BY <1>1, SumsType DEF TypeOK, Row, MatchTransaction
    <3>3. Signed(o, new) /\ Signed(o, old)
      BY <2>1 DEF AmountsSigned, NewSigned
    <3>4. order'[o].canceled - FailedOnChain(o)' = old + new
      BY <3>1, <3>2
    <3>5. old \in Int /\ new \in Int
      BY <3>2
    <3> HIDE DEF old, new
    <3> QED
      BY <3>3, <3>4, <3>5, SumSigned
  <2> QED
    BY <2>1, <2>2, <2>3 DEF AmountsSigned, NewSigned
<1> QED
  BY <1>3, <1>4, <1>5, <1>6 DEF BInv

\* A step that leaves the match transactions alone
LEMMA RowStep ==
  ASSUME BInv, IInv', matchTx' = matchTx,
         \A o \in Orders :
           /\ order'[o].pending = order[o].pending
           /\ order'[o].confirmed = order[o].confirmed
           /\ \/ order'[o] = order[o]
              \/ Saved(o, order'[o]) /\ order'[o].status # "none",
         faults' = 0 =>
           /\ faults = 0 /\ BookIsTable'
           /\ \A c \in toCancel' : Signed(c.hash, c.amount)
           /\ \A o \in Orders : /\ Signed(o, order'[o].available)
                                /\ Signed(o, order'[o].canceled - order[o].canceled)
  PROVE  BInv'
<1>1. TypeOK /\ TypeOK'
  BY DEF BInv, IInv
<1>2. RowsSaved'
  BY DEF BInv, RowsSaved, Saved, Exists, setStatusByAmounts
<1>3. RecordsKept'
  BY DEF BInv, RecordsKept
<1>4. SumsAgree'
  BY SumsStay DEF BInv, SumsAgree
<1>5. ASSUME faults' = 0 PROVE AmountsSigned'
  <2>1. AmountsSigned
    BY <1>5 DEF BInv
  <2>2. ASSUME NEW o \in Orders
        PROVE  Signed(o, order'[o].canceled - FailedOnChain(o)')
    <3> DEFINE new == order'[o].canceled - order[o].canceled
               old == order[o].canceled - FailedOnChain(o)
    <3>1. /\ order[o].canceled \in Int /\ order'[o].canceled \in Int
          /\ FailedOnChain(o) \in Int
      BY <1>1, SumsType DEF TypeOK, Row
    <3>2. Signed(o, new) /\ Signed(o, old)
      BY <1>5, <2>1 DEF AmountsSigned
    <3>3. order'[o].canceled - FailedOnChain(o)' = old + new
      BY <3>1, SumsStay
    <3>4. old \in Int /\ new \in Int
      BY <3>1
    <3> HIDE DEF old, new
    <3> QED
      BY <3>2, <3>3, <3>4, SumSigned
  <2> QED
    BY <1>5, <2>1, <2>2 DEF AmountsSigned
<1> QED
  BY <1>2, <1>3, <1>4, <1>5 DEF BInv

\* A step that changes neither table nor book
LEMMA QuietStep ==
  ASSUME BInv, IInv', order' = order, matchTx' = matchTx, faults' = faults,
         faults = 0 => /\ BookIsTable'
                       /\ \A c \in toCancel' : Signed(c.hash, c.amount)
  PROVE  BInv'
<1>1. \A o \in Orders : Signed(o, order[o].canceled - order[o].canceled)
  BY RowType DEF BInv, IInv, Signed, HasTheSameSign
<1> QED
  BY <1>1, RowStep DEF BInv, AmountsSigned

\* A step in which a database transaction fails
LEMMA FaultStep ==
  ASSUME BInv, IInv', order' = order, matchTx' = matchTx, faults' = faults + 1
  PROVE  BInv'
<1>1. faults' # 0
  BY DEF BInv, IInv, TypeOK
<1> QED
  BY <1>1, RowStep
-----------------------------------------------------------------------------
(***************************************************************************)
(* Cancellation                                                            *)
(***************************************************************************)

\* Without failures, the book has an order exactly when something of it is
\* available.
LEMMA InBookOK ==
  ASSUME BInv, faults = 0, NEW o \in Orders
  PROVE  /\ book[o] = order[o].available
         /\ Signed(o, order[o].available)
         /\ InBook(o) <=> order[o].available # 0
<1>1. book[o] = order[o].available /\ Signed(o, order[o].available)
  BY DEF BInv, AmountsSigned, BookIsTable
<1> QED
  BY <1>1 DEF InBook, Signed

\* Then book and row lose the same amount, which is part of what they hold,
\* and all of it when all is asked for.
LEMMA CancelAmount ==
  ASSUME BInv, faults = 0, NEW o \in Orders, NEW all \in BOOLEAN, NEW amt \in Int,
         Signed(o, amt), order[o].available # 0
  PROVE  /\ cancelDBAmount(o, all, amt) = cancelBookAmount(o, all, amt)
         /\ cancelDBAmount(o, all, amt) \in Int
         /\ Signed(o, cancelDBAmount(o, all, amt))
         /\ Abs(order[o].available) >= Abs(cancelDBAmount(o, all, amt))
         /\ ~CancelRefused(o, cancelDBAmount(o, all, amt))
         /\ all => cancelDBAmount(o, all, amt) = order[o].available
<1>1. /\ book[o] = order[o].available /\ Signed(o, order[o].available)
      /\ InBook(o) /\ order[o].available \in Int
  BY InBookOK, RowType DEF BInv, IInv
<1>2. /\ cancelDBAmount(o, all, amt) = cancelBookAmount(o, all, amt)
      /\ cancelDBAmount(o, all, amt) \in Int
      /\ Signed(o, cancelDBAmount(o, all, amt))
      /\ Abs(order[o].available) >= Abs(cancelDBAmount(o, all, amt))
      /\ all => cancelDBAmount(o, all, amt) = order[o].available
  BY <1>1 DEF cancelDBAmount, cancelBookAmount, Abs
<1> QED
  BY <1>1, <1>2 DEF CancelRefused, Signed, Abs

\* What a cancellation does to the rows and the book
LEMMA CancelEffect ==
  ASSUME BInv, NEW o \in Orders, NEW all \in BOOLEAN, NEW amt \in Int,
         faults = 0 => Signed(o, amt), cancelOrderWithoutLock(o, all, amt)
  PROVE  /\ \A p \in Orders :
              /\ order'[p].pending = order[p].pending
              /\ order'[p].confirmed = order[p].confirmed
              /\ \/ order'[p] = order[p]
                 \/ Saved(p, order'[p]) /\ order'[p].status # "none"
         /\ faults' = 0 =>
              /\ faults = 0 /\ BookIsTable'
              /\ \A p \in Orders : /\ Signed(p, order'[p].available)
                                   /\ Signed(p, order'[p].canceled - order[p].canceled)
         /\ faults' = 0 /\ all => order'[o].available = 0
         /\ \A p \in Orders : p # o => order'[p] = order[p]
         /\ faults' = 0 /\ order[o].available = 0 => order' = order
<1> DEFINE db == cancelDBAmount(o, all, amt)
           bk == cancelBookAmount(o, all, amt)
<1>1. TypeOK /\ faults \in Nat
  BY DEF BInv, IInv, TypeOK
<1>2. \A p \in Orders : /\ order[p].available \in Int /\ book[p] \in Int
                        /\ Signed(p, order[p].canceled - order[p].canceled)
  BY <1>1, RowType DEF Signed, HasTheSameSign
<1>3. db \in Int /\ bk \in Int
  BY <1>2 DEF cancelDBAmount, cancelBookAmount
<1>4. faults = 0 => \A p \in Orders : /\ book[p] = order[p].available
                                      /\ Signed(p, order[p].available)
                                      /\ InBook(p) <=> order[p].available # 0
  BY InBookOK
<1>5. faults = 0 /\ order[o].available # 0 =>
        /\ db = bk /\ Signed(o, db) /\ Abs(order[o].available) >= Abs(db)
        /\ ~CancelRefused(o, db)
        /\ all => db = order[o].available
  BY CancelAmount
<1> HIDE DEF db, bk
<1>6. CASE CancelNothing(o, all, amt)
  <2>1. order' = order /\ book' = book /\ faults' = faults
    BY <1>6 DEF CancelNothing
  <2>2. ASSUME faults = 0, all, order[o].available # 0 PROVE FALSE
    <3>1. Exists(o)
      BY <2>2 DEF BInv, RowsSaved, NoRow
    <3>2. ChangeRefused(book[o], -bk) /\ bk = book[o]
      BY <1>4, <1>5, <1>6, <2>2, <3>1 DEF CancelNothing, bk
    <3> QED
      BY <1>2, <3>2 DEF ChangeRefused
  <2> QED
    BY <1>2, <1>4, <2>1, <2>2 DEF BookIsTable
<1>7. CASE CancelDone(o, all, amt)
  <2>1. /\ Exists(o) /\ (InBook(o) \/ order[o].available # 0)
        /\ book' = [book EXCEPT ![o] = @ - bk]
        /\ order' = IF db = 0 THEN order ELSE [order EXCEPT ![o] = CanceledRow(o, db)]
        /\ faults' = faults
    BY <1>7 DEF CancelDone, db, bk
  <2>2. Changed(o, CanceledRow(o, db), -db, 0, 0, db)
    <3>1. 0 \in Int /\ -db \in Int
      BY <1>3
    <3> QED
      BY <1>1, <1>3, <3>1, UpdateOrderChanged, Zenon DEF CanceledRow
  <2>3. Changed(o, order[o], 0, 0, 0, 0)
    BY <1>1, SameRowChanged
  <2>4. Changed(o, order'[o], -db, 0, 0, db)
    BY <1>1, <1>3, <2>1, <2>2, <2>3 DEF TypeOK, Changed
  <2>5. \A p \in Orders : p # o => order'[p] = order[p] /\ book'[p] = book[p]
    BY <1>1, <2>1 DEF TypeOK
  <2>6. book'[o] = book[o] - bk
    BY <1>1, <2>1 DEF TypeOK
  <2>7. ASSUME faults = 0
        PROVE  /\ book'[o] = order'[o].available
               /\ Signed(o, order'[o].available)
               /\ Signed(o, order'[o].canceled - order[o].canceled)
               /\ order[o].available # 0
               /\ all => order'[o].available = 0
    <3>1. order[o].available # 0
      BY <1>4, <2>1, <2>7
    <3>2. order'[o].available = order[o].available - db
      BY <1>2, <1>3, <2>4 DEF Changed
    <3>3. order'[o].canceled - order[o].canceled = db
      BY <1>1, <1>3, <2>4, RowType DEF Changed
    <3>4. Signed(o, order[o].available - db)
      BY <1>2, <1>3, <1>4, <1>5, <2>7, <3>1, StillSigned
    <3> QED
      BY <1>2, <1>3, <1>4, <1>5, <2>6, <2>7, <3>1, <3>2, <3>3, <3>4
  <2>8. /\ order'[o].pending = order[o].pending
        /\ order'[o].confirmed = order[o].confirmed
        /\ \/ order'[o] = order[o]
           \/ Saved(o, order'[o]) /\ order'[o].status # "none"
    BY <1>1, <2>4, RowType DEF Changed
  <2> QED
    BY <1>2, <1>4, <2>1, <2>5, <2>7, <2>8 DEF BookIsTable
<1>8. CASE CancelAborted(o, all, amt)
  <2>1. /\ order' = order
        /\ InBook(o) \/ order[o].available # 0
        /\ CancelRefused(o, db) \/ faults' = faults + 1
        /\ faults' \in {faults, faults + 1}
    BY <1>8 DEF CancelAborted, db
  <2>2. faults' # 0
    BY <1>1, <1>4, <1>5, <2>1
  <2> QED
    BY <2>1, <2>2
<1> QED
  BY <1>6, <1>7, <1>8 DEF cancelOrderWithoutLock

LEMMA CancelOrderBOK ==
  ASSUME BInv, IInv', NEW o \in Orders, CancelOrder(o)
  PROVE  BInv'
<1>1. cancelOrderWithoutLock(o, TRUE, 0) /\ UNCHANGED <<expiring, toCancel, matchTx>>
  BY DEF CancelOrder
<1>2. 0 \in Int /\ TRUE \in BOOLEAN /\ Signed(o, 0)
  BY DEF Signed, HasTheSameSign
<1> QED
  BY <1>1, <1>2, CancelEffect, RowStep DEF BInv, AmountsSigned

LEMMA onOrderExpiredBOK ==
  ASSUME BInv, IInv', NEW o \in Orders, onOrderExpired(o)
  PROVE  BInv'
<1>1. cancelOrderWithoutLock(o, TRUE, 0) /\ UNCHANGED <<toCancel, matchTx>>
  BY DEF onOrderExpired
<1>2. 0 \in Int /\ TRUE \in BOOLEAN /\ Signed(o, 0)
  BY DEF Signed, HasTheSameSign
<1> QED
  BY <1>1, <1>2, CancelEffect, RowStep DEF BInv, AmountsSigned

LEMMA checkPerpUserOrdersBOK ==
  ASSUME BInv, IInv', NEW c \in toCancel, checkPerpUserOrders(c)
  PROVE  BInv'
<1>1. /\ cancelOrderWithoutLock(c.hash, FALSE, c.amount)
      /\ toCancel' = toCancel \ {c} /\ matchTx' = matchTx
  BY DEF checkPerpUserOrders
<1>2. c.hash \in Orders /\ c.amount \in Int
  BY DEF BInv, IInv, TypeOK, OrderCancel
<1>3. faults = 0 => \A d \in toCancel : Signed(d.hash, d.amount)
  BY DEF BInv, AmountsSigned
<1>4. FALSE \in BOOLEAN
  OBVIOUS
<1> QED
  BY <1>1, <1>2, <1>3, <1>4, CancelEffect, RowStep
-----------------------------------------------------------------------------
(***************************************************************************)
(* New orders, timers, the monitor and restarts                            *)
(***************************************************************************)

LEMMA NewOrderBOK ==
  ASSUME BInv, IInv', NEW o \in Orders, NewOrder(o)
  PROVE  BInv'
<1> DEFINE r == [NoRow EXCEPT !.available = Amount[o]]
<1>1. TypeOK /\ Amount[o] \in Int
  BY OrderAmount DEF BInv, IInv
<1>2. /\ order[o] = NoRow /\ order' = [order EXCEPT ![o] = NewRow(o)]
      /\ book' = [book EXCEPT ![o] = Amount[o]]
      /\ UNCHANGED <<toCancel, matchTx, faults>>
  BY DEF NewOrder, BInv, RowsSaved
<1>3. /\ r \in Row /\ r.available = Amount[o] /\ r.pending = 0
      /\ r.confirmed = 0 /\ r.canceled = 0
  BY <1>1 DEF Row, NoRow, OrderStatus
<1>4. NewRow(o) = SaveOrder(o, r)
  BY DEF NewRow
<1> HIDE DEF r
<1>5. /\ NewRow(o).available = Amount[o] /\ NewRow(o).pending = 0
      /\ NewRow(o).confirmed = 0 /\ NewRow(o).canceled = 0
      /\ NewRow(o).status # "none" /\ Saved(o, NewRow(o))
  BY <1>3, <1>4, SaveOrderType DEF Saved, setStatusByAmounts
<1>6. order'[o] = NewRow(o) /\ \A p \in Orders : p # o => order'[p] = order[p]
  BY <1>1, <1>2 DEF TypeOK
<1>7. /\ order[o].pending = 0 /\ order[o].confirmed = 0 /\ order[o].canceled = 0
  BY <1>2 DEF NoRow
<1>8. ASSUME faults = 0
      PROVE  /\ BookIsTable'
             /\ \A p \in Orders : /\ Signed(p, order'[p].available)
                                  /\ Signed(p, order'[p].canceled - order[p].canceled)
  <2>1. \A p \in Orders : /\ book[p] = order[p].available
                          /\ Signed(p, order[p].available)
                          /\ Signed(p, order[p].canceled - order[p].canceled)
    BY <1>1, <1>8, InBookOK, RowType DEF Signed, HasTheSameSign
  <2>2. Signed(o, Amount[o]) /\ Signed(o, 0 - 0)
    BY <1>1 DEF Signed, HasTheSameSign
  <2>3. book'[o] = Amount[o] /\ \A p \in Orders : p # o => book'[p] = book[p]
    BY <1>1, <1>2 DEF TypeOK
  <2> QED
    BY <1>5, <1>6, <1>7, <2>1, <2>2, <2>3 DEF BookIsTable
<1> QED
  BY <1>2, <1>5, <1>6, <1>7, <1>8, RowStep DEF BInv, AmountsSigned

LEMMA NewOrderFailsBOK ==
  ASSUME BInv, IInv', NEW o \in Orders, NewOrderFails(o)
  PROVE  BInv'
BY FaultStep DEF NewOrderFails

LEMMA TimerFiresBOK ==
  ASSUME BInv, IInv', NEW o \in Orders, TimerFires(o)
  PROVE  BInv'
BY QuietStep DEF TimerFires, BInv, BookIsTable, AmountsSigned

\* A part of an amount has its sign and is not larger.
LEMMA UpToSigned ==
  ASSUME NEW o \in Orders, NEW y \in Int, NEW x \in UpTo(y), Signed(o, y)
  PROVE  x \in Int /\ Signed(o, x) /\ Abs(y) >= Abs(x)
BY OrderAmount DEF UpTo, Signed, HasTheSameSign, Abs

LEMMA checkUserPendingOrdersBOK ==
  ASSUME BInv, IInv', NEW u, checkUserPendingOrders(u)
  PROVE  BInv'
<1>1. UNCHANGED <<order, book, matchTx, faults>>
  BY DEF checkUserPendingOrders
<1>2. ASSUME faults = 0, NEW c \in toCancel' PROVE Signed(c.hash, c.amount)
  <2>1. PICK S \in SUBSET PendingOrdersOf(u) :
          \E amt \in [S -> Lots] :
            /\ \A o \in S : amt[o] \in ToCancel(o)
            /\ toCancel' = {[hash |-> o, amount |-> amt[o]] : o \in S}
    BY DEF checkUserPendingOrders
  <2> PICK amt \in [S -> Lots] :
         /\ \A o \in S : amt[o] \in ToCancel(o)
         /\ toCancel' = {[hash |-> o, amount |-> amt[o]] : o \in S}
    BY <2>1
  <2>2. PICK o \in S : c = [hash |-> o, amount |-> amt[o]]
    OBVIOUS
  <2>3. o \in Orders /\ amt[o] \in ToCancel(o)
    BY DEF PendingOrdersOf, PendingOrders
  <2>4. order[o].available \in Int /\ Signed(o, order[o].available)
    BY <1>2, <2>3, InBookOK, RowType DEF BInv, IInv
  <2>5. amt[o] = order[o].available \/ amt[o] \in UpTo(order[o].available)
    BY <2>3 DEF ToCancel
  <2>6. Signed(o, amt[o])
    BY <2>3, <2>4, <2>5, UpToSigned
  <2> QED
    BY <2>2, <2>6
<1> QED
  BY <1>1, <1>2, QuietStep DEF BInv, BookIsTable

\* Without failures the book that is reloaded is the one that was there.
LEMMA ReloadSame ==
  ASSUME BInv, faults = 0, reloadActiveOrders
  PROVE  book' = book
<1>1. ASSUME NEW o \in Orders PROVE book'[o] = book[o]
  <2>1. book[o] = order[o].available
    BY InBookOK
  <2>2. order[o].available # 0 => o \in PendingOrders
    <3>1. order[o].available # 0 => Exists(o)
      BY DEF BInv, RowsSaved, NoRow
    <3> QED
      BY <3>1, StatusOK DEF StatusTellsAmounts, PendingOrders
  <2> QED
    BY <2>1, <2>2 DEF reloadActiveOrders
<1>2. book \in [Orders -> Int]
  BY DEF BInv, IInv, TypeOK
<1>3. DOMAIN book' = Orders
  BY DEF reloadActiveOrders
<1>4. book' = [o \in Orders |-> book'[o]] /\ book = [o \in Orders |-> book[o]]
  BY <1>2, <1>3 DEF reloadActiveOrders
<1> QED
  BY <1>1, <1>4

LEMMA reloadActiveOrdersBOK ==
  ASSUME BInv, IInv', reloadActiveOrders
  PROVE  BInv'
<1>1. UNCHANGED <<order, matchTx, faults>> /\ toCancel' = {}
  BY DEF reloadActiveOrders
<1>2. faults = 0 => BookIsTable'
  BY <1>1, ReloadSame DEF BInv, BookIsTable
<1> QED
  BY <1>1, <1>2, QuietStep

-----------------------------------------------------------------------------
(***************************************************************************)
(* Matching                                                                *)
(***************************************************************************)

LEMMA CarriesUnchanged ==
  ASSUME TypeOK, NEW t \in Txs, NEW o \in Orders
  PROVE  Carries(matchTx[t], o) \in Int
BY TxType DEF Carries

LEMMA createLaunchTransactionBOK ==
  ASSUME BInv, IInv', NEW t \in Txs, createLaunchTransaction(t)
  PROVE  BInv'
<1> DEFINE old == matchTx[t]
           tx == [old EXCEPT !.status = "PENDING"]
<1>1. TypeOK /\ old \in MatchTransaction /\ RecordOK(old) /\ old.status = "INIT"
  BY DEF BInv, IInv, TypeOK, RecordsKept, createLaunchTransaction
<1>2. /\ tx \in MatchTransaction /\ tx.status = "PENDING"
      /\ tx.blockConfirmed = old.blockConfirmed /\ tx.items = old.items
      /\ tx.succ = old.succ /\ tx.failed = old.failed
  BY <1>1 DEF MatchTransaction, TransactionStatus
<1>3. /\ matchTx' = [matchTx EXCEPT ![t] = tx]
      /\ UNCHANGED <<order, book, toCancel, faults>>
  BY <1>1 DEF createLaunchTransaction, TypeOK
<1> HIDE DEF tx
<1>4. RecordOK(tx)
  BY <1>1, <1>2 DEF RecordOK
<1>5. Follows(order', t, tx)
  <2>1. \A o \in Orders : /\ Carries(tx, o) = Carries(old, o)
                          /\ Carries(old, o) \in Int
                          /\ old.succ[o] \in Int
    BY <1>1, <1>2, CarriesUnchanged, TxType DEF Carries
  <2> QED
    BY <1>1, <1>2, <1>3, <2>1, RowType DEF Follows
<1>6. ASSUME faults = 0 PROVE TxSigned(tx) /\ NewSigned(order', t, tx) /\ BookIsTable'
  <2>1. AmountsSigned /\ BookIsTable
    BY <1>6 DEF BInv
  <2>2. TxSigned(tx)
    BY <1>2, <2>1 DEF AmountsSigned, TxSigned
  <2>3. \A o \in Orders : (order[o].canceled - order[o].canceled)
                             - (tx.failed[o] - old.failed[o]) = 0
    BY <1>1, <1>2, RowType, TxType
  <2>4. NewSigned(order', t, tx)
    BY <1>3, <2>1, <2>3 DEF NewSigned, AmountsSigned, Signed, HasTheSameSign
  <2> QED
    BY <1>3, <2>1, <2>2, <2>4 DEF BookIsTable
<1> QED
  BY <1>2, <1>3, <1>4, <1>5, <1>6, TxStep
\* What a match takes from an order of the book
LEMMA MatchedChanged ==
  ASSUME TypeOK, NEW o \in Orders, NEW m \in Int,
         NEW c, c = OrderTotalCancel(o, m)
  PROVE  c \in Int /\ Changed(o, MatchedRow(o, m), -(m + c), m, 0, c)
<1>1. c \in Int
  BY RowType DEF OrderTotalCancel
<1>2. 0 \in Int /\ -(m + c) \in Int
  BY <1>1
<1> QED
  BY <1>1, <1>2, UpdateOrderChanged, Zenon DEF MatchedRow

LEMMA MatchedSigned ==
  ASSUME BInv, faults = 0, NEW o \in Orders, NEW m \in UpTo(book[o]),
         NEW c, c = OrderTotalCancel(o, m)
  PROVE  /\ m \in Int /\ Signed(o, m) /\ c \in Int /\ Signed(o, c)
         /\ Signed(o, order[o].available - m - c)
<1>1. /\ book[o] = order[o].available /\ Signed(o, book[o]) /\ book[o] \in Int
  BY InBookOK, RowType DEF BInv, IInv
<1>2. m \in Int /\ Signed(o, m) /\ Signed(o, book[o] - m)
  BY <1>1, UpToSigned, StillSigned
<1>3. c = 0 \/ c = book[o] - m
  BY DEF OrderTotalCancel
<1>4. c \in Int /\ Signed(o, c)
  BY <1>1, <1>2, <1>3 DEF Signed, HasTheSameSign
<1>5. book[o] - m - c = 0 \/ book[o] - m - c = book[o] - m
  BY <1>1, <1>2, <1>3
<1> QED
  BY <1>1, <1>2, <1>4, <1>5 DEF Signed, HasTheSameSign

LEMMA matchOrdersBOK ==
  ASSUME BInv, IInv', NEW t \in Txs, matchOrders(t)
  PROVE  BInv'
<1>1. PICK m \in MatchItems :
        /\ order' = [o \in Orders |-> IF m[o] = 0 THEN order[o]
                                      ELSE MatchedRow(o, m[o])]
        /\ matchTx' = [matchTx EXCEPT ![t] = NewTx(m)]
        /\ book' = BookAfterMatch(m)
  BY DEF matchOrders
<1> DEFINE c == [o \in Orders |-> OrderTotalCancel(o, m[o])]
           tx == NewTx(m)
<1>2. TypeOK /\ matchTx[t] = NoTx /\ UNCHANGED <<toCancel, faults>>
  BY DEF BInv, IInv, matchOrders
<1>3. m \in [Orders -> Int] /\ \A o \in Orders : m[o] \in UpTo(book[o])
  BY MatchItemsType DEF MatchItems
<1>4. /\ tx \in MatchTransaction /\ tx.status = "INIT" /\ tx.blockConfirmed = FALSE
      /\ tx.items = m /\ tx.succ = Nothing /\ tx.failed = Nothing
  BY <1>3, NothingType DEF NewTx, MatchTransaction, TransactionStatus
<1>5. \A o \in Orders : c[o] \in Int /\ Changed(o, order'[o], -(m[o] + c[o]), m[o], 0, c[o])
  <2> SUFFICES ASSUME NEW o \in Orders
               PROVE  c[o] \in Int /\ Changed(o, order'[o], -(m[o] + c[o]), m[o], 0, c[o])
    OBVIOUS
  <2>1. m[o] \in Int /\ c[o] = OrderTotalCancel(o, m[o])
    BY <1>3
  <2>2. CASE m[o] # 0
    BY <1>1, <1>2, <2>1, <2>2, MatchedChanged
  <2>3. CASE m[o] = 0
    <3>1. c[o] = 0
      BY <2>1, <2>3 DEF OrderTotalCancel
    <3>2. -(m[o] + c[o]) = 0
      BY <2>3, <3>1
    <3> QED
      BY <1>1, <1>2, <2>3, <3>1, <3>2, SameRowChanged
  <2> QED
    BY <2>2, <2>3
<1>6. \A o \in Orders : /\ Carries(NoTx, o) = 0 /\ NoTx.succ[o] = 0 /\ NoTx.failed[o] = 0
                        /\ Carries(tx, o) = m[o] /\ tx.succ[o] = 0 /\ tx.failed[o] = 0
  BY <1>4 DEF NoTx, Nothing, Carries
<1>7. \A o \in Orders : book'[o] = book[o] - m[o] - c[o]
  BY <1>1 DEF BookAfterMatch
<1>8. faults = 0 => \A o \in Orders : /\ Signed(o, m[o]) /\ Signed(o, c[o])
                                      /\ Signed(o, order[o].available - m[o] - c[o])
                                      /\ book[o] = order[o].available
  BY <1>3, MatchedSigned, InBookOK
<1> HIDE DEF c, tx
<1>9. RecordOK(tx)
  BY <1>4 DEF RecordOK, Nothing
<1>10. Follows(order', t, tx)
  BY <1>2, <1>3, <1>5, <1>6 DEF Follows, Changed
<1>11. ASSUME faults = 0 PROVE TxSigned(tx) /\ NewSigned(order', t, tx) /\ BookIsTable'
  <2>1. TxSigned(tx)
    BY <1>4, <1>6, <1>8, <1>11 DEF TxSigned, Signed, HasTheSameSign
  <2>2. \A o \in Orders : /\ order'[o].available = order[o].available - m[o] - c[o]
                          /\ (order'[o].canceled - order[o].canceled)
                               - (tx.failed[o] - matchTx[t].failed[o]) = c[o]
    BY <1>2, <1>3, <1>5, <1>6, RowType DEF Changed
  <2>3. NewSigned(order', t, tx)
    BY <1>8, <1>11, <2>2 DEF NewSigned
  <2>4. BookIsTable'
    BY <1>7, <1>8, <1>11, <2>2 DEF BookIsTable
  <2> QED
    BY <2>1, <2>3, <2>4
<1>12. matchTx' = [matchTx EXCEPT ![t] = tx]
  BY <1>1 DEF tx
<1> QED
  BY <1>2, <1>4, <1>9, <1>10, <1>11, <1>12, TxStep

LEMMA matchOrdersFailsBOK ==
  ASSUME BInv, IInv', matchOrdersFails
  PROVE  BInv'
BY FaultStep DEF matchOrdersFails

-----------------------------------------------------------------------------
(***************************************************************************)
(* Results from the chain                                                  *)
(***************************************************************************)

\* Without failures the book accepts every table whose available amounts
\* have their sign, and follows it.
LEMMA BookAccepts ==
  ASSUME BInv, faults = 0, NEW new \in [Orders -> Row],
         \A o \in Orders : Signed(o, new[o].available)
  PROVE  /\ Refused(new) = {}
         /\ \A o \in Orders :
              rollbackOrderbook(o, order[o].available, new[o].available)
                = new[o].available
<1> SUFFICES ASSUME NEW o \in Orders
             PROVE  /\ ~RollbackRefused(o, order[o].available, new[o].available)
                    /\ rollbackOrderbook(o, order[o].available, new[o].available)
                         = new[o].available
  BY DEF Refused
<1>1. /\ book[o] = order[o].available /\ Signed(o, order[o].available)
      /\ InBook(o) <=> order[o].available # 0
      /\ order[o].available \in Int /\ new[o].available \in Int
  BY InBookOK, RowType DEF BInv, IInv, Row
<1>2. ~ChangeRefused(book[o], new[o].available - order[o].available)
      \/ order[o].available = 0
  BY <1>1, OrderAmount DEF ChangeRefused, Signed, HasTheSameSign
<1> QED
  BY <1>1, <1>2 DEF RollbackRefused, rollbackOrderbook

LEMMA AbortRowsBOK ==
  ASSUME BInv, IInv', NEW new \in [Orders -> Row], AbortRows(new),
         faults = 0 => \A o \in Orders : Signed(o, new[o].available)
  PROVE  BInv'
<1>1. /\ order' = order /\ matchTx' = matchTx
      /\ (Refused(new) # {} /\ faults' = faults) \/ faults' = faults + 1
  BY DEF AbortRows
<1>2. CASE faults' = faults + 1
  BY <1>1, <1>2, FaultStep
<1>3. CASE Refused(new) # {} /\ faults' = faults
  <2>1. faults' # 0
    BY <1>3, BookAccepts
  <2> QED
    BY <1>1, <2>1, RowStep
<1> QED
  BY <1>1, <1>2, <1>3
\* What the chain can report of transaction t: parts of the items succeeded,
\* others failed as a whole.
Report(t, succ, failed) ==
  /\ succ \in [Orders -> Int] /\ failed \in [Orders -> Int]
  /\ \A o \in Orders : /\ succ[o] \in UpTo(matchTx[t].items[o])
                       /\ failed[o] = 0 \/ failed[o] = matchTx[t].items[o]
                       /\ succ[o] = 0 \/ failed[o] = 0

LEMMA EventsReport ==
  ASSUME IInv, NEW t \in Txs, NEW s \in Fills(t), NEW F
  PROVE  Report(t, SuccessEvents(s, F), FailedEvents(t, F))
<1>1. \A o \in Orders : s[o] \in UpTo(matchTx[t].items[o]) /\ matchTx[t].items[o] \in Int
  BY TxType DEF Fills, IInv
<1>2. \A o \in Orders : 0 \in UpTo(matchTx[t].items[o])
  BY <1>1 DEF UpTo
<1> QED
  BY <1>1, <1>2, EventsType DEF Report, SuccessEvents, FailedEvents

LEMMA NothingReport ==
  ASSUME IInv, NEW t \in Txs
  PROVE  Report(t, Nothing, Nothing)
<1>1. \A o \in Orders : matchTx[t].items[o] \in Int
  BY TxType DEF IInv
<1>2. \A o \in Orders : 0 \in UpTo(matchTx[t].items[o])
  BY <1>1 DEF UpTo
<1> QED
  BY <1>2, NothingType DEF Report, Nothing

LEMMA ReportSigned ==
  ASSUME BInv, faults = 0, NEW t \in Txs, NEW succ, NEW failed,
         Report(t, succ, failed), NEW o \in Orders
  PROVE  /\ Signed(o, matchTx[t].items[o]) /\ Signed(o, succ[o]) /\ Signed(o, failed[o])
         /\ Signed(o, matchTx[t].items[o] - succ[o] - failed[o])
<1>1. Signed(o, matchTx[t].items[o]) /\ matchTx[t].items[o] \in Int
  BY TxType DEF BInv, IInv, AmountsSigned, TxSigned
<1>2. /\ Signed(o, succ[o]) /\ Abs(matchTx[t].items[o]) >= Abs(succ[o])
      /\ succ[o] \in Int
  BY <1>1, UpToSigned DEF Report
<1>3. Signed(o, matchTx[t].items[o] - succ[o])
  BY <1>1, <1>2, StillSigned
<1>4. Signed(o, failed[o]) /\ (failed[o] = 0 \/ (succ[o] = 0 /\ failed[o] = matchTx[t].items[o]))
  BY <1>1 DEF Report, Signed, HasTheSameSign
<1>5. \/ matchTx[t].items[o] - succ[o] - failed[o] = matchTx[t].items[o] - succ[o]
      \/ matchTx[t].items[o] - succ[o] - failed[o] = 0
  BY <1>1, <1>2, <1>4
<1> QED
  BY <1>1, <1>2, <1>3, <1>4, <1>5 DEF Signed, HasTheSameSign

\* The rows after a settlement of t
SettledRows(t, succ, failed) ==
  [o \in Orders |-> IF o \notin Items(t) THEN order[o]
                    ELSE SettledRow(o, matchTx[t].items[o], succ[o], failed[o])]

LEMMA SettledRowsChanged ==
  ASSUME TypeOK, NEW t \in Txs, NEW succ, NEW failed, Report(t, succ, failed),
         NEW new, new = SettledRows(t, succ, failed)
  PROVE  /\ new \in [Orders -> Row]
         /\ \A o \in Orders :
              LET m == matchTx[t].items[o]
              IN Changed(o, new[o], m - succ[o] - failed[o], -m, succ[o], failed[o])
<1>1. ASSUME NEW o \in Orders
      PROVE  LET m == matchTx[t].items[o]
             IN /\ new[o] \in Row
                /\ Changed(o, new[o], m - succ[o] - failed[o], -m, succ[o], failed[o])
  <2> DEFINE m == matchTx[t].items[o]
  <2>1. m \in Int /\ succ[o] \in Int /\ failed[o] \in Int
    BY TxType DEF Report
  <2>2. CASE o \in Items(t)
    <3>1. new[o] = SettledRow(o, m, succ[o], failed[o])
      BY <2>2 DEF SettledRows
    <3>2. (succ[o] = 0 \/ failed[o] = 0) /\ (failed[o] = 0 \/ failed[o] = m)
      BY DEF Report
    <3> HIDE DEF m
    <3>3. Changed(o, new[o], m - succ[o] - failed[o], -m, succ[o], failed[o])
      BY <2>1, <3>1, <3>2, SettledChanged
    <3>4. new[o] \in Row
      BY <2>1, <3>1, SettledRowOK DEF Redistributed
    <3> QED
      BY <3>3, <3>4 DEF m
  <2>3. CASE o \notin Items(t)
    <3>1. new[o] = order[o] /\ m = 0
      BY <2>3 DEF SettledRows, Items
    <3>2. succ[o] = 0 /\ failed[o] = 0
      BY <3>1 DEF Report, UpTo
    <3> HIDE DEF m
    <3>3. m - succ[o] - failed[o] = 0
      BY <3>1, <3>2
    <3>4. order[o].pending + (-m) = order[o].pending + 0
      BY <2>1, <3>1, RowType
    <3>5. Changed(o, new[o], m - succ[o] - failed[o], -m, succ[o], failed[o])
      BY <3>1, <3>2, <3>3, <3>4, SameRowChanged DEF Changed
    <3> QED
      BY <3>1, <3>5, RowType DEF m
  <2> QED
    BY <2>2, <2>3
<1>2. DOMAIN new = Orders /\ new = [o \in Orders |-> new[o]]
  BY DEF SettledRows
<1> QED
  BY <1>1, <1>2

LEMMA UpdateOrdersStatusBOK ==
  ASSUME BInv, IInv', NEW t \in Txs, NEW status \in {"SUCCESS", "FAIL", "ABORT"},
         matchTx[t].status = "PENDING",
         NEW succ, NEW failed, Report(t, succ, failed),
         UpdateOrdersStatus(t, status, succ, failed)
  PROVE  BInv'
<1> DEFINE old == matchTx[t]
           new == SettledRows(t, succ, failed)
           tx == [status |-> status, blockConfirmed |-> TRUE, items |-> old.items,
                  succ   |-> Appended(old.succ, succ),
                  failed |-> Appended(old.failed, failed)]
<1>1. TypeOK /\ old \in MatchTransaction
  BY DEF BInv, IInv, TypeOK
<1>2. ~old.blockConfirmed /\ old.succ = Nothing /\ old.failed = Nothing
  BY DEF BInv, RecordsKept, RecordOK
<1>3. \A o \in Orders : /\ old.succ[o] = 0 /\ old.failed[o] = 0
                        /\ Carries(old, o) = old.items[o]
  BY <1>2 DEF Nothing, Carries
<1>4. /\ \/ CommitRows(new) /\ matchTx' = [matchTx EXCEPT ![t] = tx]
         \/ AbortRows(new)
      /\ toCancel' = toCancel
  BY DEF UpdateOrdersStatus, SettledRows
<1>5. Appended(old.succ, succ) = succ /\ Appended(old.failed, failed) = failed
  <2>1. /\ \A o \in Orders : /\ Appended(old.succ, succ)[o] = succ[o]
                             /\ Appended(old.failed, failed)[o] = failed[o]
    BY <1>3 DEF Appended
  <2> QED
    BY <2>1 DEF Appended, Report
<1>6. /\ tx \in MatchTransaction /\ tx.status = status /\ tx.blockConfirmed = TRUE
      /\ tx.items = old.items /\ tx.succ = succ /\ tx.failed = failed
  BY <1>1, <1>5 DEF MatchTransaction, TransactionStatus, Report
<1>7. new \in [Orders -> Row] /\ \A o \in Orders :
        Changed(o, new[o], old.items[o] - succ[o] - failed[o], -old.items[o], succ[o], failed[o])
  BY <1>1, SettledRowsChanged
<1> HIDE DEF new, tx
<1>8. \A o \in Orders : /\ old.items[o] \in Int /\ succ[o] \in Int /\ failed[o] \in Int
                        /\ Carries(tx, o) = 0
  BY <1>1, <1>6, TxType DEF Report, Carries
<1>9. ASSUME faults = 0, NEW o \in Orders PROVE Signed(o, new[o].available)
  <2>1. new[o].available = order[o].available + (old.items[o] - succ[o] - failed[o])
    BY <1>7 DEF Changed
  <2>2. Signed(o, order[o].available) /\ order[o].available \in Int
    BY <1>1, <1>9, InBookOK, RowType
  <2>3. Signed(o, old.items[o] - succ[o] - failed[o])
    BY <1>9, ReportSigned
  <2> QED
    BY <1>8, <2>1, <2>2, <2>3, SumSigned
<1>10. CASE AbortRows(new)
  BY <1>7, <1>9, <1>10, AbortRowsBOK
<1>11. CASE CommitRows(new) /\ matchTx' = [matchTx EXCEPT ![t] = tx]
  <2>1. /\ order' = new /\ faults' = faults
        /\ book' = [o \in Orders |->
                      rollbackOrderbook(o, order[o].available, new[o].available)]
    BY <1>11 DEF CommitRows
  <2>2. RecordOK(tx)
    <3>1. \A o \in Orders : old.items[o] = 0 => succ[o] = 0 /\ failed[o] = 0
      BY DEF Report, UpTo
    <3> QED
      BY <1>6, <3>1 DEF RecordOK, Report
  <2>3. Follows(order', t, tx)
    BY <1>3, <1>6, <1>7, <1>8, <2>1 DEF Follows, Changed
  <2>4. ASSUME faults = 0 PROVE TxSigned(tx) /\ NewSigned(order', t, tx) /\ BookIsTable'
    <3>1. TxSigned(tx)
      BY <1>6, <2>4, ReportSigned DEF TxSigned
    <3>2. \A o \in Orders : (new[o].canceled - order[o].canceled)
                               - (tx.failed[o] - old.failed[o]) = 0
      BY <1>1, <1>3, <1>6, <1>7, <1>8, RowType DEF Changed
    <3>3. NewSigned(order', t, tx)
      BY <1>9, <2>1, <2>4, <3>2 DEF NewSigned, Signed, HasTheSameSign
    <3>4. BookIsTable'
      BY <1>7, <1>9, <2>1, <2>4, BookAccepts DEF BookIsTable
    <3> QED
      BY <3>1, <3>3, <3>4
  <2> QED
    BY <1>4, <1>6, <1>11, <2>1, <2>2, <2>3, <2>4, TxStep
<1> QED
  BY <1>4, <1>10, <1>11
\* What a rollback of t makes of each order: the row and the new records
RolledBackAll(t, succ, failed) ==
  [o \in Orders |->
     IF o \notin Items(t) THEN [row |-> order[o], succ |-> 0, failed |-> 0]
     ELSE RolledBack(o, matchTx[t].succ[o], matchTx[t].failed[o], succ[o], failed[o])]

LEMMA RolledBackAllChanged ==
  ASSUME BInv, NEW t \in Txs, NEW succ, NEW failed, Report(t, succ, failed),
         NEW o \in Orders, NEW R, R = RolledBackAll(t, succ, failed)[o]
  PROVE  LET sb == matchTx[t].succ[o]
             fb == matchTx[t].failed[o]
         IN /\ R.row \in Row /\ R.succ \in Int /\ R.failed \in Int
            /\ matchTx[t].items[o] = 0 => R.succ = 0 /\ R.failed = 0
            /\ R.succ = 0 \/ R.failed = 0
            /\ Changed(o, R.row, (sb + fb) - (R.succ + R.failed), 0,
                       R.succ - sb, R.failed - fb)
            /\ faults = 0 => /\ Signed(o, R.row.available)
                             /\ Signed(o, R.succ) /\ Signed(o, R.failed)
<1> DEFINE sb == matchTx[t].succ[o]
           fb == matchTx[t].failed[o]
<1>1. TypeOK /\ IInv
  BY DEF BInv, IInv
<1>2. sb \in Int /\ fb \in Int /\ succ[o] \in Int /\ failed[o] \in Int
  BY <1>1, TxType DEF Report
<1>3. /\ matchTx[t].items[o] = 0 => sb = 0 /\ fb = 0
      /\ sb = 0 \/ fb = 0
  BY DEF BInv, RecordsKept, RecordOK
<1>4. faults = 0 => /\ Signed(o, order[o].available) /\ Signed(o, sb) /\ Signed(o, fb)
                    /\ Signed(o, succ[o]) /\ Signed(o, failed[o])
  BY InBookOK, ReportSigned DEF BInv, AmountsSigned, TxSigned
<1>5. CASE o \in Items(t)
  <2>1. R = RolledBack(o, sb, fb, succ[o], failed[o]) /\ matchTx[t].items[o] # 0 /\ Exists(o)
    BY <1>1, <1>5 DEF RolledBackAll, Items, IInv, ItemsExist
  <2> HIDE DEF sb, fb
  <2>2. R.row \in Row
    BY <1>1, <1>2, <2>1, RolledBackOK DEF Redistributed
  <2>3. /\ R.succ \in Int /\ R.failed \in Int
        /\ R.succ = 0 \/ R.failed = 0
        /\ Changed(o, R.row, (sb + fb) - (R.succ + R.failed), 0, R.succ - sb, R.failed - fb)
        /\ faults = 0 => /\ Signed(o, R.row.available)
                         /\ Signed(o, R.succ) /\ Signed(o, R.failed)
    BY <1>1, <1>2, <1>3, <1>4, <2>1, RolledBackChanged
  <2> QED
    BY <2>1, <2>2, <2>3 DEF sb, fb
<1>6. CASE o \notin Items(t)
  <2>1. R = [row |-> order[o], succ |-> 0, failed |-> 0] /\ matchTx[t].items[o] = 0
    BY <1>6 DEF RolledBackAll, Items
  <2>2. R.row = order[o] /\ R.succ = 0 /\ R.failed = 0 /\ sb = 0 /\ fb = 0
    BY <1>3, <2>1
  <2> HIDE DEF sb, fb
  <2>3. /\ (sb + fb) - (R.succ + R.failed) = 0
        /\ R.succ - sb = 0 /\ R.failed - fb = 0
    BY <2>2
  <2>4. Signed(o, 0)
    BY DEF Signed, HasTheSameSign
  <2> QED
    BY <1>1, <1>4, <2>2, <2>3, <2>4, RowType, SameRowChanged DEF sb, fb
<1> QED
  BY <1>5, <1>6

LEMMA RollbackOrdersStatusBOK ==
  ASSUME BInv, IInv', NEW t \in Txs, NEW status \in {"SUCCESS", "FAIL"},
         matchTx[t].status \in {"SUCCESS", "FAIL"},
         NEW succ, NEW failed, Report(t, succ, failed),
         RollbackOrdersStatus(t, status, succ, failed)
  PROVE  BInv'
<1> DEFINE old == matchTx[t]
           res == RolledBackAll(t, succ, failed)
           new == [o \in Orders |-> res[o].row]
           tx == [status |-> status, blockConfirmed |-> old.blockConfirmed,
                  items  |-> old.items,
                  succ   |-> [o \in Orders |-> res[o].succ],
                  failed |-> [o \in Orders |-> res[o].failed]]
<1>1. TypeOK /\ old \in MatchTransaction
  BY DEF BInv, IInv, TypeOK
<1>2. old.blockConfirmed = TRUE
  BY <1>1, TxType DEF BInv, RecordsKept, RecordOK
<1>3. /\ \/ CommitRows(new) /\ matchTx' = [matchTx EXCEPT ![t] = tx]
         \/ AbortRows(new)
      /\ toCancel' = toCancel
  BY DEF RollbackOrdersStatus, RolledBackAll
<1>4. \A o \in Orders :
        /\ res[o].row \in Row /\ res[o].succ \in Int /\ res[o].failed \in Int
        /\ old.items[o] = 0 => res[o].succ = 0 /\ res[o].failed = 0
        /\ res[o].succ = 0 \/ res[o].failed = 0
        /\ Changed(o, res[o].row, (old.succ[o] + old.failed[o]) - (res[o].succ + res[o].failed), 0,
                   res[o].succ - old.succ[o], res[o].failed - old.failed[o])
        /\ faults = 0 => /\ Signed(o, res[o].row.available)
                         /\ Signed(o, res[o].succ) /\ Signed(o, res[o].failed)
  BY RolledBackAllChanged
<1> HIDE DEF res
<1>5. new \in [Orders -> Row] /\ \A o \in Orders : new[o] = res[o].row
  BY <1>4
<1>6. /\ tx \in MatchTransaction /\ tx.status = status /\ tx.blockConfirmed = TRUE
      /\ tx.items = old.items
      /\ \A o \in Orders : tx.succ[o] = res[o].succ /\ tx.failed[o] = res[o].failed
  BY <1>1, <1>2, <1>4 DEF MatchTransaction, TransactionStatus
<1> HIDE DEF new, tx
<1>7. faults = 0 => \A o \in Orders : Signed(o, new[o].available)
  BY <1>4, <1>5
<1>8. CASE AbortRows(new)
  BY <1>5, <1>7, <1>8, AbortRowsBOK
<1>9. CASE CommitRows(new) /\ matchTx' = [matchTx EXCEPT ![t] = tx]
  <2>1. /\ order' = new /\ faults' = faults
        /\ book' = [o \in Orders |->
                      rollbackOrderbook(o, order[o].available, new[o].available)]
    BY <1>9 DEF CommitRows
  <2>2. RecordOK(tx)
    BY <1>4, <1>6 DEF RecordOK
  <2>3. Follows(order', t, tx)
    <3>1. \A o \in Orders : /\ Carries(tx, o) = 0 /\ Carries(old, o) = 0
                            /\ tx.succ[o] = res[o].succ
                            /\ order'[o] = res[o].row
      BY <1>2, <1>5, <1>6, <2>1 DEF Carries
    <3> QED
      BY <1>4, <3>1 DEF Follows, Changed
  <2>4. ASSUME faults = 0 PROVE TxSigned(tx) /\ NewSigned(order', t, tx) /\ BookIsTable'
    <3>1. TxSigned(tx)
      BY <1>4, <1>6, <2>4 DEF TxSigned, BInv, AmountsSigned
    <3>2. \A o \in Orders : (new[o].canceled - order[o].canceled)
                               - (tx.failed[o] - old.failed[o]) = 0
      BY <1>1, <1>4, <1>5, <1>6, RowType, TxType DEF Changed
    <3>3. NewSigned(order', t, tx)
      BY <1>7, <2>1, <2>4, <3>2 DEF NewSigned, Signed, HasTheSameSign
    <3>4. BookIsTable'
      BY <1>5, <1>7, <2>1, <2>4, BookAccepts DEF BookIsTable
    <3> QED
      BY <3>1, <3>3, <3>4
  <2> QED
    BY <1>3, <1>6, <1>9, <2>1, <2>2, <2>3, <2>4, TxStep
<1> QED
  BY <1>3, <1>8, <1>9

LEMMA SettleBOK ==
  ASSUME BInv, IInv', lost = {}, NEW t \in Txs, Settle(t)
  PROVE  BInv'
<1>1. IInv /\ matchTx[t].status = "PENDING"
  BY DEF BInv, Settle, HandsIn
<1>2. CASE \E s \in Fills(t), F \in SUBSET Items(t) :
             UpdateOrdersStatus(t, "SUCCESS", SuccessEvents(s, F), FailedEvents(t, F))
  BY <1>1, <1>2, EventsReport, UpdateOrdersStatusBOK
<1>3. CASE UpdateOrdersStatus(t, "FAIL", Nothing, Nothing)
  BY <1>1, <1>3, NothingReport, UpdateOrdersStatusBOK
<1> QED
  BY <1>2, <1>3 DEF Settle

LEMMA AbortBOK ==
  ASSUME BInv, IInv', lost = {}, NEW t \in Txs, Abort(t)
  PROVE  BInv'
<1>1. IInv /\ matchTx[t].status = "PENDING"
  BY DEF BInv, Abort, HandsIn
<1> QED
  BY <1>1, NothingReport, UpdateOrdersStatusBOK DEF Abort

LEMMA RecheckBOK ==
  ASSUME BInv, IInv', NEW t \in Txs, Recheck(t)
  PROVE  BInv'
<1>1. IInv /\ matchTx[t].status \in {"SUCCESS", "FAIL"}
  BY DEF BInv, Recheck
<1>2. CASE \E s \in Fills(t), F \in SUBSET Items(t) :
             RollbackOrdersStatus(t, "SUCCESS", SuccessEvents(s, F), FailedEvents(t, F))
  BY <1>1, <1>2, EventsReport, RollbackOrdersStatusBOK
<1>3. CASE RollbackOrdersStatus(t, "FAIL", Nothing, Nothing)
  BY <1>1, <1>3, NothingReport, RollbackOrdersStatusBOK
<1> QED
  BY <1>2, <1>3 DEF Recheck

-----------------------------------------------------------------------------
(***************************************************************************)
(* The invariant                                                           *)
(***************************************************************************)

\* Sums of nothing
LEMMA TotalZero ==
  ASSUME NEW f \in [Txs -> Int], \A t \in Txs : f[t] = 0
  PROVE  Total(f, MaxTxs) = 0
<1>1. MaxTxs \in Nat /\ Txs = 1..MaxTxs
  BY ConstantsAssumption DEF Txs
<1>2. Total(f, MaxTxs) \in Int
  BY <1>1, TotalType
<1>3. \A i \in 1..MaxTxs : 0 <= f[i] /\ f[i] <= 0
  BY <1>1
<1>4. 0 <= Total(f, MaxTxs)
  BY <1>1, <1>3, TotalNotNegative
<1>5. Total(f, MaxTxs) <= 0
  BY <1>1, <1>3, TotalNotPositive
<1> QED
  BY <1>2, <1>4, <1>5

LEMMA InitBOK == Init => BInv
<1> SUFFICES ASSUME Init PROVE BInv
  OBVIOUS
<1>1. IInv
  BY InitOK
<1>2. RowsSaved
  BY DEF Init, RowsSaved, Exists, NoRow
<1>3. /\ NoTx.items = Nothing /\ NoTx.succ = Nothing /\ NoTx.failed = Nothing
      /\ NoTx.status = "none" /\ NoTx.blockConfirmed = FALSE
      /\ \A o \in Orders : Nothing[o] = 0
  BY DEF NoTx, Nothing
<1>4. \A t \in Txs : matchTx[t] = NoTx
  BY DEF Init
<1>5. RecordsKept
  BY <1>3, <1>4 DEF RecordsKept, RecordOK
<1>6. ASSUME NEW o \in Orders
      PROVE  InFlight(o) = 0 /\ Succeeded(o) = 0 /\ FailedOnChain(o) = 0
  <2> DEFINE p == [t \in Txs |-> IF matchTx[t].blockConfirmed THEN 0 ELSE matchTx[t].items[o]]
             s == [t \in Txs |-> matchTx[t].succ[o]]
             f == [t \in Txs |-> matchTx[t].failed[o]]
  <2>1. \A t \in Txs : p[t] = 0 /\ s[t] = 0 /\ f[t] = 0
    BY <1>3, <1>4
  <2>2. p \in [Txs -> Int] /\ s \in [Txs -> Int] /\ f \in [Txs -> Int]
    BY <2>1
  <2>3. /\ InFlight(o) = Total(p, MaxTxs) /\ Succeeded(o) = Total(s, MaxTxs)
        /\ FailedOnChain(o) = Total(f, MaxTxs)
    BY DEF InFlight, Succeeded, FailedOnChain
  <2> HIDE DEF p, s, f
  <2> QED
    BY <2>1, <2>2, <2>3, TotalZero
<1>7. \A o \in Orders : /\ order[o].pending = 0 /\ order[o].confirmed = 0
                        /\ order[o].available = 0 /\ order[o].canceled = 0
                        /\ book[o] = 0
  BY DEF Init, NoRow, Nothing
<1>8. SumsAgree
  BY <1>6, <1>7 DEF SumsAgree
<1>9. AmountsSigned /\ BookIsTable
  BY <1>3, <1>4, <1>6, <1>7
     DEF Init, AmountsSigned, BookIsTable, TxSigned, Signed, HasTheSameSign
<1> QED
  BY <1>1, <1>2, <1>5, <1>8, <1>9 DEF BInv

LEMMA NextBOK == BInv /\ lost = {} /\ [Next]_vars /\ repeats' = 0 => BInv'
<1> SUFFICES ASSUME BInv, lost = {}, [Next]_vars, repeats' = 0 PROVE BInv'
  OBVIOUS
<1>0. IInv'
  BY NextOK DEF BInv
<1>1. ASSUME NEW o \in Orders, NewOrder(o) PROVE BInv'
  BY <1>0, <1>1, NewOrderBOK
<1>2. ASSUME NEW o \in Orders, NewOrderFails(o) PROVE BInv'
  BY <1>0, <1>2, NewOrderFailsBOK
<1>3. ASSUME NEW o \in Orders, CancelOrder(o) PROVE BInv'
  BY <1>0, <1>3, CancelOrderBOK
<1>4. ASSUME NEW o \in Orders, TimerFires(o) PROVE BInv'
  BY <1>0, <1>4, TimerFiresBOK
<1>5. ASSUME NEW o \in Orders, onOrderExpired(o) PROVE BInv'
  BY <1>0, <1>5, onOrderExpiredBOK
<1>6. ASSUME NEW u, checkUserPendingOrders(u) PROVE BInv'
  BY <1>0, <1>6, checkUserPendingOrdersBOK
<1>7. ASSUME NEW c \in toCancel, checkPerpUserOrders(c) PROVE BInv'
  BY <1>0, <1>7, checkPerpUserOrdersBOK
<1>8. ASSUME NEW t \in Txs, matchOrders(t) PROVE BInv'
  BY <1>0, <1>8, matchOrdersBOK
<1>9. ASSUME NEW t \in Txs, createLaunchTransaction(t) PROVE BInv'
  BY <1>0, <1>9, createLaunchTransactionBOK
<1>10. ASSUME NEW t \in Txs, Settle(t) PROVE BInv'
  BY <1>0, <1>10, SettleBOK
<1>11. ASSUME NEW t \in Txs, Abort(t) PROVE BInv'
  BY <1>0, <1>11, AbortBOK
<1>12. ASSUME NEW t \in Txs, Recheck(t) PROVE BInv'
  BY <1>0, <1>12, RecheckBOK
<1>13. ASSUME matchOrdersFails PROVE BInv'
  BY <1>0, <1>13, matchOrdersFailsBOK
<1>14. ASSUME reloadActiveOrders PROVE BInv'
  BY <1>0, <1>14, reloadActiveOrdersBOK
<1>15. CASE UNCHANGED vars
  BY <1>0, <1>15, QuietStep DEF vars, BInv, BookIsTable, AmountsSigned
<1>16. ASSUME NEW t \in Txs, ResultLost(t) PROVE FALSE
  BY <1>16 DEF ResultLost, BInv, IInv, TypeOK
<1> QED
  BY <1>1, <1>2, <1>3, <1>4, <1>5, <1>6, <1>7, <1>8, <1>9, <1>10, <1>11,
     <1>12, <1>13, <1>14, <1>15, <1>16 DEF Next
\* Database failures are not forgotten.
LEMMA FaultsCounted ==
  ASSUME IInv, [Next]_vars
  PROVE  faults' = 0 => faults = 0
<1>0. faults \in Nat
  BY DEF IInv, TypeOK
<1>1. ASSUME NEW o, NEW all, NEW amt, cancelOrderWithoutLock(o, all, amt)
      PROVE  faults' = 0 => faults = 0
  BY <1>0, <1>1 DEF cancelOrderWithoutLock, CancelNothing, CancelDone, CancelAborted
<1>2. ASSUME NEW new, CommitRows(new) \/ AbortRows(new)
      PROVE  faults' = 0 => faults = 0
  BY <1>0, <1>2 DEF CommitRows, AbortRows
<1>3. ASSUME NEW t, NEW st, NEW succ, NEW failed,
             \/ UpdateOrdersStatus(t, st, succ, failed)
             \/ RollbackOrdersStatus(t, st, succ, failed)
      PROVE  faults' = 0 => faults = 0
  BY <1>2, <1>3 DEF UpdateOrdersStatus, RollbackOrdersStatus
<1>4. ASSUME NEW o \in Orders, CancelOrder(o) \/ onOrderExpired(o)
      PROVE  faults' = 0 => faults = 0
  BY <1>1, <1>4 DEF CancelOrder, onOrderExpired
<1>5. ASSUME NEW o \in Orders, NewOrder(o) \/ NewOrderFails(o) \/ TimerFires(o)
      PROVE  faults' = 0 => faults = 0
  BY <1>0, <1>5 DEF NewOrder, NewOrderFails, TimerFires
<1>6. ASSUME NEW t \in Txs, \/ matchOrders(t) \/ createLaunchTransaction(t)
                            \/ Settle(t) \/ Abort(t) \/ Recheck(t) \/ ResultLost(t)
      PROVE  faults' = 0 => faults = 0
  BY <1>0, <1>3, <1>6 DEF ResultLost, matchOrders, createLaunchTransaction, Settle, Abort, Recheck
<1>7. ASSUME NEW c, checkPerpUserOrders(c) PROVE faults' = 0 => faults = 0
  BY <1>1, <1>7 DEF checkPerpUserOrders
<1>8. ASSUME NEW u, checkUserPendingOrders(u) PROVE faults' = 0 => faults = 0
  BY <1>8 DEF checkUserPendingOrders
<1>9. ASSUME matchOrdersFails \/ reloadActiveOrders \/ UNCHANGED vars
      PROVE  faults' = 0 => faults = 0
  BY <1>0, <1>9 DEF matchOrdersFails, reloadActiveOrders, vars
<1> QED
  BY <1>4, <1>5, <1>6, <1>7, <1>8, <1>9 DEF Next

\* Nothing but ResultLost counts a lost result or has one handed in again.
LEMMA LossStep ==
  ASSUME [Next]_vars
  PROVE  \/ repeats' = repeats /\ lost' \subseteq lost
         \/ \E t \in Txs : ResultLost(t)
<1> DEFINE Quiet == repeats' = repeats /\ lost' \subseteq lost
<1>1. ASSUME NEW t, NEW st, NEW succ, NEW failed,
             \/ UpdateOrdersStatus(t, st, succ, failed)
             \/ RollbackOrdersStatus(t, st, succ, failed)
      PROVE  Quiet
  BY <1>1 DEF UpdateOrdersStatus, RollbackOrdersStatus
<1>2. ASSUME NEW t \in Txs, Settle(t) \/ Abort(t) \/ Recheck(t)
      PROVE  Quiet
  BY <1>1, <1>2 DEF Settle, Abort, Recheck
<1>3. ASSUME NEW t \in Txs, matchOrders(t) \/ createLaunchTransaction(t)
      PROVE  Quiet
  BY <1>3 DEF matchOrders, createLaunchTransaction
<1>4. ASSUME NEW o \in Orders, \/ NewOrder(o) \/ NewOrderFails(o) \/ CancelOrder(o)
                              \/ TimerFires(o) \/ onOrderExpired(o)
      PROVE  Quiet
  BY <1>4 DEF NewOrder, NewOrderFails, CancelOrder, TimerFires, onOrderExpired
<1>5. ASSUME NEW c, checkPerpUserOrders(c) \/ checkUserPendingOrders(c)
      PROVE  Quiet
  BY <1>5 DEF checkPerpUserOrders, checkUserPendingOrders
<1>6. ASSUME matchOrdersFails \/ reloadActiveOrders \/ UNCHANGED vars
      PROVE  Quiet
  BY <1>6 DEF matchOrdersFails, reloadActiveOrders, vars
<1> QED
  BY <1>2, <1>3, <1>4, <1>5, <1>6 DEF Next

LEMMA NextAOK == AInv /\ [Next]_vars => AInv'
<1> SUFFICES ASSUME AInv, [Next]_vars PROVE AInv'
  OBVIOUS
<1>1. IInv'
  BY NextOK DEF AInv
<1>2. CASE repeats' = repeats /\ lost' \subseteq lost
  <2>1. LossesCounted'
    BY <1>2, FaultsCounted DEF AInv, LossesCounted
  <2>2. repeats' = 0 => BInv'
    BY <1>2, NextBOK DEF AInv, LossesCounted
  <2> QED
    BY <1>1, <2>1, <2>2 DEF AInv
<1>3. CASE \E t \in Txs : ResultLost(t)
  BY <1>1, <1>3 DEF ResultLost, AInv, LossesCounted, IInv, TypeOK
<1> QED
  BY <1>2, <1>3, LossStep

-----------------------------------------------------------------------------

\* The invariant holds in every reachable state: book, table and match
\* transactions agree until the launcher loses a result, which
\* UpdateOrdersStatus would then apply a second time.
THEOREM AgreementInvariant == Spec => []AInv
<1>1. Init => AInv
  BY InitBOK DEF AInv, BInv, LossesCounted, Init
<1> QED
  BY <1>1, NextAOK, PTL DEF Spec

\* Without a failure, no result was lost either.
LEMMA FaultlessAgrees == AInv /\ faults = 0 => BInv /\ lost = {}
BY DEF AInv, LossesCounted

\* As long as no database transaction failed, the book in memory holds
\* exactly what the orders table says is available.
THEOREM BookAgrees == Spec => []BookMatchesDB
<1>1. AInv => BookMatchesDB
  BY FaultlessAgrees DEF BInv, BookIsTable, BookMatchesDB
<1> QED
  BY <1>1, AgreementInvariant, PTL

\* No order is matched, confirmed or canceled for more than it was placed
\* for, and no part of it has the wrong sign, as long as nothing failed.
THEOREM PartsBounded == Spec => []PartsWithinOrder
<1>1. AInv => PartsWithinOrder
  BY PartsOK, FaultlessAgrees DEF PartsWithinOrder
<1> QED
  BY <1>1, AgreementInvariant, PTL

\* Until the launcher loses a result, the pending and confirmed amounts of
\* every order are the sums over the match transactions, whichever
\* transactions of the matcher fail; its canceled amount covers what failed
\* on the chain as long as none did.
THEOREM SumsAccounted == Spec => []PendingIsInFlight
<1>1. AInv => PendingIsInFlight
  BY PendingSigned DEF AInv, BInv, SumsAgree, PendingIsInFlight
<1> QED
  BY <1>1, AgreementInvariant, PTL

\* An order is pending exactly when something of it is available or on its
\* way to the chain.
THEOREM StatusTruthful == Spec => []StatusTellsAmounts
<1>1. AInv => StatusTellsAmounts
  BY StatusOK, FaultlessAgrees DEF StatusTellsAmounts
<1> QED
  BY <1>1, AgreementInvariant, PTL

\* The book accepts whatever the chain reports of a transaction in flight.
THEOREM SettlementAccepted == Spec => []SettlementApplies
<1>1. AInv => SettlementApplies
  <2> SUFFICES ASSUME BInv, faults = 0, NEW t \in Txs, NEW s \in Fills(t)
               PROVE  Refused([o \in Orders |->
                         IF o \in Items(t) THEN SettledRow(o, matchTx[t].items[o], s[o], 0)
                         ELSE order[o]]) = {}
    BY FaultlessAgrees DEF SettlementApplies
  <2> DEFINE new == SettledRows(t, s, Nothing)
  <2>1. TypeOK /\ Report(t, s, Nothing)
    <3>1. \A o \in Orders : Nothing[o] = 0
      BY DEF Nothing
    <3> QED
      BY <3>1, NothingType DEF BInv, IInv, Report, Fills, Lots
  <2>2. new \in [Orders -> Row] /\ \A o \in Orders :
          new[o].available = order[o].available + (matchTx[t].items[o] - s[o] - Nothing[o])
    BY <2>1, SettledRowsChanged DEF Changed
  <2>3. ASSUME NEW o \in Orders PROVE Signed(o, new[o].available)
    <3>1. /\ Signed(o, order[o].available) /\ order[o].available \in Int
          /\ Signed(o, matchTx[t].items[o] - s[o] - Nothing[o])
      BY <2>1, InBookOK, ReportSigned, RowType
    <3>2. matchTx[t].items[o] - s[o] - Nothing[o] \in Int
      BY <2>1, TxType DEF Report
    <3> QED
      BY <2>2, <3>1, <3>2, SumSigned
  <2>4. [o \in Orders |->
           IF o \in Items(t) THEN SettledRow(o, matchTx[t].items[o], s[o], 0)
           ELSE order[o]] = new
    BY DEF SettledRows, Nothing
  <2> HIDE DEF new
  <2> QED
    BY <2>2, <2>3, <2>4, BookAccepts
<1> QED
  BY <1>1, AgreementInvariant, PTL

-----------------------------------------------------------------------------
(***************************************************************************)
(* What a step may never do                                                *)
(***************************************************************************)

\* A settlement leaves an order alone of which nothing is pending.
LEMMA SettlementElsewhere ==
  ASSUME BInv, faults = 0, NEW t \in Txs, matchTx[t].status = "PENDING",
         NEW status, NEW succ, NEW failed, UpdateOrdersStatus(t, status, succ, failed),
         NEW o \in Orders, order[o].pending = 0
  PROVE  order'[o] = order[o]
<1>1. ~matchTx[t].blockConfirmed
  BY DEF BInv, RecordsKept, RecordOK
<1>2. PartOf(matchTx[t].items[o], 0) /\ matchTx[t].items[o] \in Int
  BY <1>1, PendingSigned, TxType DEF BInv, IInv
<1>3. o \notin Items(t)
  BY <1>2 DEF PartOf, Items
<1>4. order' = SettledRows(t, succ, failed) \/ order' = order
  BY DEF UpdateOrdersStatus, SettledRows, CommitRows, AbortRows
<1> QED
  BY <1>3, <1>4 DEF SettledRows

LEMMA ClosedStep ==
  ASSUME BInv, lost = {}, [Next]_vars, faults' = 0, NEW o \in Orders,
         order[o].status \in {"canceled", "partial_filled", "full_filled"}
  PROVE  \/ order'[o] = order[o]
         \/ \E t \in Txs : matchTx[t].blockConfirmed /\ Recheck(t)
<1>1. faults = 0
  BY FaultsCounted DEF BInv
<1>2. Exists(o) /\ order[o].available = 0 /\ order[o].pending = 0
  <2>1. Exists(o) /\ order[o].status # "pending"
    BY DEF Exists
  <2> QED
    BY <1>1, <2>1, StatusOK DEF StatusTellsAmounts
<1>3. ASSUME NEW p \in Orders, NEW all \in BOOLEAN, NEW amt \in Int, Signed(p, amt),
             cancelOrderWithoutLock(p, all, amt)
      PROVE  order'[o] = order[o]
  BY <1>2, <1>3, CancelEffect
<1>4. ASSUME NEW p \in Orders, CancelOrder(p) \/ onOrderExpired(p)
      PROVE  order'[o] = order[o]
  <2>1. 0 \in Int /\ TRUE \in BOOLEAN /\ Signed(p, 0)
    BY DEF Signed, HasTheSameSign
  <2>2. cancelOrderWithoutLock(p, TRUE, 0)
    BY <1>4 DEF CancelOrder, onOrderExpired
  <2> QED
    BY <1>3, <2>1, <2>2
<1>5. ASSUME NEW c \in toCancel, checkPerpUserOrders(c) PROVE order'[o] = order[o]
  <2>1. c.hash \in Orders /\ c.amount \in Int /\ Signed(c.hash, c.amount)
    BY <1>1 DEF BInv, IInv, TypeOK, OrderCancel, AmountsSigned
  <2>2. FALSE \in BOOLEAN /\ cancelOrderWithoutLock(c.hash, FALSE, c.amount)
    BY <1>5 DEF checkPerpUserOrders
  <2> QED
    BY <1>3, <2>1, <2>2
<1>6. ASSUME NEW p \in Orders, NewOrder(p) PROVE order'[o] = order[o]
  BY <1>2, <1>6 DEF NewOrder, BInv, IInv, TypeOK
<1>7. ASSUME NEW t \in Txs, matchOrders(t) PROVE order'[o] = order[o]
  <2>1. PICK m \in MatchItems :
          order' = [q \in Orders |-> IF m[q] = 0 THEN order[q] ELSE MatchedRow(q, m[q])]
    BY <1>7 DEF matchOrders
  <2>2. m[o] \in UpTo(book[o]) /\ book[o] = 0
    BY <1>1, <1>2, InBookOK DEF MatchItems
  <2>3. m[o] = 0
    BY <2>2 DEF UpTo
  <2> QED
    BY <2>1, <2>3
<1>8. ASSUME NEW t \in Txs, Settle(t) \/ Abort(t) PROVE order'[o] = order[o]
  BY <1>1, <1>2, <1>8, SettlementElsewhere DEF Settle, Abort, HandsIn
<1>9. ASSUME NEW t \in Txs, Recheck(t) PROVE matchTx[t].blockConfirmed
  BY <1>9 DEF Recheck, BInv, RecordsKept, RecordOK
<1>10. ASSUME NEW p \in Orders, NewOrderFails(p) \/ TimerFires(p) PROVE order'[o] = order[o]
  BY <1>10 DEF NewOrderFails, TimerFires
<1>11. ASSUME NEW u, checkUserPendingOrders(u) PROVE order'[o] = order[o]
  BY <1>11 DEF checkUserPendingOrders
<1>12. ASSUME NEW t \in Txs, createLaunchTransaction(t) PROVE order'[o] = order[o]
  BY <1>12 DEF createLaunchTransaction
<1>13. ASSUME matchOrdersFails \/ reloadActiveOrders \/ UNCHANGED vars
       PROVE  order'[o] = order[o]
  BY <1>13 DEF matchOrdersFails, reloadActiveOrders, vars
<1>14. ASSUME NEW t \in Txs, ResultLost(t) PROVE order'[o] = order[o]
  BY <1>14 DEF ResultLost
<1> QED
  BY <1>4, <1>5, <1>6, <1>7, <1>8, <1>9, <1>10, <1>11, <1>12, <1>13, <1>14 DEF Next

\* A closed order stays as it is, whatever cancellations and settlements
\* still arrive for it, until a reorganization of the chain is noticed.
THEOREM ClosedOrdersStay == Spec => ClosedStaysClosed
<1>1. AInv /\ [Next]_vars =>
        [\A o \in Orders :
           faults' = 0 /\ order[o].status \in {"canceled", "partial_filled", "full_filled"} =>
             \/ order'[o] = order[o]
             \/ \E t \in Txs : matchTx[t].blockConfirmed /\ Recheck(t)]_vars
  BY ClosedStep, FaultlessAgrees, FaultsCounted DEF AInv
<1> QED
  BY <1>1, AgreementInvariant, PTL DEF Spec, ClosedStaysClosed

\* The book reloaded from the orders table by a restart is the book that was
\* in memory.
THEOREM RestartInvisible == Spec => RestartKeepsBook
<1>1. AInv => [reloadActiveOrders /\ faults = 0 => book' = book]_vars
  BY ReloadSame, FaultlessAgrees
<1> QED
  BY <1>1, AgreementInvariant, PTL DEF Spec, RestartKeepsBook

\* When the expiration callback of an order has run, nothing of the order is
\* left to be matched, in the book or in the table.
THEOREM ExpiredOrdersClosed == Spec => ExpiryClosesOrder
<1>1. ASSUME BInv, [Next]_vars, NEW o \in Orders, faults' = 0, onOrderExpired(o)
      PROVE  book'[o] = 0 /\ order'[o].available = 0
  <2>1. 0 \in Int /\ TRUE \in BOOLEAN /\ Signed(o, 0)
    BY DEF Signed, HasTheSameSign
  <2>2. cancelOrderWithoutLock(o, TRUE, 0)
    BY <1>1 DEF onOrderExpired
  <2> QED
    BY <1>1, <2>1, <2>2, CancelEffect DEF BookIsTable
<1>2. AInv /\ [Next]_vars =>
        [\A o \in Orders : faults' = 0 /\ o \in expiring /\ onOrderExpired(o)
                           => book'[o] = 0 /\ order'[o].available = 0]_vars
  BY <1>1, FaultlessAgrees, FaultsCounted DEF AInv
<1> QED
  BY <1>2, AgreementInvariant, PTL DEF Spec, ExpiryClosesOrder
=============================================================================
