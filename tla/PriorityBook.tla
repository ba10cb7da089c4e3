---------------------------- MODULE PriorityBook ----------------------------
(***************************************************************************)
(* What the matcher expects of an order book: on each side a queue of      *)
(* orders, better prices first, and among equal prices the order that came *)
(* first. An order that changes its amount keeps its place.                *)
(***************************************************************************)
EXTENDS Integers, SequencesExt, Amounts

CONSTANTS
  Orders,   \* order ids
  Price,    \* the price of each order
  Lots      \* the signed amounts of orders

Sides == {"bid", "ask"}

VARIABLE queue    \* per side, the orders with their amounts
vars == queue

SideOf(amount) == IF amount < 0 THEN "ask" ELSE "bid"

Better(side, p, q) == IF side = "bid" THEN p > q ELSE p < q

Present(side, o) == \E i \in DOMAIN queue[side] : queue[side][i].id = o

Init == queue = [side \in Sides |-> <<>>]

\* A new order goes behind the k orders that are not worse.
Insert(o, amount) ==
  LET side == SideOf(amount)
      q == queue[side]
  IN /\ ~Present(side, o)
     /\ \E k \in 0..Len(q) :
          /\ \A i \in 1..Len(q) : i <= k <=> ~Better(side, Price[o], Price[q[i].id])
          /\ queue' = [queue EXCEPT ![side] =
                         InsertAt(q, k + 1, [id |-> o, amount |-> amount])]

\* An order changes its amount within its side, or leaves at zero.
Change(side, o, amount) ==
  \E i \in DOMAIN queue[side] :
    /\ queue[side][i].id = o
    /\ HasTheSameSign(amount, queue[side][i].amount)
    /\ queue' = [queue EXCEPT ![side] =
                   IF amount = 0 THEN RemoveAt(@, i)
                   ELSE [@ EXCEPT ![i] = [id |-> o, amount |-> amount]]]

Next ==
  \E o \in Orders, amount \in Lots :
    \/ amount # 0 /\ Insert(o, amount)
    \/ \E side \in Sides : Change(side, o, amount)

Spec == Init /\ [][Next]_vars
=============================================================================
