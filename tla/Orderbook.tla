----------------------------- MODULE Orderbook -----------------------------
(***************************************************************************)
(* The order book (package common/orderbook): per side a tree of price     *)
(* levels and, next to it, a map of the prices in use, from which the      *)
(* matcher takes its list of prices. A level is a map of orders that keeps *)
(* their order of insertion, and the total of their amounts. All calls are *)
(* made under book.lock and none of them leaves in the middle, so each is  *)
(* one action. Orders refer to their level by their price, which is fixed. *)
(***************************************************************************)
EXTENDS Integers, SequencesExt, Amounts

CONSTANTS
  Orders,   \* order ids
  Price,    \* MemoryOrder.Price
  MaxLot    \* bound on the size of an order

ASSUME ConstantsAssumption ==
  /\ Price \in [Orders -> Int]
  /\ MaxLot \in Nat \ {0}

Lots == -MaxLot..MaxLot
Sides == {"bid", "ask"}
Prices == {Price[o] : o \in Orders}

VARIABLES
  amount,   \* MemoryOrder.Amount of each order of each side; 0: not there
  level,    \* the price levels: the ids in order of insertion, and the total
  tree,     \* bidsTree, asksTree: the prices that have a level
  prices    \* bidPrices, askPrices
vars == <<amount, level, tree, prices>>

Level == [ids : Seq(Orders), totalAmount : Int]

newPriceLevel == [ids |-> <<>>, totalAmount |-> 0]

\* Trees, price maps and levels are well formed, and an order of the book never
\* holds more than was inserted, whatever is inserted, changed and removed.
TypeOK ==
  /\ amount \in [Sides -> [Orders -> Lots]]
  /\ level \in [Sides -> [Prices -> Level]]
  /\ tree \in [Sides -> SUBSET Prices]
  /\ prices \in [Sides -> SUBSET Prices]

Init ==
  /\ amount = [side \in Sides |-> [o \in Orders |-> 0]]
  /\ level = [side \in Sides |-> [p \in Prices |-> newPriceLevel]]
  /\ tree = [side \in Sides |-> {}]
  /\ prices = [side \in Sides |-> {}]

\* order.Amount.IsNegative()
SideOf(a) == IF a < 0 THEN "ask" ELSE "bid"

\* orderMap.Get(id): the level exists and holds the order.
GetOrder(side, o) ==
  Price[o] \in tree[side] /\ Contains(level[side][Price[o]].ids, o)

\* Orderbook.InsertOrder. An order that is there already is refused.
InsertOrder(o, a) ==
  LET side == SideOf(a)
      p == Price[o]
      l == IF p \in tree[side] THEN level[side][p] ELSE newPriceLevel
  IN /\ ~GetOrder(side, o)
     /\ amount' = [amount EXCEPT ![side][o] = a]
     /\ level' = [level EXCEPT ![side][p] = [ids |-> Append(l.ids, o),
                                             totalAmount |-> l.totalAmount + a]]
     /\ tree' = [tree EXCEPT ![side] = @ \cup {p}]
     /\ prices' = [prices EXCEPT ![side] = @ \cup {p}]

\* Bug: the price of an empty level stays in the map of prices.
SaveLevelKeepsPrice(side, o, ids, delta) ==
  LET p == Price[o]
      gone == IF ids = <<>> THEN {p} ELSE {}
  IN /\ level' = [level EXCEPT ![side][p] =
                    [ids |-> ids, totalAmount |-> @.totalAmount + delta]]
     /\ tree' = [tree EXCEPT ![side] = @ \ gone]
     /\ UNCHANGED prices

\* The level of o after the order left it or changed by delta. An empty
\* level leaves the tree and the map of prices.
SaveLevel(side, o, ids, delta) ==
  LET p == Price[o]
      gone == IF ids = <<>> THEN {p} ELSE {}
  IN /\ level' = [level EXCEPT ![side][p] =
                    [ids |-> ids, totalAmount |-> @.totalAmount + delta]]
     /\ tree' = [tree EXCEPT ![side] = @ \ gone]
     /\ prices' = [prices EXCEPT ![side] = @ \ gone]

\* Orderbook.RemoveOrder
RemoveOrder(side, o) ==
  /\ GetOrder(side, o)
  /\ amount' = [amount EXCEPT ![side][o] = 0]
  /\ SaveLevel(side, o, RemoveFirst(level[side][Price[o]].ids, o), -amount[side][o])

\* Bug: an order that changes goes to the end of its level.
ChangeOrderRequeues(side, o, delta) ==
  LET new == amount[side][o] + delta
      ids == RemoveFirst(level[side][Price[o]].ids, o)
  IN /\ GetOrder(side, o)
     /\ new = 0 \/ HasTheSameSign(new, amount[side][o])
     /\ new \in Lots
     /\ amount' = [amount EXCEPT ![side][o] = new]
     /\ SaveLevel(side, o, IF new = 0 THEN ids ELSE Append(ids, o), delta)

\* Orderbook.ChangeOrder of the order found on this side. A change that
\* turns the sign around is refused; at zero the order is removed.
ChangeOrder(side, o, delta) ==
  LET new == amount[side][o] + delta
      ids == level[side][Price[o]].ids
  IN /\ GetOrder(side, o)
     /\ new = 0 \/ HasTheSameSign(new, amount[side][o])
     /\ new \in Lots
     /\ amount' = [amount EXCEPT ![side][o] = new]
     /\ SaveLevel(side, o, IF new = 0 THEN RemoveFirst(ids, o) ELSE ids, delta)

Next ==
  \E o \in Orders :
    \/ \E a \in Lots \ {0} : InsertOrder(o, a)
    \/ \E side \in Sides :
         \/ RemoveOrder(side, o)
         \/ \E delta \in Lots \ {0} : ChangeOrder(side, o, delta)

Spec == Init /\ [][Next]_vars

-----------------------------------------------------------------------------
(***************************************************************************)
(* What the matcher reads                                                  *)
(***************************************************************************)

\* GetBidPricesDesc, GetAskPricesAsc
GetPrices(side) ==
  CHOOSE s \in SetToSeqs(prices[side]) :
    IsSorted(s, LAMBDA p, q : IF side = "bid" THEN p > q ELSE p < q)

\* GetBidOrdersByPrice, GetAskOrdersByPrice
GetOrdersByPrice(side, p) ==
  IF p \notin tree[side] THEN <<>>
  ELSE LET ids == level[side][p].ids
       IN [i \in DOMAIN ids |-> [id |-> ids[i], amount |-> amount[side][ids[i]]]]

\* MaxBid and MinAsk look at the tree.
Best(side) ==
  CHOOSE p \in tree[side] :
    \A q \in tree[side] : IF side = "bid" THEN p >= q ELSE p <= q

\* The orders of a side as MatchOrderSideBySide comes by them: price after
\* price, and of each price all orders
Walk(side) ==
  LET ps == GetPrices(side)
  IN FlattenSeq([i \in DOMAIN ps |-> GetOrdersByPrice(side, ps[i])])

-----------------------------------------------------------------------------
(***************************************************************************)
(* Properties                                                              *)
(***************************************************************************)

\* The map of prices agrees with the tree, and no level in it is empty:
\* the matcher walks over every order, and the best price by the tree
\* (MaxBid, MinAsk) is the first price of the list.
PricesAgree ==
  \A side \in Sides :
    /\ prices[side] = tree[side]
    /\ \A p \in tree[side] : GetOrdersByPrice(side, p) # <<>>
    /\ tree[side] # {} => Head(GetPrices(side)) = Best(side)

Abstract == INSTANCE PriorityBook WITH queue <- [side \in Sides |-> Walk(side)]

\* The walk of the matcher over the book is a queue by price and time: the
\* book implements PriorityBook.
AbstractSpec == Abstract!Spec
=============================================================================
