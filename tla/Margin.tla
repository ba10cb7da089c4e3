------------------------------- MODULE Margin -------------------------------
(***************************************************************************)
(* The margin side of the orders of one trader in one perpetual: NewOrder  *)
(* admits an order when the wallet covers all orders of its side, the      *)
(* matcher picks amounts it computes to be safe, the chain executes them,  *)
(* the order monitor cancels what the wallet no longer covers.  The mark   *)
(* price stands still.  The matcher's book, its rows and the race between  *)
(* its steps are in Match.                                                 *)
(***************************************************************************)
EXTENDS Trade, Sequences, SequencesExt

CONSTANTS Accounts,   \* what the chain says of the trader at the start
          Menu,       \* the orders the trader may place: price, amount
          Prices,     \* the prices of the AMM
          MaxOrders   \* bound: orders placed

\* A wallet holds no negative amount of collateral.
ASSUME MarginAssumption ==
    /\ Accounts \subseteq Account
    /\ \A a \in Accounts : a.wallet >= 0
    /\ Menu \subseteq [price : Nat, amount : Int]
    /\ Prices \subseteq Nat

VARIABLES account, orders

vars == <<account, orders>>

\* An order: what is available in its row, what is matched and on its way,
\* and what the chain executed while the row still says pending.
Order == [price : Nat, amount : Int, available : Int, pending : Int, executed : Int]

Init ==
    /\ account \in Accounts
    /\ orders = <<>>

-----------------------------------------------------------------------------
(* ComputeOrderAvailable. *)

\* The orders of one side, the best price first; check is CheckAmount.
splitActiveOrders(os, isBuy) ==
    LET side == SelectSeq(os, LAMBDA o : IF isBuy THEN o.check > 0 ELSE o.check < 0)
    IN SortSeq(side, LAMBDA o, q : IF isBuy THEN o.price > q.price ELSE o.price < q.price)

PotentialLoss(price, amount) == MinOf(0, (MarkPrice - price) * amount)

\* The margin after closing, before anything is withdrawn.
CloseMargin(r, o, close) ==
    LET new == r.position + close
        after == r.margin + PotentialLoss(o.price, close)
        fee == RateOf(o.price * Abs(close), FeeRate)
        need == PositionMargin(new) + ReservedCash(new)
    IN after - IF close = o.check THEN MinOf(fee, MaxOf(0, after - need)) ELSE fee

\* What closing frees, when the margin stays above the initial margin.
Withdraw(r, close, after) ==
    LET new == r.position + close
        kept == Div((Abs(r.position) - Abs(close)) * (r.margin - KeeperGasReward), Abs(r.position))
    IN IF after >= PositionMargin(new) + ReservedCash(new)
       THEN MaxOf(0, after - kept - ReservedCash(new))
       ELSE 0

\* One order against the rest r of the position: it closes, and what does not
\* close is left to open.
CloseOrder(r, o) ==
    LET close == SplitAmount(r.position, o.check).close
        after == CloseMargin(r, o, close)
        withdraw == Withdraw(r, close, after)
        rest == IF o.check = close THEN <<>> ELSE <<[o EXCEPT !.check = @ - close]>>
    IN IF close = 0 THEN [r EXCEPT !.rest = Append(@, o)]
       ELSE IF after < 0 THEN [r EXCEPT !.position = 0, !.margin = 0, !.rest = Append(@, o)]
       ELSE [position |-> r.position + close, margin |-> after - withdraw,
             wallet |-> r.wallet + withdraw, rest |-> r.rest \o rest,
             cancels |-> r.cancels]

openOrderCost(o, leverage) ==
    LET at == IF o.check < 0 THEN MaxOf(o.price, MarkPrice) ELSE o.price
    IN Div(at * Abs(o.check), leverage) + RateOf(o.price * Abs(o.check), FeeRate)
         - PotentialLoss(o.price, o.check)

OpenOrder(r, o, leverage) ==
    LET new == r.position + o.check
        after == r.margin + PotentialLoss(o.price, o.check)
                    - RateOf(o.price * Abs(o.check), FeeRate)
        cost == MaxOf(PositionMargin(new) + KeeperGasReward - after,
                      openOrderCost(o, leverage)
                        + IF r.position = 0 THEN KeeperGasReward ELSE 0)
    IN [r EXCEPT !.position = new, !.margin = after + cost, !.wallet = @ - cost,
                 !.cancels = IF r.wallet < cost THEN @ + 1 ELSE @]

\* The wallet after all orders of a side, and how many orders it does not
\* cover.
sideAvailable(a, os) ==
    LET start == [position |-> a.position, margin |-> MarginBalance(a),
                  wallet |-> a.wallet, rest |-> <<>>, cancels |-> 0]
        closed == FoldLeft(CloseOrder, start, os)
        flat == IF closed.position = 0
                THEN [closed EXCEPT !.wallet = @ + closed.margin, !.margin = 0]
                ELSE closed
    IN IF os = <<>> THEN start
       ELSE FoldLeft(LAMBDA r, o : OpenOrder(r, o, a.leverage), flat, closed.rest)

ComputeOrderAvailable(a, os) ==
    LET buy == sideAvailable(a, splitActiveOrders(os, TRUE))
        sell == sideAvailable(a, splitActiveOrders(os, FALSE))
    IN [cancels |-> buy.cancels + sell.cancels, available |-> MinOf(buy.wallet, sell.wallet)]

-----------------------------------------------------------------------------

\* Bug: what is on its way is not counted.
NotOnItsWay(o) == o.available + o.executed

Whole(o) == o.available + o.pending + o.executed

\* NewOrder counts what is on its way as well.
Admits(os) ==
    LET checked == [i \in DOMAIN os |-> [price |-> os[i].price, check |-> Whole(os[i])]]
    IN ComputeOrderAvailable(account, checked).available >= 0

NewOrder(m) ==
    LET o == [price |-> m.price, amount |-> m.amount, available |-> m.amount,
              pending |-> 0, executed |-> 0] IN
    /\ Len(orders) < MaxOrders
    /\ Admits(Append(orders, o))
    /\ orders' = Append(orders, o)
    /\ UNCHANGED account

\* The AMM's price is at least as good as the order's.
AsGood(price, o) == (price - o.price) * o.amount <= 0

\* The amounts getMatchItem may settle on.  The first try is computed on the
\* account itself, and it also fails, when safe, at the limit on the open
\* interest: a second try for less starts from what the first left of account
\* and pool, at another price.  A first try the AMM has no price for leaves the
\* account as it was.
getMatchItem(price, amount) ==
    LET first == ComputeTradeWithPrice(account, price, amount)
    IN {n \in UpTo(amount) \ {0} :
           \/ n = amount /\ first.answer = "safe"
           \/ \E left \in {account, first.account}, second \in Prices :
                 ComputeTradeWithPrice(left, second, n).answer = "safe"}

Match(i) ==
    \E price \in Prices, amount \in UpTo(orders[i].available) \ {0} :
        /\ AsGood(price, orders[i])
        /\ \E n \in getMatchItem(price, amount) :
               orders' = [orders EXCEPT ![i].available = @ - n, ![i].pending = @ + n]
        /\ UNCHANGED account

\* The transaction on the chain, external: a trade that is not safe reverts.
Execute(i) ==
    \E price \in Prices, n \in UpTo(orders[i].pending) \ {0} :
        LET t == ComputeTradeWithPrice(account, price, n) IN
        /\ AsGood(price, orders[i])
        /\ t.answer = "safe"
        /\ account' = t.account
        /\ orders' = [orders EXCEPT ![i].pending = @ - n, ![i].executed = @ + n]

\* UpdateOrdersStatus: the executed part leaves the row.
Settle(i) ==
    /\ orders[i].executed # 0
    /\ orders' = [orders EXCEPT ![i].executed = 0]
    /\ UNCHANGED account

\* A failed transaction, or one given up: its part goes back to the book.
Rollback(i) ==
    /\ orders[i].pending # 0
    /\ orders' = [orders EXCEPT ![i].available = @ + orders[i].pending, ![i].pending = 0]
    /\ UNCHANGED account

\* The order is canceled by its owner or by its timer.
Cancel(i) ==
    /\ orders[i].available # 0
    /\ orders' = [orders EXCEPT ![i].available = 0]
    /\ UNCHANGED account

Next ==
    \/ \E m \in Menu : NewOrder(m)
    \/ \E i \in DOMAIN orders : Match(i) \/ Execute(i) \/ Settle(i) \/ Rollback(i) \/ Cancel(i)

Spec == Init /\ [][Next]_vars

-----------------------------------------------------------------------------

\* The parts of an order add up to no more than the order, whatever is
\* matched, executed, settled, given up and canceled.
TypeOK ==
    /\ account \in Account
    /\ orders \in Seq(Order)
    /\ \A i \in DOMAIN orders :
           LET o == orders[i] IN
           /\ PartOf(o.available, o.amount) /\ PartOf(o.pending, o.amount)
           /\ PartOf(o.executed, o.amount) /\ PartOf(Whole(o), o.amount)

\* checkUserPendingOrders: "pending amount set to zero for monitor".
MonitorCancels ==
    LET checked == [i \in DOMAIN orders |->
                      [price |-> orders[i].price, check |-> orders[i].available]]
    IN ComputeOrderAvailable(account, checked).cancels

\* What a lot costs at the limit, fee included, is within its initial margin.
Bearable(o) ==
    RateOf(o.price * Abs(o.amount), FeeRate) - PotentialLoss(o.price, o.amount)
        <= PositionMargin(o.amount)

Better(o, q) == IF o.amount > 0 THEN o.price > q.price ELSE o.price < q.price

\* No order's price is worse for the trader than the mark price; or the orders
\* are of one side, are served best price first, and the initial margin can
\* bear what they lose.
Calm ==
    \/ \A i \in DOMAIN orders : PotentialLoss(orders[i].price, orders[i].amount) = 0
    \/ \A i, j \in DOMAIN orders :
          /\ HasTheSameSign(orders[i].amount, orders[j].amount)
          /\ Bearable(orders[i])
          /\ Better(orders[j], orders[i]) /\ orders[j].available + orders[j].pending # 0
                => orders[i].available + orders[i].pending = orders[i].amount

\* What NewOrder admitted stays covered: whatever part of the orders is
\* matched, executed at the limit or better, settled or canceled, the monitor
\* has nothing to cancel while the mark price stands still.  Only while Calm:
\* of orders at prices worse than the mark price the monitor may cancel some
\* that NewOrder admitted, when they are of both sides, lose more than the
\* initial margin bears, or one is served before a better one.
MonitorKeepsOrders == Calm => MonitorCancels = 0

\* An amount on its way never fails for want of collateral in the wallet, in
\* whatever order the chain executes; only while Calm, as above.
WalletSuffices ==
    Calm => \A i \in DOMAIN orders :
        orders[i].pending # 0 =>
            \A price \in {p \in Prices : AsGood(p, orders[i])} :
                ComputeTradeWithPrice(account, price, orders[i].pending).answer # "wallet"

=============================================================================
