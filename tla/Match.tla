------------------------------- MODULE Match -------------------------------
(***************************************************************************)
(* The matching component of one perpetual (package match): the orders     *)
(* table, the in-memory order book, the expiration timers and the match    *)
(* transactions that carry matched orders to the chain and back.           *)
(*                                                                         *)
(* Every operation below runs under the mutex match.mu and in one          *)
(* database transaction, so it is one action. What interleaves is the      *)
(* order of the operations, the timer callback (which removes its timer    *)
(* before it takes the mutex), the order monitor (which computes the       *)
(* amounts to cancel without the mutex) and restarts of the process.       *)
(*                                                                         *)
(* A database transaction that fails is rolled back, but the changes its   *)
(* body already made to the order book stay. A result that the matcher     *)
(* committed may be lost by the launcher, whose own transaction encloses   *)
(* the matcher's, and is then applied again: UpdateOrdersStatus does not   *)
(* look whether the match has its result. The number of failures of both   *)
(* kinds is bounded by MaxFaults.                                          *)
(***************************************************************************)
EXTENDS Amounts, FiniteSets

CONSTANTS
  Orders,         \* order hashes
  Amount,         \* the signed amount of each order
  MinTrade,       \* OrderParam.MinTradeAmount of each order
  Trader,         \* the trader of each order
  CloseOnly,      \* the orders with OrderParam.IsCloseOnly
  MaxTxs,         \* bound on the number of match transactions
  MaxLot,         \* bound on the size of an order
  MaxOrderNum,    \* conf.MaxOrderNum
  MaxMatchGroup,  \* orders per match transaction (gas limit / gas per order)
  MaxFaults       \* bound on database failures
Lots == -MaxLot..MaxLot

\* Match transactions, numbered as they are created
Txs == 1..MaxTxs

ASSUME ConstantsAssumption ==
  /\ MaxLot \in Nat \ {0}
  /\ MaxTxs \in Nat
  /\ Amount \in [Orders -> Lots \ {0}]
  /\ MinTrade \in [Orders -> Lots \ {0}]
  /\ \A o \in Orders : Abs(MinTrade[o]) <= Abs(Amount[o])
  /\ DOMAIN Trader = Orders
  /\ CloseOnly \subseteq Orders
  /\ MaxOrderNum \in Nat
  /\ MaxMatchGroup \in Nat
  /\ MaxFaults \in Nat

VARIABLES
  order,      \* table orders: the row of each order
  book,       \* in-memory order book: the amount of each order, 0 if absent
  timer,      \* orders with an armed expiration timer
  expiring,   \* orders whose timer callback waits for the mutex
  toCancel,   \* cancellations the order monitor has computed, not applied
  matchTx,    \* table match_transactions
  lost,       \* matches whose result the launcher lost and will hand in again
  repeats,    \* number of results lost so far
  faults      \* number of database failures so far
vars == <<order, book, timer, expiring, toCancel, matchTx, lost, repeats, faults>>

OrderStatus == {"none", "pending", "canceled", "partial_filled", "full_filled"}

\* model.Order, the fields that change. Status "none": no such row.
Row == [available : Int, pending : Int, confirmed : Int, canceled : Int,
        status : OrderStatus]

NoRow == [available |-> 0, pending |-> 0, confirmed |-> 0, canceled |-> 0,
          status |-> "none"]

TransactionStatus == {"none", "INIT", "PENDING", "SUCCESS", "FAIL", "ABORT"}

\* model.MatchTransaction. MatchItems, SuccItems and FailedItems are maps
\* from order to amount; 0 means that the order is not in the list.
MatchTransaction ==
  [status : TransactionStatus, blockConfirmed : BOOLEAN,
   items : [Orders -> Int], succ : [Orders -> Int], failed : [Orders -> Int]]

\* model.OrderCancel, what the order monitor asks CancelOrder to do
OrderCancel == [hash : Orders, amount : Int]

Nothing == [o \in Orders |-> 0]

NoTx == [status |-> "none", blockConfirmed |-> FALSE,
         items |-> Nothing, succ |-> Nothing, failed |-> Nothing]

\* Order rows and match transactions are well formed after every operation of
\* the matcher, whether its database transaction commits or not.
TypeOK ==
  /\ order \in [Orders -> Row]
  /\ book \in [Orders -> Int]
  /\ timer \subseteq Orders
  /\ expiring \subseteq Orders
  /\ toCancel \subseteq OrderCancel
  /\ matchTx \in [Txs -> MatchTransaction]
  /\ lost \subseteq Txs
  /\ repeats \in Nat
  /\ faults \in Nat

Init ==
  /\ order = [o \in Orders |-> NoRow]
  /\ book = Nothing
  /\ timer = {}
  /\ expiring = {}
  /\ toCancel = {}
  /\ matchTx = [t \in Txs |-> NoTx]
  /\ lost = {}
  /\ repeats = 0
  /\ faults = 0

-----------------------------------------------------------------------------
(***************************************************************************)
(* Orders table (dao/order.go)                                             *)
(***************************************************************************)

Exists(o) == order[o].status # "none"

\* Bug: the amount on its way to the chain is forgotten.
StatusWithoutPending(o, r) ==
  IF r.confirmed = Amount[o] THEN "full_filled"
  ELSE IF r.canceled = Amount[o] THEN "canceled"
  ELSE IF Abs(r.available) > 0 THEN "pending"
  ELSE "partial_filled"

\* dbOrder.setStatusByAmounts: the status is a function of the amounts.
setStatusByAmounts(o, r) ==
  IF r.confirmed = Amount[o] THEN "full_filled"
  ELSE IF r.canceled = Amount[o] THEN "canceled"
  ELSE IF Abs(r.available + r.pending) > 0 THEN "pending"
  ELSE "partial_filled"

\* CreateOrder and UpdateOrder recompute the status of every row they save.
SaveOrder(o, r) == [r EXCEPT !.status = setStatusByAmounts(o, r)]

\* The row of o saved with its amounts changed by these differences.
UpdateOrder(o, available, pending, confirmed, canceled) ==
  SaveOrder(o, [available |-> order[o].available + available,
                pending   |-> order[o].pending + pending,
                confirmed |-> order[o].confirmed + confirmed,
                canceled  |-> order[o].canceled + canceled,
                status    |-> order[o].status])

\* QueryOrder(trader, "", 0, {OrderPending})
PendingOrders == {o \in Orders : order[o].status = "pending"}

PendingOrdersOf(u) == {o \in PendingOrders : Trader[o] = u}

-----------------------------------------------------------------------------
(***************************************************************************)
(* The order book as the matcher uses it (common/orderbook)                *)
(***************************************************************************)

\* Orderbook.GetOrder looks on the side of the order's signed amount.
InBook(o) == book[o] # 0 /\ HasTheSameSign(book[o], Amount[o])

\* priceLevel.ChangeOrder refuses a change that turns the sign around.
ChangeRefused(b, delta) == b + delta # 0 /\ ~HasTheSameSign(b + delta, b)

\* Bug: only orders that left the book are put back.
RollbackInsertOnly(o, old, new) == IF old = 0 THEN new ELSE book[o]

\* m.rollbackOrderbook(old, new - old): the book after the available amount
\* of o went from old to new. An order that had nothing available is
\* inserted, another one is looked up and changed.
rollbackOrderbook(o, old, new) ==
  IF new = old THEN book[o]
  ELSE IF old = 0 THEN new
  ELSE book[o] + (new - old)

\* Bug: orders that left the book are looked up instead of inserted.
RollbackNeverInserts(o, old, new) ==
  new # old /\ (~InBook(o) \/ ChangeRefused(book[o], new - old))

\* rollbackOrderbook returns an error: the order to insert is already there,
\* the order to change is not, or the change is refused.
RollbackRefused(o, old, new) ==
  /\ new # old
  /\ IF old = 0 THEN book[o] # 0
     ELSE ~InBook(o) \/ ChangeRefused(book[o], new - old)

-----------------------------------------------------------------------------
(***************************************************************************)
(* NewOrder: the checks against the chain (account, balance, pool, gas,    *)
(* margin) pass or the order is refused; what is left is the limit on      *)
(* active orders and the creation itself. A hash that exists is refused by *)
(* the unique index, one that is still in the book by InsertOrder.         *)
(***************************************************************************)

NewRow(o) == SaveOrder(o, [NoRow EXCEPT !.available = Amount[o]])

NewOrder(o) ==
  /\ Cardinality(PendingOrdersOf(Trader[o])) < MaxOrderNum
  /\ ~Exists(o)
  /\ book[o] = 0
  /\ order' = [order EXCEPT ![o] = NewRow(o)]
  /\ book' = [book EXCEPT ![o] = Amount[o]]
  /\ timer' = timer \cup {o}
  /\ UNCHANGED <<expiring, toCancel, matchTx, lost, repeats, faults>>

\* The commit of the transaction fails after InsertOrder.
NewOrderFails(o) ==
  /\ faults < MaxFaults
  /\ Cardinality(PendingOrdersOf(Trader[o])) < MaxOrderNum
  /\ ~Exists(o)
  /\ book[o] = 0
  /\ book' = [book EXCEPT ![o] = Amount[o]]
  /\ timer' = timer \cup {o}
  /\ faults' = faults + 1
  /\ UNCHANGED <<order, expiring, toCancel, matchTx, lost, repeats>>

-----------------------------------------------------------------------------
(***************************************************************************)
(* CancelOrder: by the user (all), on expiry (all), or by the order        *)
(* monitor (an amount it computed earlier).                                *)
(***************************************************************************)

\* What is taken out of the row. Without a book entry, when book and row
\* disagree, or when less than asked for is left, it is all that is left.
cancelDBAmount(o, all, amt) ==
  LET available == order[o].available
  IN IF \/ ~InBook(o)
        \/ all
        \/ available # book[o]
        \/ Abs(available) < Abs(amt)
     THEN available ELSE amt

\* What is taken out of the book.
cancelBookAmount(o, all, amt) ==
  IF ~InBook(o) THEN 0
  ELSE IF Abs(book[o]) < Abs(amt) THEN order[o].available
  ELSE IF all \/ order[o].available # book[o] THEN book[o]
  ELSE amt

\* model.CancelOrder
CanceledRow(o, amt) == UpdateOrder(o, -amt, 0, 0, amt)

\* model.CancelOrder returns an error.
CancelRefused(o, amt) ==
  /\ amt # 0
  /\ \/ ~HasTheSameSign(amt, Amount[o])
     \/ Abs(order[o].available) < Abs(amt)

\* The order does not exist, is closed already, or the book refuses.
CancelNothing(o, all, amt) ==
  /\ \/ ~Exists(o)
     \/ ~InBook(o) /\ order[o].available = 0
     \/ ChangeRefused(book[o], -cancelBookAmount(o, all, amt))
  /\ UNCHANGED <<order, book, timer, faults>>

CancelDone(o, all, amt) ==
  LET db == cancelDBAmount(o, all, amt)
      bk == cancelBookAmount(o, all, amt)
  IN /\ Exists(o)
     /\ InBook(o) \/ order[o].available # 0
     /\ ~ChangeRefused(book[o], -bk)
     /\ ~CancelRefused(o, db)
     /\ book' = [book EXCEPT ![o] = @ - bk]
     /\ order' = IF db = 0 THEN order
                 ELSE [order EXCEPT ![o] = CanceledRow(o, db)]
     /\ timer' = timer \ {o}
     /\ UNCHANGED faults

\* The book is changed, then model.CancelOrder refuses or the database
\* fails: the row keeps its amounts. The timer is gone if only the commit
\* failed.
CancelAborted(o, all, amt) ==
  LET db == cancelDBAmount(o, all, amt)
      bk == cancelBookAmount(o, all, amt)
  IN /\ Exists(o)
     /\ InBook(o) \/ order[o].available # 0
     /\ ~ChangeRefused(book[o], -bk)
     /\ book' = [book EXCEPT ![o] = @ - bk]
     /\ UNCHANGED order
     /\ \/ CancelRefused(o, db) /\ UNCHANGED <<timer, faults>>
        \/ /\ ~CancelRefused(o, db)
           /\ faults < MaxFaults
           /\ faults' = faults + 1
           /\ timer' \in {timer, timer \ {o}}

cancelOrderWithoutLock(o, all, amt) ==
  \/ CancelNothing(o, all, amt)
  \/ CancelDone(o, all, amt)
  \/ CancelAborted(o, all, amt)

\* Server.CancelOrder, called by the API for one order or for each of a
\* trader's pending orders.
CancelOrder(o) ==
  /\ cancelOrderWithoutLock(o, TRUE, 0)
  /\ UNCHANGED <<expiring, toCancel, matchTx, lost, repeats>>

\* The timer of o runs out: its callback removes it and asks for the mutex.
TimerFires(o) ==
  /\ o \in timer
  /\ timer' = timer \ {o}
  /\ expiring' = expiring \cup {o}
  /\ UNCHANGED <<order, book, toCancel, matchTx, lost, repeats, faults>>

\* Bug: the callback does not ask for all of the order to be canceled.
ExpiredPartly(o) ==
  /\ o \in expiring
  /\ cancelOrderWithoutLock(o, FALSE, 0)
  /\ expiring' = expiring \ {o}
  /\ UNCHANGED <<toCancel, matchTx, lost, repeats>>

\* The callback has the mutex and cancels what is left of the order.
onOrderExpired(o) ==
  /\ o \in expiring
  /\ cancelOrderWithoutLock(o, TRUE, 0)
  /\ expiring' = expiring \ {o}
  /\ UNCHANGED <<toCancel, matchTx, lost, repeats>>

\* What the order monitor may ask to cancel of a pending order: all of it
\* (broker changed, perpetual settled, margin too low), or, of a close-only
\* order, the part that exceeds the position.
ToCancel(o) ==
  LET available == order[o].available
  IN {available} \cup (IF o \in CloseOnly THEN UpTo(available) \ {0} ELSE {})

\* Server.checkUserPendingOrders, without the mutex: the amounts are those
\* of this moment.
checkUserPendingOrders(u) ==
  /\ toCancel = {}
  /\ \E S \in (SUBSET PendingOrdersOf(u)) \ {{}} :
       \E amt \in [S -> Lots] :
         /\ \A o \in S : amt[o] \in ToCancel(o)
         /\ toCancel' = {[hash |-> o, amount |-> amt[o]] : o \in S}
  /\ UNCHANGED <<order, book, timer, expiring, matchTx, lost, repeats, faults>>

\* The monitor applies one of the cancellations it computed.
checkPerpUserOrders(c) ==
  /\ c \in toCancel
  /\ cancelOrderWithoutLock(c.hash, FALSE, c.amount)
  /\ toCancel' = toCancel \ {c}
  /\ UNCHANGED <<expiring, matchTx, lost, repeats>>

-----------------------------------------------------------------------------
(***************************************************************************)
(* matchOrders: MatchOrderSideBySide chooses orders of the book and how    *)
(* much of each to trade against the AMM (prices, margins and trigger      *)
(* conditions decide which; any choice within the book and the group size  *)
(* is allowed here). What remains of an order below its minimum is         *)
(* canceled with the match.                                                *)
(***************************************************************************)

\* The orders of a match and the amounts matched; 0: not matched.
MatchItems ==
  {m \in [Orders -> Lots] :
     /\ m # Nothing
     /\ \A o \in Orders : m[o] \in UpTo(book[o])
     /\ Cardinality({o \in Orders : m[o] # 0}) <= MaxMatchGroup}

\* getMatchItem: OrderTotalCancel
OrderTotalCancel(o, m) ==
  LET remain == book[o] - m
  IN IF m # 0 /\ Abs(remain) < Abs(MinTrade[o]) THEN remain ELSE 0

\* The matched amount becomes pending, the remainder canceled.
MatchedRow(o, m) ==
  LET c == OrderTotalCancel(o, m)
  IN UpdateOrder(o, -(m + c), m, 0, c)

\* An order that has no row, or less available than is matched, makes the
\* whole match fail before the book is touched.
MatchRefused(o, m) ==
  /\ m # 0
  /\ \/ ~Exists(o)
     \/ ~HasTheSameSign(order[o].available - m, order[o].available)

BookAfterMatch(m) == [o \in Orders |-> book[o] - m[o] - OrderTotalCancel(o, m[o])]

\* The match transaction that matchOrders creates
NewTx(m) == [status |-> "INIT", blockConfirmed |-> FALSE,
             items |-> m, succ |-> Nothing, failed |-> Nothing]

matchOrders(t) ==
  /\ matchTx[t] = NoTx
  /\ \A s \in 1..(t - 1) : matchTx[s] # NoTx
  /\ PendingOrders # {}
  /\ \E m \in MatchItems :
       /\ \A o \in Orders : ~MatchRefused(o, m[o])
       /\ order' = [o \in Orders |-> IF m[o] = 0 THEN order[o]
                                     ELSE MatchedRow(o, m[o])]
       /\ matchTx' = [matchTx EXCEPT ![t] = NewTx(m)]
       /\ book' = BookAfterMatch(m)
  /\ UNCHANGED <<timer, expiring, toCancel, lost, repeats, faults>>

\* The commit fails after the book was changed.
matchOrdersFails ==
  /\ faults < MaxFaults
  /\ PendingOrders # {}
  /\ \E m \in MatchItems :
       /\ \A o \in Orders : ~MatchRefused(o, m[o])
       /\ book' = BookAfterMatch(m)
  /\ faults' = faults + 1
  /\ UNCHANGED <<order, timer, expiring, toCancel, matchTx, lost, repeats>>

\* The launcher picks the match up (Launcher.createLaunchTransaction).
createLaunchTransaction(t) ==
  /\ matchTx[t].status = "INIT"
  /\ matchTx' = [matchTx EXCEPT ![t].status = "PENDING"]
  /\ UNCHANGED <<order, book, timer, expiring, toCancel, lost, repeats, faults>>

-----------------------------------------------------------------------------
(***************************************************************************)
(* Results from the chain. new gives the rows of all orders after the      *)
(* operation; the book follows the change of the available amounts.        *)
(***************************************************************************)

Items(t) == {o \in Orders : matchTx[t].items[o] # 0}

Refused(new) ==
  {o \in Orders : RollbackRefused(o, order[o].available, new[o].available)}

\* All orders are updated, the transaction commits.
CommitRows(new) ==
  /\ Refused(new) = {}
  /\ order' = new
  /\ book' = [o \in Orders |->
                rollbackOrderbook(o, order[o].available, new[o].available)]
  /\ UNCHANGED faults

\* The loop over the orders ends with an error of the book or of the
\* database: the rows are as before, the book has followed the orders that
\* were already done.
AbortRows(new) ==
  /\ \E done \in SUBSET (Orders \ Refused(new)) :
       book' = [o \in Orders |->
                  IF o \in done
                  THEN rollbackOrderbook(o, order[o].available, new[o].available)
                  ELSE book[o]]
  /\ UNCHANGED <<order, matchTx>>
  /\ \/ Refused(new) # {} /\ UNCHANGED faults
     \/ faults < MaxFaults /\ faults' = faults + 1

\* Bug: after a partial success only the traded part stops being pending.
SettledRowKeepsPending(o, m, s, f) ==
  IF s # 0 THEN UpdateOrder(o, m - s, -s, s, 0)
  ELSE IF f # 0 THEN UpdateOrder(o, 0, -f, 0, f)
  ELSE UpdateOrder(o, m, -m, 0, 0)

\* Bug: what the chain left of a match does not go back to the order.
SettledRowLosesRest(o, m, s, f) ==
  IF s # 0 THEN UpdateOrder(o, 0, -m, s, 0)
  ELSE IF f # 0 THEN UpdateOrder(o, 0, -f, 0, f)
  ELSE UpdateOrder(o, m, -m, 0, 0)

\* updateOrdersByTradeEvent for one order: m was matched, s was traded, f
\* failed on the chain for good. If neither, m goes back to the book.
SettledRow(o, m, s, f) ==
  IF s # 0 THEN UpdateOrder(o, m - s, -m, s, 0)
  ELSE IF f # 0 THEN UpdateOrder(o, 0, -f, 0, f)
  ELSE UpdateOrder(o, m, -m, 0, 0)

\* The events are appended to the lists of the match transaction.
Appended(list, events) ==
  [o \in Orders |-> IF events[o] # 0 THEN events[o] ELSE list[o]]

\* UpdateOrdersStatus(t, status, successEvents, failedEvents). Whether t has
\* its result already is not checked.
UpdateOrdersStatus(t, status, succ, failed) ==
  LET tx == matchTx[t]
      new == [o \in Orders |->
                IF o \notin Items(t) THEN order[o]
                ELSE SettledRow(o, tx.items[o], succ[o], failed[o])]
  IN /\ \/ /\ CommitRows(new)
           /\ matchTx' = [matchTx EXCEPT ![t] =
                [status |-> status, blockConfirmed |-> TRUE, items |-> tx.items,
                 succ   |-> Appended(tx.succ, succ),
                 failed |-> Appended(tx.failed, failed)]]
           /\ lost' = lost \ {t}
        \/ AbortRows(new) /\ UNCHANGED lost
     /\ UNCHANGED <<timer, expiring, toCancel, repeats>>

\* Bug: a trade that reappears is booked even if the order has since been
\* used otherwise.
RolledBackUnchecked(o, sb, fb, s, f) ==
  LET r == order[o]
      Result(row, succ, failed) == [row |-> row, succ |-> succ, failed |-> failed]
  IN IF s # 0 /\ sb = 0
     THEN Result(UpdateOrder(o, -s, 0, s, 0), s, 0)
     ELSE Result(r, sb, fb)

\* rollbackOrdersByTradeEvent for one order: sb and fb are what the last
\* settlement recorded, s and f what the chain says now. The result is the
\* new row and the new records.
RolledBack(o, sb, fb, s, f) ==
  LET r == order[o]
      Result(row, succ, failed) == [row |-> row, succ |-> succ, failed |-> failed]
      enough(a) == Abs(r.available) >= Abs(a)
  IN CASE sb # 0 /\ s # 0 -> Result(r, sb, 0)
       [] sb # 0 /\ s = 0 /\ f # 0 -> Result(UpdateOrder(o, 0, 0, -sb, sb), 0, sb)
       [] sb # 0 /\ s = 0 /\ f = 0 -> Result(UpdateOrder(o, sb, 0, -sb, 0), 0, 0)
       [] sb = 0 /\ fb # 0 /\ s # 0 -> Result(UpdateOrder(o, 0, 0, fb, -fb), fb, 0)
       [] sb = 0 /\ fb # 0 /\ s = 0 /\ f # 0 -> Result(r, 0, fb)
       [] sb = 0 /\ fb # 0 /\ s = 0 /\ f = 0 -> Result(UpdateOrder(o, fb, 0, 0, -fb), 0, 0)
       [] sb = 0 /\ fb = 0 /\ s # 0 /\ enough(s) -> Result(UpdateOrder(o, -s, 0, s, 0), s, 0)
       [] sb = 0 /\ fb = 0 /\ s = 0 /\ f # 0 /\ enough(f) -> Result(UpdateOrder(o, -f, 0, 0, f), 0, f)
       [] OTHER -> Result(r, 0, 0)

\* RollbackOrdersStatus(t, status, successEvents, failedEvents)
RollbackOrdersStatus(t, status, succ, failed) ==
  LET tx == matchTx[t]
      res == [o \in Orders |->
                IF o \notin Items(t)
                THEN [row |-> order[o], succ |-> 0, failed |-> 0]
                ELSE RolledBack(o, tx.succ[o], tx.failed[o], succ[o], failed[o])]
      new == [o \in Orders |-> res[o].row]
  IN /\ \/ /\ CommitRows(new)
           /\ matchTx' = [matchTx EXCEPT ![t] =
                [status |-> status, blockConfirmed |-> tx.blockConfirmed,
                 items  |-> tx.items,
                 succ   |-> [o \in Orders |-> res[o].succ],
                 failed |-> [o \in Orders |-> res[o].failed]]]
        \/ AbortRows(new)
     /\ UNCHANGED <<timer, expiring, toCancel, lost, repeats>>

-----------------------------------------------------------------------------
(***************************************************************************)
(* The chain and the launcher, as far as the matcher sees them. For each   *)
(* matched order of a successful transaction the broker contract emits a   *)
(* TradeSuccess event with the amount it traded, or a TradeFailed event    *)
(* with the amount it was asked to trade; those that fail for the price or *)
(* the trigger price are ignored by the matcher. A reverted or missing     *)
(* transaction has no events.                                              *)
(***************************************************************************)

Fills(t) ==
  {s \in [Orders -> Lots] : \A o \in Orders : s[o] \in UpTo(matchTx[t].items[o])}

\* Success events that leave out the orders in F, and failures for F
SuccessEvents(s, F) == [o \in Orders |-> IF o \in F THEN 0 ELSE s[o]]

FailedEvents(t, F) == [o \in Orders |-> IF o \in F THEN matchTx[t].items[o] ELSE 0]

\* The launcher still has a pending row of t: t has no result, or its result
\* was lost.
HandsIn(t) == matchTx[t].status = "PENDING" \/ t \in lost

\* The syncer found the receipt of t.
Settle(t) ==
  /\ HandsIn(t)
  /\ \/ \E s \in Fills(t), F \in SUBSET Items(t) :
          UpdateOrdersStatus(t, "SUCCESS", SuccessEvents(s, F), FailedEvents(t, F))
     \/ UpdateOrdersStatus(t, "FAIL", Nothing, Nothing)

\* Bug: the status of the launch transaction is handed on as it is.
AbortUnconverted(t) ==
  /\ HandsIn(t)
  /\ UpdateOrdersStatus(t, "TxCanceled", Nothing, Nothing)

\* The executor gave t up (Executor.reset).
Abort(t) ==
  /\ HandsIn(t)
  /\ UpdateOrdersStatus(t, "ABORT", Nothing, Nothing)

\* The result of t is committed by the matcher, then the launcher's
\* transaction around it fails (Syncer.updateStatusByUser, Executor.reset),
\* or the record of a send is lost and the match is sent once more: the
\* launcher does not know of the result.
ResultLost(t) ==
  /\ matchTx[t].blockConfirmed
  /\ faults < MaxFaults
  /\ lost' = lost \cup {t}
  /\ repeats' = repeats + 1
  /\ faults' = faults + 1
  /\ UNCHANGED <<order, book, timer, expiring, toCancel, matchTx>>

\* The launcher's monitor looks a settled transaction up again; after a
\* reorganization of the chain the receipt may be another one, or gone.
Recheck(t) ==
  /\ matchTx[t].status \in {"SUCCESS", "FAIL"}
  /\ \/ \E s \in Fills(t), F \in SUBSET Items(t) :
          RollbackOrdersStatus(t, "SUCCESS", SuccessEvents(s, F), FailedEvents(t, F))
     \/ RollbackOrdersStatus(t, "FAIL", Nothing, Nothing)

-----------------------------------------------------------------------------

\* Bug: what is on its way to the chain is put back into the book as well.
ReloadPending ==
  /\ book' = [o \in Orders |-> IF o \in PendingOrders
                               THEN order[o].available + order[o].pending ELSE 0]
  /\ timer' = PendingOrders
  /\ expiring' = {}
  /\ toCancel' = {}
  /\ UNCHANGED <<order, matchTx, lost, repeats, faults>>

\* The process stops at any moment between two operations and starts again:
\* newMatch builds the book and the timers from the pending orders.
reloadActiveOrders ==
  LET active == {o \in PendingOrders : order[o].available # 0}
  IN /\ book' = [o \in Orders |-> IF o \in active THEN order[o].available ELSE 0]
     /\ timer' = active
     /\ expiring' = {}
     /\ toCancel' = {}
     /\ UNCHANGED <<order, matchTx, lost, repeats, faults>>

Next ==
  \/ \E o \in Orders : \/ NewOrder(o) \/ NewOrderFails(o)
                       \/ CancelOrder(o)
                       \/ TimerFires(o) \/ onOrderExpired(o)
  \/ \E u \in {Trader[o] : o \in Orders} : checkUserPendingOrders(u)
  \/ \E c \in toCancel : checkPerpUserOrders(c)
  \/ \E t \in Txs : \/ matchOrders(t)
                    \/ createLaunchTransaction(t)
                    \/ Settle(t) \/ Abort(t) \/ Recheck(t)
                    \/ ResultLost(t)
  \/ matchOrdersFails
  \/ reloadActiveOrders

Spec == Init /\ [][Next]_vars

-----------------------------------------------------------------------------
(***************************************************************************)
(* Properties                                                              *)
(***************************************************************************)

\* What an order was placed for is, at every moment, split into what is
\* available, pending, confirmed and canceled: no operation on the row
\* (match, settlement, rollback, cancellation) creates or loses an amount,
\* even when a database transaction fails half way or a result is applied to
\* a match a second time.
Conservation ==
  \A o \in Orders : Exists(o) =>
    LET r == order[o]
    IN r.available + r.pending + r.confirmed + r.canceled = Amount[o]

\* As long as no database transaction (of the matcher or of the launcher
\* around it) failed, the book in memory holds
\* exactly what the orders table says is available, through matches,
\* settlements, reorganizations, late cancellations and restarts.
BookMatchesDB ==
  faults = 0 => \A o \in Orders : book[o] = order[o].available

\* No part of an order has the wrong sign or exceeds the order: an order is
\* never matched, confirmed or canceled for more than it was placed for, as
\* long as no database transaction, of the matcher or around it, failed.
PartsWithinOrder ==
  faults = 0 =>
    \A o \in Orders :
      LET r == order[o]
      IN /\ PartOf(r.available, Amount[o]) /\ PartOf(r.pending, Amount[o])
         /\ PartOf(r.confirmed, Amount[o]) /\ PartOf(r.canceled, Amount[o])

\* Several transactions may carry parts of one order at the same time. As
\* long as the launcher lost no result, the pending amount of the order is
\* the sum of those that are not settled and its confirmed amount the sum of
\* the recorded successes, even if transactions of the matcher fail; if none
\* of those failed either, its canceled amount covers the recorded failures.
\* (A result that is handed in again is subtracted from pending again:
\* UpdateOrdersStatus does not look at the status of the match.)
InFlight(o) ==
  Total([t \in Txs |-> IF matchTx[t].blockConfirmed THEN 0
                       ELSE matchTx[t].items[o]], MaxTxs)

Succeeded(o) == Total([t \in Txs |-> matchTx[t].succ[o]], MaxTxs)

FailedOnChain(o) == Total([t \in Txs |-> matchTx[t].failed[o]], MaxTxs)

PendingIsInFlight ==
  repeats = 0 =>
    \A o \in Orders :
      /\ order[o].pending = InFlight(o)
      /\ order[o].confirmed = Succeeded(o)
      /\ faults = 0 => PartOf(FailedOnChain(o), order[o].canceled)

\* The status column, by which restarts, the matcher and the monitor find
\* orders, tells the truth about the amounts: an order is pending exactly
\* when something of it is available or on its way to the chain.
StatusTellsAmounts ==
  faults = 0 =>
    \A o \in Orders :
      Exists(o) => (order[o].status = "pending" <=>
                      order[o].available # 0 \/ order[o].pending # 0)

\* Whatever the chain reports of a transaction in flight can be applied: the
\* book never refuses the orders that come back (rollbackOrderbook has no
\* error), otherwise the orders of the transaction would stay pending.
SettlementApplies ==
  faults = 0 =>
    \A t \in Txs : ~matchTx[t].blockConfirmed =>
      \A s \in Fills(t) :
        Refused([o \in Orders |->
                   IF o \in Items(t) THEN SettledRow(o, matchTx[t].items[o], s[o], 0)
                   ELSE order[o]]) = {}

\* A closed order stays as it is, whatever cancellations and settlements
\* still arrive for it; only a reorganization of the chain reopens it. (A
\* commit that fails may lose the closing itself.)
ClosedStaysClosed ==
  [][\A o \in Orders :
       faults' = 0 /\ order[o].status \in {"canceled", "partial_filled", "full_filled"} =>
         \/ order'[o] = order[o]
         \/ \E t \in Txs : matchTx[t].blockConfirmed /\ Recheck(t)]_vars

\* A restart is invisible to the traders: the book reloaded from the orders
\* table is the book that was in memory.
RestartKeepsBook == [][reloadActiveOrders /\ faults = 0 => book' = book]_vars

\* When the expiration callback of an order has run, nothing of the order
\* can be matched any more, in the book or in the table.
ExpiryClosesOrder ==
  [][\A o \in Orders : faults' = 0 /\ o \in expiring /\ onOrderExpired(o)
                         => book'[o] = 0 /\ order'[o].available = 0]_vars

\* match.go refuses a match that would leave less than nothing available
\* ("avaliable is negative after match"): the available amount of an order
\* never turns its sign around.
NeverOverdrawn == \A o \in Orders : HasTheSameSign(order[o].available, Amount[o])

=============================================================================
