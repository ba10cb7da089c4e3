--------------------------- MODULE Margin_proofs ---------------------------
(***************************************************************************)
(* What ComputeTradeWithPrice answers and what it leaves of an account,    *)
(* for all accounts, prices and amounts, and what follows for the orders   *)
(* of a trader.                                                            *)
(***************************************************************************)
EXTENDS Margin, TLAPS

-----------------------------------------------------------------------------
(***************************************************************************)
(* The arithmetic of a trade                                               *)
(***************************************************************************)

LEMMA DivType ==
  ASSUME NEW x \in Int, NEW y \in Int, y # 0
  PROVE  Div(x, y) \in Int
BY DEF Div

LEMMA RateType ==
  ASSUME NEW x \in Int, NEW rate \in Int
  PROVE  RateOf(x, rate) \in Int
<1>1. x * rate \in Int /\ RateBase \in Int /\ RateBase # 0
  BY TradeAssumption
<1> QED
  BY <1>1, DivType DEF RateOf

LEMMA MinMax ==
  ASSUME NEW x \in Int, NEW y \in Int
  PROVE  /\ MinOf(x, y) \in Int /\ MinOf(x, y) <= x /\ MinOf(x, y) <= y
         /\ MinOf(x, y) = x \/ MinOf(x, y) = y
         /\ MaxOf(x, y) \in Int /\ MaxOf(x, y) >= x /\ MaxOf(x, y) >= y
         /\ MaxOf(x, y) = x \/ MaxOf(x, y) = y
BY DEF MinOf, MaxOf

LEMMA AbsType ==
  ASSUME NEW x \in Int
  PROVE  Abs(x) \in Int /\ Abs(x) >= 0
BY DEF Abs

LEMMA MarginTypes ==
  ASSUME NEW a \in Account
  PROVE  /\ AvailableCash(a) \in Int /\ MarginBalance(a) \in Int
         /\ PositionMargin(a.position) \in Int /\ ReservedCash(a.position) \in Int
         /\ AvailableMargin(a) \in Int
<1>1. a.cash \in Int /\ a.position \in Int
  BY DEF Account
<1>2. a.position * UnitAccumulativeFunding \in Int /\ MarkPrice * a.position \in Int
        /\ MarkPrice * Abs(a.position) \in Int
  BY <1>1, TradeAssumption, AbsType
<1>3. AvailableCash(a) \in Int /\ MarginBalance(a) \in Int
  BY <1>1, <1>2 DEF AvailableCash, MarginBalance
<1>4. PositionMargin(a.position) \in Int
  BY <1>2, TradeAssumption, RateType DEF PositionMargin
<1>5. ReservedCash(a.position) \in Int
  BY TradeAssumption DEF ReservedCash
<1> QED
  BY <1>3, <1>4, <1>5 DEF AvailableMargin

\* Cash adds to the margin.
LEMMA MarginMoves ==
  ASSUME NEW a \in Account, NEW b \in Account, NEW x \in Int,
         b.cash = a.cash + x, b.position = a.position
  PROVE  AvailableMargin(b) = AvailableMargin(a) + x
<1>1. a.cash \in Int
  BY DEF Account
<1>2. PICK f, m : f = a.position * UnitAccumulativeFunding /\ f \in Int
                    /\ m = MarkPrice * a.position /\ m \in Int
  BY TradeAssumption DEF Account
<1>3. PICK p, r : p = PositionMargin(a.position) /\ p \in Int
                    /\ r = ReservedCash(a.position) /\ r \in Int
  BY MarginTypes
<1>4. AvailableMargin(b) = ((a.cash + x - f) + m) - p - r
  BY <1>1, <1>2, <1>3 DEF AvailableMargin, MarginBalance, AvailableCash
<1>5. AvailableMargin(a) = ((a.cash - f) + m) - p - r
  BY <1>2, <1>3 DEF AvailableMargin, MarginBalance, AvailableCash
<1> QED
  BY <1>1, <1>2, <1>3, <1>4, <1>5

Holding(a, cash, wallet) == [a EXCEPT !.cash = cash, !.wallet = wallet]
AfterFee(a, fee) == [a EXCEPT !.cash = @ - fee]

LEMMA AccountFields ==
  ASSUME NEW a \in Account, NEW cash \in Int, NEW wallet \in Int,
         NEW b, b = Holding(a, cash, wallet)
  PROVE  /\ b \in Account /\ b.cash = cash /\ b.wallet = wallet
         /\ b.position = a.position /\ b.leverage = a.leverage
<1>1. /\ a.position \in Int /\ a.leverage \in Nat \ {0}
      /\ b = [cash |-> cash, position |-> a.position, wallet |-> wallet, leverage |-> a.leverage]
  BY DEF Account, Holding
<1> QED
  BY <1>1 DEF Account

LEMMA SplitType ==
  ASSUME NEW position \in Int, NEW amount \in Int, NEW s, s = SplitAmount(position, amount)
  PROVE  /\ s.close \in Int /\ s.open \in Int /\ s.close + s.open = amount
         /\ s.close # 0 => position # 0
BY DEF SplitAmount, HasTheSameSign, Abs

\* The steps of ComputeTradeWithPrice: the account after the exchange, after
\* the fee and after the collateral moved
LEMMA TradeSteps ==
  ASSUME NEW a \in Account, NEW price \in Nat, NEW amount \in Int,
         NEW s, s = SplitAmount(a.position, amount),
         NEW exchanged, exchanged = Exchange(a, price, amount),
         NEW fee \in Int,
         NEW paid, paid = AfterFee(exchanged, fee),
         NEW adjust, adjust = adjustMarginLeverage(paid, price, s.close, s.open, fee)
  PROVE  /\ exchanged \in Account /\ paid \in Account /\ adjust \in Int
         /\ AvailableMargin(paid) = AvailableMargin(exchanged) - fee
         /\ paid.wallet = a.wallet /\ paid.position = a.position + amount
<1>1. a.cash \in Int /\ a.position \in Int /\ a.wallet \in Int /\ a.leverage \in Nat \ {0}
  BY DEF Account
<1>2. s.close \in Int /\ s.open \in Int /\ s.close + s.open = amount
        /\ (s.close # 0 => a.position # 0)
  BY <1>1, SplitType
<1>3. price * amount \in Int /\ UnitAccumulativeFunding * amount \in Int
        /\ price * Abs(amount) \in Int
  BY TradeAssumption, AbsType
<1>4. /\ exchanged \in Account /\ exchanged.wallet = a.wallet
      /\ exchanged.position = a.position + amount /\ exchanged.leverage = a.leverage
  <2>1. PICK cash : /\ cash = a.cash - price * amount + UnitAccumulativeFunding * amount
                    /\ cash \in Int
    BY <1>1, <1>3
  <2>2. exchanged = [cash |-> cash, position |-> a.position + amount, wallet |-> a.wallet,
                     leverage |-> a.leverage]
    BY <2>1 DEF Exchange, Account
  <2>3. a.position + amount \in Int
    BY <1>1
  <2> QED
    BY <1>1, <2>1, <2>2, <2>3 DEF Account
<1>5. /\ paid \in Account /\ paid.wallet = a.wallet
      /\ paid.position = a.position + amount /\ paid.leverage = a.leverage
      /\ AvailableMargin(paid) = AvailableMargin(exchanged) - fee
  <2>1. exchanged.wallet \in Int /\ exchanged.cash \in Int
    BY <1>4 DEF Account
  <2>2. PICK cash \in Int, wallet \in Int : cash = exchanged.cash - fee /\ wallet = exchanged.wallet
    BY <2>1
  <2>3. paid = Holding(exchanged, cash, wallet)
    BY <1>4, <2>2 DEF Account, AfterFee, Holding
  <2>4. /\ paid \in Account /\ paid.cash = cash /\ paid.wallet = wallet
        /\ paid.position = exchanged.position /\ paid.leverage = exchanged.leverage
    BY <1>4, <2>3, AccountFields
  <2>5. PICK x \in Int : x = -fee /\ paid.cash = exchanged.cash + x
    BY <2>1, <2>2, <2>4
  <2>6. AvailableMargin(paid) = AvailableMargin(exchanged) + x
    BY <1>4, <2>4, <2>5, MarginMoves
  <2>7. AvailableMargin(exchanged) \in Int
    BY <1>4, MarginTypes
  <2> QED
    BY <1>4, <2>2, <2>4, <2>5, <2>6, <2>7
<1>6. adjust \in Int
  <2>1. AvailableCash(paid) \in Int /\ MarginBalance(paid) \in Int /\ AvailableMargin(paid) \in Int
    BY <1>5, MarginTypes
  <2>2. PICK kept : /\ kept = AvailableCash(paid) * s.close
                               - (-(s.close + s.open) * price - fee) * paid.position
                               - (IF paid.position = 0 THEN 0 ELSE KeeperGasReward * s.close)
                    /\ kept \in Int
    <3>1. AvailableCash(paid) * s.close \in Int
      BY <1>2, <2>1
    <3>2. (-(s.close + s.open) * price - fee) * paid.position \in Int
      BY <1>1, <1>2, <1>5
    <3>3. KeeperGasReward * s.close \in Int
      BY <1>2, TradeAssumption
    <3> QED
      BY <3>1, <3>2, <3>3
  <2>3. Div(Abs(s.open) * MarkPrice, paid.leverage) \in Int
    <3>1. Abs(s.open) * MarkPrice \in Int
      BY <1>2, AbsType, TradeAssumption
    <3> QED
      BY <1>1, <1>5, <3>1, DivType
  <2>4. CASE s.close # 0 /\ s.open = 0
    <3>1. paid.position - s.close \in Int /\ paid.position - s.close # 0
      BY <1>1, <1>2, <1>5, <2>4
    <3>2. Div(kept, paid.position - s.close) \in Int
      BY <2>2, <3>1, DivType
    <3>3. adjust = MinOf(0, MaxOf(Div(kept, paid.position - s.close), -AvailableMargin(paid)))
      BY <2>2, <2>4 DEF adjustMarginLeverage
    <3>4. -AvailableMargin(paid) \in Int
      BY <2>1
    <3>5. MaxOf(Div(kept, paid.position - s.close), -AvailableMargin(paid)) \in Int
      BY <3>2, <3>4, MinMax
    <3> QED
      BY <3>3, <3>5, MinMax
  <2>5. CASE ~(s.close # 0 /\ s.open = 0)
    <3>1. PICK open : open = Div(Abs(s.open) * MarkPrice, paid.leverage) /\ open \in Int
      BY <2>3
    <3>2. PICK x, y : /\ x = open + KeeperGasReward - MarginBalance(paid) /\ x \in Int
                      /\ y = open - MarkPrice * s.open - (-(s.close + s.open) * price) + fee
                      /\ y \in Int
      <4>1. MarkPrice * s.open \in Int /\ -(s.close + s.open) * price \in Int
        BY <1>2, TradeAssumption
      <4> QED
        BY <2>1, <3>1, <4>1, TradeAssumption
    <3>3. \/ adjust = MaxOf(-AvailableMargin(paid), x)
          \/ adjust = MaxOf(-AvailableMargin(paid), y)
      BY <2>5, <3>1, <3>2 DEF adjustMarginLeverage
    <3>4. -AvailableMargin(paid) \in Int
      BY <2>1
    <3> QED
      BY <3>2, <3>3, <3>4, MinMax
  <2> QED
    BY <2>4, <2>5
<1> QED
  BY <1>4, <1>5, <1>6

\* What a trade that is not refused for want of collateral leaves
Answered(a, price, amount, x, y) ==
  LET t == ComputeTradeWithPrice(a, price, amount)
      s == SplitAmount(a.position, amount)
  IN /\ t.answer = "wallet" <=> y > a.wallet
     /\ t.answer # "wallet" =>
          /\ t.account \in Account /\ t.account.wallet = a.wallet - y
          /\ AvailableMargin(t.account) = x + y
          /\ s.open # 0 => (t.answer = "safe" <=> IsIMSafe(t.account))
          /\ s.open = 0 => (t.answer = "safe" <=> IsMarginSafe(t.account))

\* ComputeTradeWithPrice: the initial margin x left after the fee and the
\* collateral y that is moved. An opening trade takes as much as is needed, a
\* closing one takes none, and withdraws no more than there is.
LEMMA TradeAnswers ==
  ASSUME NEW a \in Account, NEW price \in Nat, NEW amount \in Int, amount # 0,
         NEW s, s = SplitAmount(a.position, amount),
         NEW e, e = AvailableMargin(Exchange(a, price, amount))
  PROVE  \E x, y \in Int : /\ Answered(a, price, amount, x, y)
                           /\ s.open # 0 => x + y >= 0
                           /\ s.open = 0 => y <= 0 /\ (x + y >= 0 \/ y = 0)
                           /\ s.open = 0 => e \in Int /\ (x >= 0 \/ x >= e)
<1>1. PICK exchanged : exchanged = Exchange(a, price, amount)
  OBVIOUS
<1>2. exchanged \in Account
  BY <1>1, TradeSteps
<1>20. PICK fee \in Int : /\ fee = ComputeFee(exchanged, s.open # 0, price, amount)
                          /\ s.open = 0 => fee <= MaxOf(0, e)
  <2>1. PICK full : full = RateOf(price * Abs(amount), FeeRate) /\ full \in Int
    <3>1. price * Abs(amount) \in Int /\ FeeRate \in Int
      BY TradeAssumption, AbsType DEF FeeRate
    <3> QED
      BY <3>1, RateType
  <2>2. e \in Int /\ e = AvailableMargin(exchanged)
    BY <1>1, <1>2, MarginTypes
  <2>3. MaxOf(0, e) \in Int
    BY <2>2, MinMax
  <2>4. MinOf(full, MaxOf(0, e)) \in Int /\ MinOf(full, MaxOf(0, e)) <= MaxOf(0, e)
    BY <2>1, <2>3, MinMax
  <2> QED
    BY <2>1, <2>2, <2>4 DEF ComputeFee
<1>3. PICK paid : paid = AfterFee(exchanged, fee)
  OBVIOUS
<1>4. PICK adjust : adjust = adjustMarginLeverage(paid, price, s.close, s.open, fee)
  OBVIOUS
<1>5. /\ paid \in Account /\ adjust \in Int
      /\ AvailableMargin(paid) = AvailableMargin(exchanged) - fee
      /\ paid.wallet = a.wallet /\ paid.position = a.position + amount
  BY <1>1, <1>3, <1>4, TradeSteps
<1>6. PICK x \in Int : x = AvailableMargin(paid)
  BY <1>5, MarginTypes
<1>7. e \in Int /\ x = e - fee
  BY <1>1, <1>2, <1>5, <1>6, MarginTypes
<1>8. PICK adjusted : adjusted = [paid EXCEPT !.cash = @ + adjust, !.wallet = @ - adjust]
  OBVIOUS
<1>9. a.position \in Int /\ a.wallet \in Int /\ paid.cash \in Int /\ paid.wallet \in Int
  BY <1>5 DEF Account
<1>10. adjusted \in Account /\ AvailableMargin(adjusted) = x + adjust
         /\ adjusted.wallet = a.wallet - adjust
  <2>1. PICK cash \in Int, wallet \in Int : cash = paid.cash + adjust /\ wallet = paid.wallet - adjust
    BY <1>5, <1>9
  <2>2. adjusted = Holding(paid, cash, wallet)
    BY <1>5, <1>8, <2>1 DEF Account, Holding
  <2>3. /\ adjusted \in Account /\ adjusted.cash = cash /\ adjusted.wallet = wallet
        /\ adjusted.position = paid.position
    BY <1>5, <2>2, AccountFields
  <2> QED
    BY <1>5, <1>6, <2>1, <2>3, MarginMoves
<1>11. PICK t : t = ComputeTradeWithPrice(a, price, amount)
  OBVIOUS
<1>12. t = IF adjust > a.wallet
           THEN [account |-> paid, fee |-> fee, answer |-> "wallet"]
           ELSE [account |-> adjusted, fee |-> fee,
                 answer |-> IF (s.open # 0 /\ IsIMSafe(adjusted))
                                \/ (s.open = 0 /\ IsMarginSafe(adjusted))
                            THEN "safe" ELSE "unsafe"]
  BY <1>1, <1>20, <1>3, <1>4, <1>8, <1>11 DEF ComputeTradeWithPrice, AfterFee
<1>13. Answered(a, price, amount, x, adjust)
  BY <1>9, <1>10, <1>11, <1>12 DEF Answered
<1>14. s.close \in Int /\ s.open \in Int /\ s.close + s.open = amount
  BY <1>9, SplitType
<1>15. ASSUME s.open # 0 PROVE x + adjust >= 0
  <2>1. PICK z : adjust = MaxOf(-x, z)
    BY <1>4, <1>6, <1>15 DEF adjustMarginLeverage
  <2>2. adjust >= -x
    BY <1>5, <1>6, <2>1 DEF MaxOf
  <2> QED
    BY <1>5, <1>6, <2>2
<1>16. ASSUME s.open = 0
       PROVE  adjust <= 0 /\ (x + adjust >= 0 \/ adjust = 0) /\ (x >= 0 \/ x >= e)
  <2>1. PICK z : adjust = MinOf(0, MaxOf(z, -x))
    BY <1>4, <1>6, <1>14, <1>16 DEF adjustMarginLeverage
  <2>2. PICK m : m = MaxOf(z, -x) /\ adjust = MinOf(0, m)
    BY <2>1
  <2>3. adjust <= 0 /\ (x + adjust >= 0 \/ adjust = 0)
    <3>1. CASE 0 < m
      BY <2>2, <3>1 DEF MinOf
    <3>2. CASE ~(0 < m)
      <4>1. adjust = m /\ m \in Int /\ m <= 0
        BY <1>5, <2>2, <3>2 DEF MinOf
      <4>2. m >= -x
        BY <2>2, <4>1 DEF MaxOf
      <4> QED
        BY <4>1, <4>2
    <3> QED
      BY <3>1, <3>2
  <2>4. fee <= MaxOf(0, e)
    BY <1>16, <1>20
  <2>5. x >= 0 \/ x >= e
    BY <1>7, <2>4 DEF MaxOf
  <2> QED
    BY <2>3, <2>5
<1> QED
  BY <1>5, <1>6, <1>7, <1>13, <1>15, <1>16

\* An opening trade that the wallet can pay for is safe: adjustMarginLeverage
\* takes at least what the initial margin needs, so that the check of
\* ComputeTradeWithPrice that follows it never fails.
THEOREM OpeningIsSafe ==
  ASSUME NEW a \in Account, NEW price \in Nat, NEW amount \in Int,
         SplitAmount(a.position, amount).open # 0,
         NEW t, t = ComputeTradeWithPrice(a, price, amount), t.answer # "wallet"
  PROVE  t.answer = "safe" /\ IsIMSafe(t.account)
<1>1. amount # 0
  <2>1. a.position \in Int
    BY DEF Account
  <2> QED
    BY <2>1 DEF SplitAmount, HasTheSameSign
<1>2. PICK x \in Int, y \in Int : Answered(a, price, amount, x, y) /\ x + y >= 0
  BY <1>1, TradeAnswers
<1>3. /\ AvailableMargin(t.account) = x + y
      /\ t.answer = "safe" <=> IsIMSafe(t.account)
  BY <1>2 DEF Answered
<1> QED
  BY <1>2, <1>3 DEF IsIMSafe

\* A trade that only closes needs nothing from the wallet: neither exchange nor
\* fee nor withdrawal takes the account below the initial margin, unless the
\* exchange at that price alone does.
THEOREM ClosingIsFree ==
  ASSUME NEW a \in Account, a.wallet >= 0, NEW price \in Nat,
         NEW amount \in Int, amount # 0, SplitAmount(a.position, amount).open = 0,
         NEW t, t = ComputeTradeWithPrice(a, price, amount)
  PROVE  /\ t.answer # "wallet" /\ t.account.wallet >= a.wallet
         /\ AvailableMargin(t.account) >= MinOf(0, AvailableMargin(Exchange(a, price, amount)))
<1>1. PICK e : e = AvailableMargin(Exchange(a, price, amount))
  OBVIOUS
<1>2. PICK x \in Int, y \in Int :
        /\ Answered(a, price, amount, x, y)
        /\ y <= 0 /\ (x + y >= 0 \/ y = 0)
        /\ e \in Int /\ (x >= 0 \/ x >= e)
  BY <1>1, TradeAnswers
<1>3. a.wallet \in Int
  BY DEF Account
<1>4. t.answer # "wallet"
  BY <1>2, <1>3 DEF Answered
<1>5. t.account.wallet = a.wallet - y /\ AvailableMargin(t.account) = x + y
  BY <1>2, <1>4 DEF Answered
<1>6. x + y >= MinOf(0, e)
  BY <1>2 DEF MinOf
<1> QED
  BY <1>1, <1>2, <1>3, <1>4, <1>5, <1>6

-----------------------------------------------------------------------------
(***************************************************************************)
(* The orders of a trader                                                  *)
(***************************************************************************)

PartsOK(o) ==
  /\ o \in Order
  /\ PartOf(o.available, o.amount) /\ PartOf(o.pending, o.amount)
  /\ PartOf(o.executed, o.amount) /\ PartOf(Whole(o), o.amount)

OrdersOK(s) == s \in Seq(Order) /\ \A i \in 1..Len(s) : PartsOK(s[i])

\* One order changes.
LEMMA OrderChanges ==
  ASSUME NEW s, OrdersOK(s), NEW i \in 1..Len(s), NEW o, PartsOK(o),
         NEW t, t = [s EXCEPT ![i] = o]
  PROVE  OrdersOK(t)
<1>1. s \in Seq(Order) /\ o \in Order
  BY DEF OrdersOK, PartsOK
<1>2. t \in Seq(Order) /\ Len(t) = Len(s) /\ \A j \in 1..Len(s) : t[j] = IF j = i THEN o ELSE s[j]
  BY <1>1
<1> QED
  BY <1>2 DEF OrdersOK

\* The parts after one of them moved
Parts(o, available, pending, executed) ==
  [o EXCEPT !.available = available, !.pending = pending, !.executed = executed]

LEMMA PartsMove ==
  ASSUME NEW o, PartsOK(o), NEW a \in Int, NEW p \in Int, NEW e \in Int,
         PartOf(a, o.amount), PartOf(p, o.amount), PartOf(e, o.amount),
         PartOf(a + p + e, o.amount),
         NEW q, q = Parts(o, a, p, e)
  PROVE  PartsOK(q)
<1>1. o \in Order /\ o.price \in Nat /\ o.amount \in Int
  BY DEF PartsOK, Order
<1>2. q = [price |-> o.price, amount |-> o.amount, available |-> a, pending |-> p, executed |-> e]
  BY <1>1 DEF Parts, Order
<1>3. q \in Order
  BY <1>1, <1>2 DEF Order
<1> QED
  BY <1>2, <1>3 DEF PartsOK, Whole

LEMMA PartsTypes ==
  ASSUME NEW o, PartsOK(o)
  PROVE  /\ o.amount \in Int /\ o.available \in Int /\ o.pending \in Int /\ o.executed \in Int
         /\ PartOf(o.available, o.amount) /\ PartOf(o.pending, o.amount)
         /\ PartOf(o.executed, o.amount)
         /\ PartOf(o.available + o.pending + o.executed, o.amount)
BY DEF PartsOK, Order, Whole

Inv == account \in Account /\ OrdersOK(orders) /\ account.wallet >= 0

LEMMA InvInit == Init => Inv
<1> SUFFICES ASSUME Init PROVE Inv
  OBVIOUS
<1>1. account \in Account /\ account.wallet >= 0 /\ orders = <<>>
  BY MarginAssumption DEF Init
<1>2. OrdersOK(orders)
  BY <1>1 DEF OrdersOK
<1> QED
  BY <1>1, <1>2 DEF Inv

LEMMA NewOrderKeeps ==
  ASSUME Inv, NEW m \in Menu, NewOrder(m)
  PROVE  Inv'
<1>1. PICK o : /\ o = [price |-> m.price, amount |-> m.amount, available |-> m.amount,
                       pending |-> 0, executed |-> 0]
               /\ orders' = Append(orders, o) /\ account' = account
  BY DEF NewOrder
<1>2. m.price \in Nat /\ m.amount \in Int
  BY MarginAssumption
<1>3. o \in Order /\ PartsOK(o)
  BY <1>1, <1>2 DEF Order, PartsOK, PartOf, Whole
<1>4. orders \in Seq(Order) /\ \A i \in 1..Len(orders) : PartsOK(orders[i])
  BY DEF Inv, OrdersOK
<1>5. /\ orders' \in Seq(Order) /\ Len(orders') = Len(orders) + 1
      /\ \A i \in 1..Len(orders) : orders'[i] = orders[i]
      /\ orders'[Len(orders) + 1] = o
  BY <1>1, <1>3, <1>4
<1>6. Len(orders) \in Nat
  BY <1>4
<1>7. \A i \in 1..Len(orders') : PartsOK(orders'[i])
  BY <1>3, <1>4, <1>5, <1>6
<1>8. OrdersOK(orders')
  BY <1>5, <1>7 DEF OrdersOK
<1>9. account' \in Account /\ account'.wallet >= 0
  BY <1>1 DEF Inv
<1> QED
  BY <1>8, <1>9 DEF Inv

\* An amount n that moves is a part of the part it leaves.
LEMMA PartMoves ==
  ASSUME NEW w \in Int, NEW x \in Int, NEW y \in Int, NEW z \in Int,
         PartOf(x, w), PartOf(y, w), PartOf(z, w), PartOf(x + y + z, w),
         NEW n \in Int, n \in UpTo(x)
  PROVE  PartOf(x - n, w) /\ PartOf(y + n, w) /\ PartOf((x - n) + (y + n) + z, w)
BY DEF PartOf, UpTo

LEMMA UpToType ==
  ASSUME NEW x \in Int, NEW n \in UpTo(x)
  PROVE  n \in Int /\ UpTo(n) \subseteq UpTo(x)
BY DEF UpTo

\* The parts of order i become a, p and e.
LEMMA OrderStep ==
  ASSUME Inv, NEW i \in DOMAIN orders, NEW o, o = orders[i],
         NEW a \in Int, NEW p \in Int, NEW e \in Int,
         PartOf(a, o.amount), PartOf(p, o.amount), PartOf(e, o.amount),
         PartOf(a + p + e, o.amount),
         orders' = [orders EXCEPT ![i] = Parts(o, a, p, e)],
         account' \in Account, account'.wallet >= 0
  PROVE  Inv'
<1>1. orders \in Seq(Order) /\ i \in 1..Len(orders) /\ OrdersOK(orders) /\ PartsOK(o)
  BY DEF Inv, OrdersOK
<1>2. PICK q : q = Parts(o, a, p, e)
  OBVIOUS
<1>3. PartsOK(q)
  BY <1>1, <1>2, PartsMove
<1>4. OrdersOK(orders')
  BY <1>1, <1>2, <1>3, OrderChanges
<1> QED
  BY <1>4 DEF Inv

LEMMA OrderParts ==
  ASSUME Inv, NEW i \in DOMAIN orders, NEW o, o = orders[i]
  PROVE  /\ o \in Order /\ PartsOK(o)
         /\ o.amount \in Int /\ o.available \in Int /\ o.pending \in Int /\ o.executed \in Int
         /\ PartOf(o.available, o.amount) /\ PartOf(o.pending, o.amount)
         /\ PartOf(o.executed, o.amount)
         /\ PartOf(o.available + o.pending + o.executed, o.amount)
<1>1. orders \in Seq(Order) /\ i \in 1..Len(orders) /\ PartsOK(o)
  BY DEF Inv, OrdersOK
<1> QED
  BY <1>1, PartsTypes DEF PartsOK

LEMMA MatchKeeps ==
  ASSUME Inv, NEW i \in DOMAIN orders, Match(i)
  PROVE  Inv'
<1>1. PICK price \in Prices, amount \in UpTo(orders[i].available) \ {0} :
        /\ account' = account
        /\ \E n \in getMatchItem(price, amount) :
              orders' = [orders EXCEPT ![i].available = @ - n, ![i].pending = @ + n]
  BY DEF Match
<1>2. PICK n \in UpTo(amount) \ {0} :
        orders' = [orders EXCEPT ![i].available = @ - n, ![i].pending = @ + n]
  BY <1>1 DEF getMatchItem
<1>3. PICK o : o = orders[i]
  OBVIOUS
<1>4. /\ o \in Order
      /\ o.amount \in Int /\ o.available \in Int /\ o.pending \in Int /\ o.executed \in Int
      /\ PartOf(o.available, o.amount) /\ PartOf(o.pending, o.amount)
      /\ PartOf(o.executed, o.amount)
      /\ PartOf(o.available + o.pending + o.executed, o.amount)
  BY <1>3, OrderParts
<1>5. n \in Int /\ n \in UpTo(o.available)
  BY <1>1, <1>2, <1>3, <1>4, UpToType
<1>6. PICK a \in Int, p \in Int : a = o.available - n /\ p = o.pending + n
  BY <1>4, <1>5
<1>7. PartOf(a, o.amount) /\ PartOf(p, o.amount) /\ PartOf(a + p + o.executed, o.amount)
  BY <1>4, <1>5, <1>6, PartMoves
<1>8. orders' = [orders EXCEPT ![i] = Parts(o, a, p, o.executed)]
  BY <1>2, <1>3, <1>4, <1>6 DEF Parts, Order
<1> QED
  BY <1>1, <1>3, <1>4, <1>6, <1>7, <1>8, OrderStep DEF Inv

LEMMA ExecuteKeeps ==
  ASSUME Inv, NEW i \in DOMAIN orders, Execute(i)
  PROVE  Inv'
<1>1. PICK price \in Prices, n \in UpTo(orders[i].pending) \ {0} :
        /\ ComputeTradeWithPrice(account, price, n).answer = "safe"
        /\ account' = ComputeTradeWithPrice(account, price, n).account
        /\ orders' = [orders EXCEPT ![i].pending = @ - n, ![i].executed = @ + n]
  BY DEF Execute
<1>2. PICK o : o = orders[i]
  OBVIOUS
<1>3. /\ o \in Order
      /\ o.amount \in Int /\ o.available \in Int /\ o.pending \in Int /\ o.executed \in Int
      /\ PartOf(o.available, o.amount) /\ PartOf(o.pending, o.amount)
      /\ PartOf(o.executed, o.amount)
      /\ PartOf(o.available + o.pending + o.executed, o.amount)
  BY <1>2, OrderParts
<1>4. n \in Int /\ n # 0 /\ n \in UpTo(o.pending) /\ price \in Nat
  BY <1>1, <1>2, <1>3, UpToType, MarginAssumption
<1>5. PICK p \in Int, e \in Int : p = o.pending - n /\ e = o.executed + n
  BY <1>3, <1>4
<1>6. PartOf(o.pending + o.executed + o.available, o.amount)
  BY <1>3
<1>7. PartOf(p, o.amount) /\ PartOf(e, o.amount) /\ PartOf(p + e + o.available, o.amount)
  BY <1>3, <1>4, <1>5, <1>6, PartMoves
<1>8. PartOf(o.available + p + e, o.amount)
  BY <1>3, <1>5, <1>7
<1>9. orders' = [orders EXCEPT ![i] = Parts(o, o.available, p, e)]
  BY <1>1, <1>2, <1>3, <1>5 DEF Parts, Order
<1>10. account \in Account /\ account.wallet >= 0 /\ account.wallet \in Int
  BY DEF Inv, Account
<1>11. PICK t : t = ComputeTradeWithPrice(account, price, n)
  OBVIOUS
<1>12. PICK x \in Int, y \in Int : Answered(account, price, n, x, y)
  BY <1>4, <1>10, TradeAnswers
<1>13. account' \in Account /\ account'.wallet = account.wallet - y /\ ~(y > account.wallet)
  BY <1>1, <1>12 DEF Answered
<1>14. account'.wallet >= 0
  BY <1>10, <1>13
<1> QED
  BY <1>2, <1>3, <1>5, <1>7, <1>8, <1>9, <1>13, <1>14, OrderStep

LEMMA SettleKeeps ==
  ASSUME Inv, NEW i \in DOMAIN orders, Settle(i) \/ Rollback(i) \/ Cancel(i)
  PROVE  Inv'
<1>1. PICK o : o = orders[i]
  OBVIOUS
<1>2. /\ o \in Order
      /\ o.amount \in Int /\ o.available \in Int /\ o.pending \in Int /\ o.executed \in Int
      /\ PartOf(o.available, o.amount) /\ PartOf(o.pending, o.amount)
      /\ PartOf(o.executed, o.amount)
      /\ PartOf(o.available + o.pending + o.executed, o.amount)
  BY <1>1, OrderParts
<1>3. account' = account /\ account' \in Account /\ account'.wallet >= 0
  BY DEF Settle, Rollback, Cancel, Inv
<1>4. PICK z \in Int : z = 0
  OBVIOUS
<1>5. PartOf(z, o.amount)
  BY <1>2, <1>4 DEF PartOf
<1>6. CASE Settle(i)
  <2>1. orders' = [orders EXCEPT ![i] = Parts(o, o.available, o.pending, z)]
    BY <1>1, <1>2, <1>4, <1>6 DEF Settle, Parts, Order
  <2>2. PartOf(o.available + o.pending + z, o.amount)
    BY <1>2, <1>4 DEF PartOf
  <2> QED
    BY <1>1, <1>2, <1>3, <1>5, <2>1, <2>2, OrderStep
<1>7. CASE Rollback(i)
  <2>1. PICK a \in Int : a = o.available + o.pending
    BY <1>2
  <2>2. orders' = [orders EXCEPT ![i] = Parts(o, a, z, o.executed)]
    BY <1>1, <1>2, <1>4, <1>7, <2>1 DEF Rollback, Parts, Order
  <2>3. PartOf(a, o.amount) /\ PartOf(a + z + o.executed, o.amount)
    BY <1>2, <1>4, <2>1 DEF PartOf
  <2> QED
    BY <1>1, <1>2, <1>3, <1>5, <2>2, <2>3, OrderStep
<1>8. CASE Cancel(i)
  <2>1. orders' = [orders EXCEPT ![i] = Parts(o, z, o.pending, o.executed)]
    BY <1>1, <1>2, <1>4, <1>8 DEF Cancel, Parts, Order
  <2>2. PartOf(z + o.pending + o.executed, o.amount)
    BY <1>2, <1>4 DEF PartOf
  <2> QED
    BY <1>1, <1>2, <1>3, <1>5, <2>1, <2>2, OrderStep
<1> QED
  BY <1>6, <1>7, <1>8

LEMMA InvNext == Inv /\ [Next]_vars => Inv'
<1> SUFFICES ASSUME Inv, [Next]_vars PROVE Inv'
  OBVIOUS
<1>1. CASE UNCHANGED vars
  BY <1>1 DEF Inv, OrdersOK, vars
<1>2. ASSUME NEW m \in Menu, NewOrder(m) PROVE Inv'
  BY <1>2, NewOrderKeeps
<1>3. ASSUME NEW i \in DOMAIN orders,
             Match(i) \/ Execute(i) \/ Settle(i) \/ Rollback(i) \/ Cancel(i)
      PROVE  Inv'
  BY <1>3, MatchKeeps, ExecuteKeeps, SettleKeeps
<1> QED
  BY <1>1, <1>2, <1>3 DEF Next

\* The parts of every order add up to no more than the order, whatever is
\* matched, executed, settled, given up and canceled.
THEOREM OrdersAddUp == Spec => []TypeOK
<1>1. Inv => TypeOK
  <2> SUFFICES ASSUME Inv PROVE TypeOK
    OBVIOUS
  <2>1. orders \in Seq(Order) /\ account \in Account
    BY DEF Inv, OrdersOK
  <2>2. DOMAIN orders = 1..Len(orders)
    BY <2>1
  <2> QED
    BY <2>1, <2>2 DEF Inv, OrdersOK, PartsOK, TypeOK
<1> QED
  BY <1>1, InvInit, InvNext, PTL DEF Spec

\* WalletSuffices for the amounts that only close, at any price and whether or
\* not the orders are calm: the wallet is never overdrawn, and what is on its
\* way to close the position does not fail for want of collateral.
ClosesFromMargin ==
  /\ account.wallet >= 0
  /\ \A i \in DOMAIN orders :
       LET n == orders[i].pending
       IN n # 0 /\ SplitAmount(account.position, n).open = 0 =>
            \A price \in Prices : ComputeTradeWithPrice(account, price, n).answer # "wallet"

\* No trade overdraws the wallet, and an amount on its way that only closes
\* never fails at it.
THEOREM ClosingNeedsNoWallet == Spec => []ClosesFromMargin
<1>1. Inv => ClosesFromMargin
  <2> SUFFICES ASSUME Inv, NEW i \in DOMAIN orders, orders[i].pending # 0,
                      SplitAmount(account.position, orders[i].pending).open = 0,
                      NEW price \in Prices
               PROVE  ComputeTradeWithPrice(account, price, orders[i].pending).answer # "wallet"
    BY DEF ClosesFromMargin, Inv
  <2>1. orders[i].pending \in Int
    BY OrderParts
  <2>2. account \in Account /\ account.wallet >= 0 /\ price \in Nat
    BY MarginAssumption DEF Inv
  <2> QED
    BY <2>1, <2>2, ClosingIsFree
<1> QED
  BY <1>1, InvInit, InvNext, PTL DEF Spec
=============================================================================
