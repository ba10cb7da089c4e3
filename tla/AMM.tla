-------------------------------- MODULE AMM --------------------------------
(***************************************************************************)
(* The AMM of a liquidity pool as the broker computes it (common/mai3/     *)
(* amm.go): the price curve, the amount it trades at a limit price, and    *)
(* the trades that matchOneSide computes one after the other on its copy   *)
(* of the pool. The traders' margin is in Trade and Margin; here a trade   *)
(* leaves its trader safe or not.                                          *)
(***************************************************************************)
EXTENDS Decimal, Sequences

CONSTANTS
  Pools,      \* the pools at the start: see Init
  Amounts,    \* the amounts traders think of
  FarPrices,  \* limit prices far from the AMM's
  Positions,  \* the positions the orders' traders may have
  Shares,     \* the parts of its fee that a trader who closes may afford
  MaxTrades(_)  \* bound: trades at one price level, by the pool

VARIABLES
  pool,       \* model.LiquidityPoolStorage: the cash of the pool and of its
              \* perpetuals, and of the perpetual that is traded (perp) the
              \* position and the open interest; the perpetuals beside it
              \* that are normal (others) do not change, their funding is
              \* taken off the cash
  level,      \* the price level that is matched: side, limit price and
              \* what is left of maxTradeAmount
  trades      \* the trades computed at the level: amount and price, the pool
              \* before it, and whether it was refused

vars == <<pool, level, trades>>

Positive(x) == IsDecimal(x) /\ Zero \prec x
NotNegative(x) == IsDecimal(x) /\ Zero \preceq x

\* model.PerpetualStorage: the code divides by the prices and the factors.
IsPerpetual(perp) ==
  /\ Positive(perp.index) /\ Positive(perp.maxLeverage) /\ Positive(perp.maxOpenInterestRate)
  /\ Positive(perp.openSlippageFactor) /\ Positive(perp.closeSlippageFactor)
  /\ NotNegative(perp.halfSpread) /\ perp.halfSpread \prec One
  /\ NotNegative(perp.maxClosePriceDiscount) /\ NotNegative(perp.lpFeeRate)
  /\ IsDecimal(perp.unitAccumulativeFunding)

IsOther(o) ==
  /\ Positive(o.index) /\ Positive(o.openSlippageFactor) /\ Positive(o.maxLeverage)
  /\ IsDecimal(o.position)

IsPool(p) ==
  /\ DOMAIN p = {"perp", "position", "others", "cash", "openInterest"}
  /\ IsPerpetual(p.perp)
  /\ p.others \in Seq({p.others[j] : j \in DOMAIN p.others})
  /\ \A j \in DOMAIN p.others : IsOther(p.others[j])
  /\ IsDecimal(p.position) /\ IsDecimal(p.cash) /\ IsDecimal(p.openInterest)

ASSUME AMMAssumption ==
  /\ \A p \in Pools : IsPool(p)
  /\ \A n \in Amounts : IsDecimal(n) /\ n # Zero
  /\ \A n \in Positions : IsDecimal(n)
  /\ \A share \in Shares : NotNegative(share)

NoLevel == [asked |-> FALSE]

Init ==
  /\ pool \in Pools
  /\ level = NoLevel
  /\ trades = <<>>

-----------------------------------------------------------------------------
(* model.AMMTradingContext. A function of the code that fails returns      *)
(* NoContext.                                                              *)

NoContext == [ok |-> FALSE]

Sum(s) ==
  LET sum[i \in 0..Len(s)] == IF i = 0 THEN Zero ELSE sum[i - 1] \oplus s[i]
  IN sum[Len(s)]

\* A perpetual that is not normal counts for nothing: there is none among the
\* others, and matchOneSide matches none. Nor is there an index price that is
\* not positive, with which there is no context and no amount to trade.
Context(p) ==
  LET each(f(_)) == Sum([j \in DOMAIN p.others |-> f(p.others[j])])
      value(o) == o.index \otimes o.position
  IN [ok |-> TRUE,
      perp |-> p.perp,
      position |-> p.position,
      cash |-> p.cash \ominus (p.perp.unitAccumulativeFunding \otimes p.position),
      value |-> each(value),
      square |-> each(LAMBDA o : o.openSlippageFactor \otimes Square(value(o))),
      positionMargin |-> each(LAMBDA o : AbsOf(value(o)) \oslash o.maxLeverage),
      poolMargin |-> Zero, deltaMargin |-> Zero, deltaPosition |-> Zero,
      best |-> Zero]

ValueWithCurrent(c) == c.value \oplus (c.perp.index \otimes c.position)

\* Fails when the margin of the pool is negative.
UnlessEmergency(c) == IF c.cash \oplus ValueWithCurrent(c) \prec Zero THEN NoContext ELSE c

initAMMTradingContext(p) == UnlessEmergency(Context(p))

SquareValueWithCurrent(c, beta) ==
  c.square \oplus (beta \otimes Square(c.perp.index \otimes c.position))

isAMMSafe(c, beta) ==
  Sqrt(Two \otimes SquareValueWithCurrent(c, beta)) \ominus ValueWithCurrent(c) \preceq c.cash

\* The radicand of the pool margin: not negative when the AMM is safe
BeforeSqrt(c, beta) ==
  Square(c.cash \oplus ValueWithCurrent(c)) \ominus (Two \otimes SquareValueWithCurrent(c, beta))

computeAMMPoolMargin(c, beta) ==
  ((c.cash \oplus ValueWithCurrent(c)) \oplus Sqrt(BeforeSqrt(c, beta))) \oslash Two

\* computeAMMPoolMargin(c, beta) < x, without the root: the pool margin is the
\* larger zero of 2 x (x - margin) + square, and half the margin when there is
\* none (allowUnsafe).
PoolMarginBelow(c, beta, x) ==
  LET margin == c.cash \oplus ValueWithCurrent(c)
  IN /\ margin \prec (Two \otimes x)
     /\ Neg(SquareValueWithCurrent(c, beta)) \prec ((Two \otimes x) \otimes (x \ominus margin))

WithPoolMargin(c, beta) == [c EXCEPT !.poolMargin = computeAMMPoolMargin(c, beta)]

-----------------------------------------------------------------------------
(* Prices. *)

appendSpread(c, price, isAMMBuy) ==
  price \otimes (IF isAMMBuy THEN One \ominus c.perp.halfSpread ELSE One \oplus c.perp.halfSpread)

\* P (1 - beta P N / M)
computeBestAskBidPriceIfSafe(c, beta, isAMMBuy) ==
  IF c.poolMargin \preceq Zero THEN Zero
  ELSE LET slip == ((c.position \otimes c.perp.index) \oslash c.poolMargin) \otimes beta
       IN appendSpread(c, (One \ominus slip) \otimes c.perp.index, isAMMBuy)

computeBestAskBidPriceIfUnsafe(c) == c.perp.index

WithBestPrice(c, beta, isAMMBuy) ==
  [c EXCEPT !.best = computeBestAskBidPriceIfSafe(c, beta, isAMMBuy)]

\* The worst price the AMM closes at
DiscountLimitPrice(c, closesShort) ==
  LET d == c.perp.maxClosePriceDiscount
  IN (One \oplus (IF closesShort THEN d ELSE Neg(d))) \otimes c.perp.index

\* computeDeltaMargin fails: the position changes its side, or no margin.
CanTrade(c, position2) ==
  SameSign(c.position, position2) /\ Zero \prec c.poolMargin

\* P (N1 - N2) (1 - beta P (N1 + N2) / 2 M)
computeDeltaMargin(c, beta, position2) ==
  LET mid == (position2 \oplus c.position) \oslash Two
      slip == ((mid \otimes c.perp.index) \oslash c.poolMargin) \otimes beta
  IN ((c.position \ominus position2) \otimes (One \ominus slip)) \otimes c.perp.index

-----------------------------------------------------------------------------
(* How far the AMM may open. A radicand that is negative lifts or closes   *)
(* the limit.                                                              *)

computeAMMSafeCondition1(c, beta) == (c.poolMargin \oslash c.perp.index) \oslash beta

Condition2BeforeSqrt(c, beta) ==
  LET x == (c.poolMargin \ominus c.positionMargin)
              \oplus ((c.square \oslash c.poolMargin) \oslash Two)
      y == ((x \otimes Square(c.perp.maxLeverage)) \otimes beta) \otimes Two
  IN (c.poolMargin \ominus y) \otimes c.poolMargin

AlwaysSafe2(c, beta) ==
  \/ c.poolMargin \preceq Zero
  \/ Condition2BeforeSqrt(c, beta) \prec Zero

computeAMMSafeCondition2(c, beta) ==
  LET m == Larger(c.poolMargin \ominus Sqrt(Condition2BeforeSqrt(c, beta)), Zero)
  IN ((m \oslash beta) \oslash c.perp.maxLeverage) \oslash c.perp.index

Condition3BeforeSqrt(c, beta) ==
  ((Two \otimes Square(c.poolMargin)) \ominus c.square) \oslash beta

computeAMMSafeCondition3(c, beta) == Sqrt(Condition3BeforeSqrt(c, beta)) \oslash c.perp.index

\* limit13: what the conditions 1 and 3 allow
WithCondition2(c, beta, limit13) ==
  IF AlwaysSafe2(c, beta) THEN limit13
  ELSE Smaller(computeAMMSafeCondition2(c, beta), limit13)

\* The largest position the AMM may open, long or short
SafeAmount(c, beta, isAMMBuy) ==
  IF Condition3BeforeSqrt(c, beta) \prec Zero THEN Zero
  ELSE WithCondition2(c, beta,
         IF isAMMBuy
         THEN Smaller(computeAMMSafeCondition1(c, beta), computeAMMSafeCondition3(c, beta))
         ELSE computeAMMSafeCondition3(c, beta))

\* An amount of the AMM's side
Signed(amount, isAMMBuy) == IF isAMMBuy THEN amount ELSE Neg(amount)

computeAMMSafePosition(c, beta, isAMMBuy) == Signed(SafeAmount(c, beta, isAMMBuy), isAMMBuy)

-----------------------------------------------------------------------------
(* Trades, from the AMM's side: a positive amount is bought by the AMM.    *)

\* What follows a trade of amount for deltaMargin
Traded(c, amount, deltaMargin) ==
  IF SameSign(deltaMargin, amount) THEN NoContext
  ELSE [c EXCEPT !.deltaMargin = @ \oplus deltaMargin,
                 !.deltaPosition = @ \oplus amount,
                 !.cash = @ \oplus deltaMargin,
                 !.position = @ \oplus amount]

\* A close for curve, or for the worst price the AMM closes at
Closed(c, amount, curve) ==
  Traded(c, amount, Larger(curve, Neg(DiscountLimitPrice(c, Sign(amount) > 0) \otimes amount)))

CloseIfSafe(c, beta, amount) ==
  LET position2 == c.position \oplus amount
  IN IF ~CanTrade(c, position2) THEN NoContext
     ELSE Closed(WithBestPrice(c, beta, Sign(amount) > 0), amount,
                 computeDeltaMargin(c, beta, position2))

CloseIfUnsafe(c, amount) ==
  LET best == computeBestAskBidPriceIfUnsafe(c)
  IN Closed([c EXCEPT !.best = best], amount, Neg(best \otimes amount))

computeAMMInternalClose(context, amount) ==
  LET beta == context.perp.closeSlippageFactor
  IN IF isAMMSafe(context, beta) THEN CloseIfSafe(WithPoolMargin(context, beta), beta, amount)
     ELSE CloseIfUnsafe(context, amount)

\* The best price of a part that was closed stays.
WithFirstBestPrice(c, beta, isAMMBuy) ==
  IF c.best = Zero THEN WithBestPrice(c, beta, isAMMBuy) ELSE c

TooLarge(position, safePosition, isAMMBuy) ==
  IF isAMMBuy THEN safePosition \prec position ELSE position \prec safePosition

OpenIfSafe(c, beta, amount) ==
  LET isAMMBuy == Sign(amount) > 0
      position2 == c.position \oplus amount
  IN IF \/ TooLarge(position2, computeAMMSafePosition(c, beta, isAMMBuy), isAMMBuy)
        \/ ~CanTrade(c, position2)
     THEN NoContext
     ELSE Traded(WithFirstBestPrice(c, beta, isAMMBuy), amount,
                 computeDeltaMargin(c, beta, position2))

computeAMMInternalOpen(context, amount) ==
  LET beta == context.perp.openSlippageFactor
  IN IF isAMMSafe(context, beta) THEN OpenIfSafe(WithPoolMargin(context, beta), beta, amount)
     ELSE NoContext

ClosePart(context, amount) ==
  IF ~context.ok \/ amount = Zero THEN context ELSE computeAMMInternalClose(context, amount)

OpenPart(context, amount) ==
  IF ~context.ok \/ amount = Zero THEN context ELSE computeAMMInternalOpen(context, amount)

\* At no better than the best price
AtBestPrice(c, amount) ==
  IF ~c.ok \/ c.best = Zero THEN NoContext
  ELSE [c EXCEPT !.deltaMargin = Larger(@, Neg(c.best \otimes amount))]

\* First close, then open what is left
computeAMMInternalTrade(p, amount) ==
  IF amount = Zero THEN NoContext
  ELSE AtBestPrice(
         OpenPart(ClosePart(initAMMTradingContext(p), Closing(p.position, amount)),
                  Opening(p.position, amount)),
         amount)

\* What the trader pays or gets for each, when ok
Quote(c) ==
  IF ~c.ok THEN NoContext
  ELSE [ok |-> TRUE, deltaAMMMargin |-> c.deltaMargin, deltaAMMAmount |-> c.deltaPosition,
        tradingPrice |-> AbsOf(c.deltaMargin \oslash c.deltaPosition)]

ComputeAMMPrice(p, amount) == Quote(computeAMMInternalTrade(p, Neg(amount)))

-----------------------------------------------------------------------------
(* The amount the AMM trades at a limit price.                             *)

\* Price is acceptable: the AMM buys at the limit or above, sells at it or
\* below.
Within(price, limitPrice, isAMMBuy) ==
  IF isAMMBuy THEN limitPrice \preceq price ELSE price \preceq limitPrice

\* Bug: what was closed before is left out of the average.
BeforeSqrtAlone(c, a, b, price) == Square(b)

\* The amount whose average price, with what was traded before, is price
InverseVWAPBeforeSqrt(c, a, b, price) ==
  LET k == ((Neg(c.deltaMargin) \ominus (c.deltaPosition \otimes price)) \otimes c.poolMargin)
               \otimes Neg(Two)
  IN Square(b) \ominus ((a \otimes k) \otimes <<4, 1>>)

\* The zero of a x^2 + b x + ... on the AMM's side, from its discriminant
Solution(a, b, before, isAMMBuy) ==
  IF before \prec Zero THEN Zero
  ELSE (Signed(Sqrt(before), isAMMBuy) \ominus b) \oslash (a \otimes Two)

computeAMMInverseVWAP(c, price, beta, isAMMBuy) ==
  LET a == Square(c.perp.index) \otimes beta
      b == ((c.poolMargin \otimes (price \ominus c.perp.index)) \oplus (a \otimes c.position)) \otimes Two
  IN Solution(a, b, InverseVWAPBeforeSqrt(c, a, b, price), isAMMBuy)

\* amount if the AMM buys or sells with it as it should, else nothing
Sided(amount, isAMMBuy) == IF (Sign(amount) > 0) = isAMMBuy THEN amount ELSE Zero

\* Bug: the best price stands for the average.
BestPriceOf(c) == c.best

AveragePrice(c) == AbsOf(c.deltaMargin \oslash c.deltaPosition)

\* As much as is safe, when its average price is within the limit, or as much
\* as the limit price allows
OpenUpTo(c, beta, maxAmount, limitPrice, isAMMBuy) ==
  LET full == computeAMMInternalOpen(c, maxAmount)
  IN IF Sided(maxAmount, isAMMBuy) = Zero \/ ~full.ok THEN Zero
     ELSE IF Within(AveragePrice(full), limitPrice, isAMMBuy) THEN maxAmount
     ELSE Sided(computeAMMInverseVWAP(c, limitPrice, beta, isAMMBuy), isAMMBuy)

OpenAmount(c, beta, limitPrice, isAMMBuy) ==
  IF Within(c.best, limitPrice, isAMMBuy)
  THEN OpenUpTo(c, beta, computeAMMSafePosition(c, beta, isAMMBuy) \ominus c.position,
                limitPrice, isAMMBuy)
  ELSE Zero

computeAMMOpenAmountWithPrice(context, limitPrice, isAMMBuy) ==
  LET beta == context.perp.openSlippageFactor
  IN IF isAMMSafe(context, beta)
     THEN OpenAmount(WithFirstBestPrice(WithPoolMargin(context, beta), beta, isAMMBuy),
                     beta, limitPrice, isAMMBuy)
     ELSE Zero

\* The context after the close that the limit price allows: all (zero), or the
\* part whose average price it is. An unsafe AMM closes all or nothing.
CloseAtPrice(c, zero, safe, limitPrice, isAMMBuy) ==
  LET beta == c.perp.closeSlippageFactor
  IN IF Within(AveragePrice(zero), limitPrice, isAMMBuy) THEN zero
     ELSE IF ~safe THEN NoContext
     ELSE ClosePart(c, Sided(computeAMMInverseVWAP(c, limitPrice, beta, isAMMBuy), isAMMBuy))

\* Goes on opening when all is closed
OpenAfterClose(c, limitPrice, isAMMBuy) ==
  IF ~c.ok THEN Zero
  ELSE IF SameSign(c.position, Signed(One, isAMMBuy))
       THEN c.deltaPosition \oplus computeAMMOpenAmountWithPrice(c, limitPrice, isAMMBuy)
       ELSE c.deltaPosition

CloseAndOpenAmount(c, safe, limitPrice, isAMMBuy) ==
  LET zero == computeAMMInternalClose(c, Neg(c.position))
  IN IF /\ Within(c.best, limitPrice, isAMMBuy)
        /\ Within(DiscountLimitPrice(c, isAMMBuy), limitPrice, isAMMBuy)
        /\ zero.ok
     THEN OpenAfterClose(CloseAtPrice(c, zero, safe, limitPrice, isAMMBuy), limitPrice, isAMMBuy)
     ELSE Zero

computeAMMCloseAndOpenAmountWithPrice(context, limitPrice, isAMMBuy) ==
  LET beta == context.perp.closeSlippageFactor
      safe == isAMMSafe(context, beta)
      c == IF safe THEN WithBestPrice(WithPoolMargin(context, beta), beta, isAMMBuy)
           ELSE [context EXCEPT !.best = computeBestAskBidPriceIfUnsafe(context)]
  IN CloseAndOpenAmount(c, safe, limitPrice, isAMMBuy)

\* The AMM's amount, when it has a position to close and when not
AMMAmountWithPrice(c, limitPrice, isAMMBuy) ==
  IF ~c.ok THEN Zero
  ELSE IF SameSign(c.position, Signed(One, isAMMBuy))
       THEN computeAMMOpenAmountWithPrice(c, limitPrice, isAMMBuy)
       ELSE computeAMMCloseAndOpenAmountWithPrice(c, limitPrice, isAMMBuy)

\* The amount from the trader's side
ComputeAMMAmountWithPrice(p, isTraderBuy, limitPrice) ==
  Neg(AMMAmountWithPrice(initAMMTradingContext(p), limitPrice, ~isTraderBuy))

-----------------------------------------------------------------------------
(* matchOneSide: the amount at the price of a level, then a trade of it.   *)

\* An order's limit is a price the AMM asks for some amount, or far from it.
LimitPrices(isTraderBuy) ==
  LET quotes == {ComputeAMMPrice(pool, n) : n \in {m \in Amounts : (Sign(m) > 0) = isTraderBuy}}
  IN {q.tradingPrice : q \in {r \in quotes : r.ok}} \cup FarPrices

matchOneSide(isTraderBuy, limitPrice) ==
  /\ level' = [asked |-> TRUE, isTraderBuy |-> isTraderBuy, limitPrice |-> limitPrice,
               maxTradeAmount |-> ComputeAMMAmountWithPrice(pool, isTraderBuy, limitPrice)]
  /\ UNCHANGED <<pool, trades>>

Long(position) == Larger(Zero, position)

computeOpenInterest(oldOpenInterest, oldPosition, tradeAmount) ==
  (oldOpenInterest \ominus Long(oldPosition)) \oplus Long(oldPosition \oplus tradeAmount)

\* newOpenInterest > poolMargin * maxOpenInterestRate / indexPrice, with the
\* pool margin after the trade. The root is compared by its square.
ExceedsLimit(p) ==
  LET c == initAMMTradingContext(p)
      beta == p.perp.openSlippageFactor
      margin == (p.openInterest \otimes p.perp.index) \oslash p.perp.maxOpenInterestRate
  IN PoolMarginBelow(c, beta, margin)

\* Bug: the trade is booked at the index price.
CashAtIndex(p, q) ==
  (p.cash \ominus (q.deltaAMMAmount \otimes p.perp.index))
     \oplus (p.perp.unitAccumulativeFunding \otimes q.deltaAMMAmount)

\* The pool's cash, without the lp fee
CashAfter(p, q) ==
  (p.cash \ominus (q.deltaAMMAmount \otimes q.tradingPrice))
     \oplus (p.perp.unitAccumulativeFunding \otimes q.deltaAMMAmount)

\* Bug: a trade leaves the AMM's position as it was.
PoolStays(p, q, position, share) == [p EXCEPT !.cash = CashAfter(p, q)]

\* After a trade that left the trader with position, who pays a share of the lp
\* fee. ComputeTradeWithPrice has changed the trader's position when
\* computeOpenInterest is called with it.
PoolAfter(p, q, position, share) ==
  LET delta == q.deltaAMMAmount
      lpFee == ((AbsOf(delta) \otimes q.tradingPrice) \otimes p.perp.lpFeeRate) \otimes share
      traders == computeOpenInterest(p.openInterest, position, Neg(delta))
  IN [p EXCEPT
        !.cash = CashAfter(p, q) \oplus lpFee,
        !.position = @ \oplus delta,
        !.openInterest = computeOpenInterest(traders, p.position, delta)]

\* ComputeFee: the fee of a trade that only closes is cut to the margin the
\* trader has.
FeeShares(position, amount) == IF Opening(position, amount) = Zero THEN Shares ELSE {One}

\* The pool is changed before the limit on the open interest and the safety of
\* the trader (safe) are looked at: getMatchItem goes on from the changed pool
\* with a smaller trade or the next order.
TradeAt(amount, q, position, share, safe) ==
  LET after == PoolAfter(pool, q, position \oplus amount, share)
      exceeds == pool.openInterest \prec after.openInterest /\ ExceedsLimit(after)
      refused == exceeds \/ ~safe
  IN /\ q.ok
     /\ pool' = after
     /\ trades' = Append(trades, [amount |-> amount, price |-> q.tradingPrice,
                                  pool |-> pool, refused |-> refused])
     /\ level' = IF refused THEN level
                 ELSE [level EXCEPT !.maxTradeAmount = @ \ominus amount]

\* The account of each order's trader is read from the chain: its position is
\* any. A trade that ComputeTradeWithPrice fails on changes nothing.
ComputeAMMTrade(amount) ==
  \E position \in Positions, safe \in BOOLEAN :
    \E share \in FeeShares(position, amount) :
      TradeAt(amount, ComputeAMMPrice(pool, amount), position, share, safe)

\* The parts of an amount that an order may take
Parts(amount) ==
  {n \in Amounts : Sign(n) = Sign(amount) /\ AbsOf(n) \preceq AbsOf(amount)}
    \cup ({amount} \ {Zero})

\* The level goes on after the trades so far.
GoesOn ==
  /\ level.asked
  /\ Len(trades) < MaxTrades(pool)

Next ==
  \/ /\ ~level.asked
     /\ \E isTraderBuy \in BOOLEAN :
          \E limitPrice \in LimitPrices(isTraderBuy) : matchOneSide(isTraderBuy, limitPrice)
  \/ /\ GoesOn
     /\ \E n \in Parts(level.maxTradeAmount) : ComputeAMMTrade(n)

Spec == Init /\ [][Next]_vars

-----------------------------------------------------------------------------

\* The average price of the trades so far and one more
AverageWith(amount, price) ==
  LET all == Append(trades, [amount |-> amount, price |-> price])
      value == Sum([i \in DOMAIN all |-> all[i].amount \otimes all[i].price])
  IN value \oslash Sum([i \in DOMAIN all |-> all[i].amount])

\* The AMM asks its curve's price for every trade: no spread, and a pool that is
\* safe enough that the discount is never reached.
Frictionless(p) ==
  /\ p.perp.halfSpread = Zero
  /\ Two \otimes p.perp.closeSlippageFactor \preceq Square(p.perp.maxClosePriceDiscount)
  /\ isAMMSafe(initAMMTradingContext(p), p.perp.closeSlippageFactor)

\* What matchOneSide may trade at a limit price goes through at that price or
\* better in one order, and however the orders of the level divide it on
\* average, as long as none was refused and the AMM asks no more than its
\* curve. (With a spread it does not: each order but the first is asked the
\* spread on top of a price that the orders before it moved.)
LimitKept ==
  /\ GoesOn
  /\ \A i \in DOMAIN trades : ~trades[i].refused
  /\ trades = <<>> \/ Frictionless(trades[1].pool)
  => \A n \in Parts(level.maxTradeAmount) :
      LET q == ComputeAMMPrice(pool, n)
      IN q.ok /\ Within(AverageWith(n, q.tradingPrice), level.limitPrice, ~level.isTraderBuy)

\* ComputeAMMAmountWithPrice leaves nothing out: the AMM refuses a larger
\* amount or asks a worse price for it.
OfferIsMost ==
  GoesOn /\ trades = <<>> =>
    \A n \in {m \in Amounts : (Sign(m) > 0) = level.isTraderBuy
                               /\ AbsOf(level.maxTradeAmount) \prec AbsOf(m)} :
      LET q == ComputeAMMPrice(pool, n)
      IN q.ok => ~Within(q.tradingPrice, level.limitPrice, ~level.isTraderBuy)

\* The slippage factors of a trade's first and last part
FirstBeta(p, amount) ==
  IF Closing(p.position, Neg(amount)) = Zero THEN p.perp.openSlippageFactor
  ELSE p.perp.closeSlippageFactor
LastBeta(p, amount) ==
  IF Opening(p.position, Neg(amount)) = Zero THEN p.perp.closeSlippageFactor
  ELSE p.perp.openSlippageFactor

\* No trade takes from the margin of the liquidity providers: a pool that was
\* safe has at least the pool margin it had, whether the trade opens, closes
\* or goes through zero.
PoolMarginKept ==
  LET last == trades[Len(trades)]
      before == initAMMTradingContext(last.pool)
      beta == FirstBeta(last.pool, last.amount)
  IN trades # <<>> /\ isAMMSafe(before, beta) =>
       ~PoolMarginBelow(initAMMTradingContext(pool), LastBeta(last.pool, last.amount),
                        computeAMMPoolMargin(before, beta))

\* Traders gain nothing by dividing an amount among orders: the pool has at
\* least the cash that one trade of it all leaves, because each trade starts
\* from the pool that the one before it left.
DividingGainsNothing ==
  LET first == trades[1].pool
      whole == ComputeAMMPrice(first, Sum([i \in DOMAIN trades |-> trades[i].amount]))
  IN /\ Len(trades) > 1
     /\ isAMMSafe(initAMMTradingContext(first), first.perp.closeSlippageFactor)
     /\ whole.ok
     => CashAfter(first, whole) \preceq pool.cash

-----------------------------------------------------------------------------
(* What the theorems take for granted: the roots are rational. Every root  *)
(* that TLC evaluates is, or it would find no value for it.                *)

\* The amount that is offered at a level is a decimal.
OfferIsDecimal == level.asked => IsDecimal(level.maxTradeAmount)

\* The root of the pool margin is a decimal whose square is the radicand.
RootExact(c, beta) ==
  LET r == Sqrt(BeforeSqrt(c, beta))
  IN IsDecimal(r) /\ Zero \preceq r /\ Square(r) = BeforeSqrt(c, beta)

\* Those that computeAMMInternalTrade takes are exact.
TradeRoots(p, amount) ==
  LET close == Closing(p.position, amount)
      open == Opening(p.position, amount)
      c0 == Context(p)
      c1 == ClosePart(c0, close)
      closeBeta == p.perp.closeSlippageFactor
      openBeta == p.perp.openSlippageFactor
  IN /\ close # Zero /\ isAMMSafe(c0, closeBeta) => RootExact(c0, closeBeta)
     /\ open # Zero /\ c1.ok => (isAMMSafe(c1, openBeta) => RootExact(c1, openBeta))

\* Those of the trades that may come next are.
RootsExact ==
  GoesOn => \A n \in Parts(level.maxTradeAmount) : TradeRoots(pool, Neg(n))
=============================================================================
