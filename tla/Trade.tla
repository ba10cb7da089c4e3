------------------------------- MODULE Trade -------------------------------
(***************************************************************************)
(* The margin arithmetic of one trade of a trader with the AMM             *)
(* (common/mai3/computation.go): what the broker computes to decide        *)
(* whether a trade is safe, the same steps as the contract's.  Decimals    *)
(* are integers in a unit small enough for the divisions of an instance;   *)
(* the price of the AMM is a parameter, its curve is in AMM.               *)
(***************************************************************************)
EXTENDS Amounts

CONSTANTS MarkPrice, UnitAccumulativeFunding, KeeperGasReward,
          InitialMarginRate, LpFeeRate, OtherFeeRate,  \* over RateBase
          RateBase

ASSUME TradeAssumption ==
    /\ MarkPrice \in Nat \ {0}
    /\ UnitAccumulativeFunding \in Int
    /\ KeeperGasReward \in Nat
    /\ InitialMarginRate \in Nat
    /\ LpFeeRate \in Nat /\ OtherFeeRate \in Nat
    /\ LpFeeRate + OtherFeeRate > 0     \* the code divides by it
    /\ RateBase \in Nat \ {0}

MinOf(x, y) == IF x < y THEN x ELSE y
MaxOf(x, y) == IF x > y THEN x ELSE y

\* decimal.Decimal.Div, of a dividend of either sign.
Div(x, y) == IF y > 0 THEN x \div y ELSE (-x) \div (-y)

RateOf(x, rate) == Div(x * rate, RateBase)
FeeRate == LpFeeRate + OtherFeeRate     \* lp, vault and operator

\* model.AccountStorage
Account == [cash : Int, position : Int, wallet : Int, leverage : Nat \ {0}]

-----------------------------------------------------------------------------

\* The part of a trade that closes the position and the part that opens.
SplitAmount(position, amount) ==
    IF HasTheSameSign(position, amount) THEN [close |-> 0, open |-> amount]
    ELSE IF Abs(position) >= Abs(amount) THEN [close |-> amount, open |-> 0]
    ELSE [close |-> -position, open |-> position + amount]

PositionMargin(position) == RateOf(MarkPrice * Abs(position), InitialMarginRate)
ReservedCash(position) == IF position = 0 THEN 0 ELSE KeeperGasReward

AvailableCash(a) == a.cash - a.position * UnitAccumulativeFunding
MarginBalance(a) == AvailableCash(a) + MarkPrice * a.position

\* ComputeAccount
AvailableMargin(a) ==
    MarginBalance(a) - PositionMargin(a.position) - ReservedCash(a.position)
IsIMSafe(a) == AvailableMargin(a) >= 0
IsMarginSafe(a) == MarginBalance(a) >= ReservedCash(a.position)

\* ComputeDecreasePosition with the part that closes, ComputeIncreasePosition
\* with the part that opens: cash and position change alike in both.
Exchange(a, price, amount) ==
    [a EXCEPT !.cash = @ - price * amount + UnitAccumulativeFunding * amount,
              !.position = @ + amount]

\* A trade that only closes pays no more than what is above the margin.
ComputeFee(a, hasOpened, price, amount) ==
    LET fee == RateOf(price * Abs(amount), FeeRate)
    IN IF hasOpened THEN fee
       ELSE MinOf(fee, MaxOf(0, AvailableMargin(a)))

\* Bug: the keeper's reward is deposited again with every opening trade.
AdjustWithReward(a, price, close, open, fee) ==
    LET deltaCash == -(close + open) * price
        openMargin == Div(Abs(open) * MarkPrice, a.leverage) + KeeperGasReward
    IN IF close # 0 /\ open = 0 THEN 0
       ELSE MaxOf(-AvailableMargin(a), openMargin - MarkPrice * open - deltaCash + fee)

\* a is the account after exchange and fee.  The collateral to move from the
\* wallet to the margin account, negative to withdraw.
adjustMarginLeverage(a, price, close, open, fee) ==
    LET deltaCash == -(close + open) * price
        kept == AvailableCash(a) * close - (deltaCash - fee) * a.position
                    - (IF a.position = 0 THEN 0 ELSE KeeperGasReward * close)
        openMargin == Div(Abs(open) * MarkPrice, a.leverage)
        before == a.position - (close + open)
    IN IF close # 0 /\ open = 0
       THEN MinOf(0, MaxOf(Div(kept, a.position - close), -AvailableMargin(a)))
       ELSE MaxOf(-AvailableMargin(a),
                  IF before = 0 \/ close # 0
                  THEN openMargin + KeeperGasReward - MarginBalance(a)
                  ELSE openMargin - MarkPrice * open - deltaCash + fee)

\* ComputeTradeWithPrice: the account as the call leaves it, also when it
\* fails for want of collateral in the wallet, and what it answers.
ComputeTradeWithPrice(a, price, amount) ==
    LET s == SplitAmount(a.position, amount)
        exchanged == Exchange(a, price, amount)
        fee == ComputeFee(exchanged, s.open # 0, price, amount)
        paid == [exchanged EXCEPT !.cash = @ - fee]
        adjust == adjustMarginLeverage(paid, price, s.close, s.open, fee)
        adjusted == [paid EXCEPT !.cash = @ + adjust, !.wallet = @ - adjust]
    IN IF adjust > a.wallet
       THEN [account |-> paid, fee |-> fee, answer |-> "wallet"]
       ELSE [account |-> adjusted, fee |-> fee,
             answer |-> IF (s.open # 0 /\ IsIMSafe(adjusted))
                            \/ (s.open = 0 /\ IsMarginSafe(adjusted))
                        THEN "safe" ELSE "unsafe"]

=============================================================================
