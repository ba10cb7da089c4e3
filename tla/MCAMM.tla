------------------------------- MODULE MCAMM -------------------------------
(***************************************************************************)
(* Pools whose roots are rational, so that everything is exact: margins    *)
(* and positions come from Pythagorean triples.                            *)
(***************************************************************************)
EXTENDS AMM

Perp(open, close, leverage, spread, discount, lpFee) ==
  [index |-> Two, openSlippageFactor |-> open, closeSlippageFactor |-> close,
   maxLeverage |-> leverage, halfSpread |-> spread, maxClosePriceDiscount |-> discount,
   lpFeeRate |-> lpFee, unitAccumulativeFunding |-> <<1, 2>>, maxOpenInterestRate |-> <<3, 1>>]

\* A pool with the margin balance, the position and the other perpetuals
Pool(perp, margin, position, others) ==
  LET value == IF others = <<>> THEN Zero ELSE others[1].index \otimes others[1].position
      funding == perp.unitAccumulativeFunding \otimes position
  IN [perp |-> perp, position |-> position, others |-> others,
      cash |-> ((margin \oplus funding) \ominus (perp.index \otimes position)) \ominus value,
      openInterest |-> AbsOf(position)]

\* The leverage limits what is opened (safe condition 2).
Levered == Perp(<<1, 50>>, <<1, 50>>, <<3, 1>>, <<1, 50>>, <<1, 10>>, <<1, 100>>)
\* The price or the margin does (conditions 1 and 3).
Steep == Perp(<<2, 1>>, <<9, 8>>, <<5, 1>>, <<1, 20>>, <<1, 5>>, Zero)
\* The same without spread, fee and discount: trades leave the pool margin as
\* it is, so that roots stay rational along several of them.
Smooth == Perp(<<2, 1>>, <<9, 8>>, <<5, 1>>, Zero, <<2, 1>>, Zero)
\* The limit on the open interest is reached.
Limited == [Smooth EXCEPT !.maxOpenInterestRate = <<1, 2>>]
\* The AMM has a position in another perpetual.
Beside == Perp(<<1, 4>>, <<1, 4>>, <<2, 1>>, Zero, <<1, 5>>, <<1, 10>>)
Other(position) ==
  <<[index |-> <<3, 1>>, position |-> position, openSlippageFactor |-> <<1, 8>>,
     maxLeverage |-> Two]>>

MCPools ==
  {Pool(Levered, <<5, 1>>, n, <<>>) : n \in {<<-7, 2>>, Zero, <<7, 2>>}}
    \cup {Pool(Levered, m, n, <<>>) : m \in {One, <<-1, 1>>}, n \in {<<-7, 2>>, <<7, 2>>}}
    \cup {Pool(Steep, <<5, 1>>, n, <<>>) : n \in {<<-1, 1>>, Zero, One}}
    \cup {Pool(Steep, <<5, 2>>, n, <<>>) : n \in {<<-1, 2>>, <<-1, 1>>, <<1, 2>>, One}}
    \cup {Pool(Smooth, <<5, 2>>, n, <<>>) : n \in {<<-1, 2>>, Zero, <<1, 2>>}}
    \cup {Pool(Limited, <<5, 1>>, n, <<>>) : n \in {Zero, One}}
    \cup {Pool(Beside, <<5, 1>>, Zero, Other(n)) : n \in {<<-2, 1>>, <<2, 1>>}}

MCAmounts ==
  ({Frac(n, 8) : n \in {-1, 1}} \cup {Frac(n, 4) : n \in -12..12} \cup {Frac(n, 1) : n \in -10..10})
    \ {Zero}
MCPositions == {<<-3, 1>>, <<3, 1>>}
MCShares == {Zero, One}

\* The largest k with k * k <= n, one binary digit after the other
IntegerRoot(n) ==
  LET root[i \in 0..16] ==
        IF i = 0 THEN 0
        ELSE LET r == root[i - 1]
                 k == r + 2^(16 - i)
             IN IF k <= 46340 /\ k * k <= n THEN k ELSE r
  IN root[16]
IsSquare(x) == \A i \in 1..2 : x[i] >= 0 /\ IntegerRoot(x[i]) * IntegerRoot(x[i]) = x[i]

\* A trade at the curve's price keeps the roots rational, one at the spread may
\* not.
Rational(p) ==
  \A beta \in {p.perp.openSlippageFactor, p.perp.closeSlippageFactor} :
    IsSquare(BeforeSqrt(Context(p), beta))
MCMaxTrades(p) ==
  CASE p.perp \in {Smooth, Limited} -> 2
    [] p.perp = Steep /\ Rational(p) -> 2
    [] OTHER -> 1
MCFarPrices == {<<1, 100>>, <<100, 1>>}
============================================================================
