------------------------------ MODULE Decimal ------------------------------
(***************************************************************************)
(* decimal.Decimal as exact fractions <<n, d>> in lowest terms, d > 0. The *)
(* library rounds quotients and roots to 18 digits; here quotients are     *)
(* exact, and a root is defined where it is rational.                      *)
(***************************************************************************)
EXTENDS Integers

\* Euclid's greatest common divisor of a and b: gcd[i] is that of i and any
\* number.
Gcd(a, b) ==
  LET gcd[i \in 0..b] == [n \in Nat |-> IF i = 0 THEN n ELSE gcd[n % i][i]]
  IN gcd[b][a]

Magnitude(n) == IF n < 0 THEN -n ELSE n

Reduced(n, d, g) == <<n \div g, d \div g>>

\* n / d for d > 0, in lowest terms
Frac(n, d) == Reduced(n, d, Gcd(Magnitude(n), d))

IsDecimal(x) == x \in Int \X (Nat \ {0}) /\ x = Frac(x[1], x[2])

Zero == <<0, 1>>
One == <<1, 1>>
Two == <<2, 1>>

Sign(x) == IF x[1] > 0 THEN 1 ELSE IF x[1] < 0 THEN -1 ELSE 0
Neg(x) == <<-x[1], x[2]>>
AbsOf(x) == <<Magnitude(x[1]), x[2]>>

\* The sum, of denominators with the greatest common divisor g
Added(x, y, g) ==
  Frac(x[1] * (y[2] \div g) + y[1] * (x[2] \div g), x[2] * (y[2] \div g))

x \oplus y == Added(x, y, Gcd(x[2], y[2]))

x \ominus y == x \oplus Neg(y)

Multiplied(x, y) == <<x[1] * y[1], x[2] * y[2]>>

\* Reduced crosswise first, which keeps the numbers small
x \otimes y == Multiplied(Frac(x[1], y[2]), Frac(y[1], x[2]))

Inverted(x) == IF x[1] > 0 THEN <<x[2], x[1]>> ELSE <<-x[2], -x[1]>>

x \oslash y == x \otimes Inverted(y)

x \preceq y == Sign(x \ominus y) <= 0
x \prec y == Sign(x \ominus y) < 0

Larger(x, y) == IF x \prec y THEN y ELSE x
Smaller(x, y) == IF x \prec y THEN x ELSE y

Square(x) == x \otimes x

Root(n) == CHOOSE k \in 0..n : k * k = n

\* math.go's Sqrt of a square
Sqrt(x) == <<Root(x[1]), Root(x[2])>>

\* utils.HasTheSameSign: zero has the sign of everything.
SameSign(x, y) == Sign(x) * Sign(y) >= 0

\* utils.SplitAmount: the part of amount that closes position, and the rest
Closing(position, amount) ==
  IF SameSign(position, amount) THEN Zero
  ELSE IF AbsOf(amount) \preceq AbsOf(position) THEN amount
  ELSE Neg(position)
Opening(position, amount) == amount \ominus Closing(position, amount)
=============================================================================
