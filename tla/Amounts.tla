------------------------------ MODULE Amounts ------------------------------
(***************************************************************************)
(* Signed order amounts. A buy order has a positive amount, a sell order   *)
(* a negative one, and every quantity derived from an order (available,    *)
(* pending, matched, ...) carries the sign of the order. The program's     *)
(* decimals are abstracted to integers: a lot is the smallest amount the   *)
(* instance tells apart.                                                   *)
(***************************************************************************)
EXTENDS Integers

\* decimal.Decimal.Abs
Abs(x) == IF x < 0 THEN -x ELSE x

\* utils.HasTheSameSign: zero has the sign of everything.
HasTheSameSign(x, y) == x = 0 \/ y = 0 \/ (x > 0 <=> y > 0)

\* The amounts between zero and x, both included.
UpTo(x) == IF x > 0 THEN 0..x ELSE x..0

\* x is a part of y: of the same sign and not larger.
PartOf(x, y) == (0 <= x /\ x <= y) \/ (y <= x /\ x <= 0)

\* f[1] + ... + f[n]
Total(f, n) ==
  LET sum[i \in 0..n] == IF i = 0 THEN 0 ELSE sum[i - 1] + f[i]
  IN sum[n]

=============================================================================
