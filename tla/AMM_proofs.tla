----------------------------- MODULE AMM_proofs -----------------------------
(***************************************************************************)
(* What the AMM's trades keep, for every pool. First the decimals: they    *)
(* are an ordered field.                                                   *)
(***************************************************************************)
EXTENDS AMM, NaturalsInduction, WellFoundedInduction, TLAPS

\* Every non-empty set of numbers has a least one.
LEMMA LeastNumber ==
  ASSUME NEW S \in SUBSET Nat, S # {}
  PROVE  \E n \in S : \A m \in Nat : m < n => m \notin S
<1>1. PICK n \in S : \A m \in SetLessThan(n, OpToRel(<, Nat), Nat) : m \notin S
  BY NatLessThanWellFounded, WFMin DEF SetLessThan
<1> QED
  BY <1>1 DEF SetLessThan, OpToRel

-----------------------------------------------------------------------------
(***************************************************************************)
(* The greatest common divisor                                             *)
(***************************************************************************)

\* g divides a and b, and is a combination of them.
IsGcd(g, a, b) ==
  /\ g \in Nat /\ g > 0
  /\ \E p \in Int : a = g * p
  /\ \E q \in Int : b = g * q
  /\ \E s, t \in Int : g = a * s + b * t

\* One step of Euclid's algorithm
LEMMA EuclidStep ==
  ASSUME NEW a \in Nat, NEW b \in Nat, b > 0, NEW g, IsGcd(g, b, a % b)
  PROVE  IsGcd(g, a, b)
<1>1. PICK k \in Int : k = a \div b
  OBVIOUS
<1>2. PICK r \in Int : r = a % b
  OBVIOUS
<1>3. a = b * k + r
  BY <1>1, <1>2
<1>4. PICK p \in Int, q \in Int, s \in Int, t \in Int :
         b = g * p /\ r = g * q /\ g = b * s + r * t
  BY <1>2 DEF IsGcd
<1>5. g \in Int
  BY DEF IsGcd
<1>6. a = g * (p * k + q) /\ p * k + q \in Int
  BY <1>3, <1>4, <1>5
<1>7. g = a * t + b * (s - k * t) /\ s - k * t \in Int
  BY <1>3, <1>4, <1>5
<1> QED
  BY <1>4, <1>6, <1>7 DEF IsGcd

\* f is the recursive function of Gcd(_, b).
Euclid(f, b) ==
  f = [i \in 0..b |-> [n \in Nat |-> IF i = 0 THEN n ELSE f[n % i][i]]]

LEMMA EuclidExists ==
  ASSUME NEW b \in Nat
  PROVE  \E f : Euclid(f, b)
<1> DEFINE Bad == {k \in Nat : ~ \E f : Euclid(f, k)}
<1>1. ASSUME Bad # {} PROVE FALSE
  <2>1. PICK k \in Bad : \A m \in Nat : m < k => m \notin Bad
    <3>1. Bad \in SUBSET Nat
      OBVIOUS
    <3> HIDE DEF Bad
    <3> QED
      BY <1>1, <3>1, LeastNumber
  <2>2. k # 0
    <3>1. Euclid([i \in 0..0 |-> [n \in Nat |-> n]], 0)
      BY DEF Euclid
    <3> QED
      BY <3>1
  <2>3. k - 1 \in Nat /\ k - 1 < k
    BY <2>2
  <2>4. PICK f : Euclid(f, k - 1)
    BY <2>1, <2>3
  <2> DEFINE g == [i \in 0..k |->
                     IF i = k THEN [n \in Nat |-> f[n % k][k]] ELSE f[i]]
  <2>5. ASSUME NEW i \in 0..k
        PROVE  g[i] = [n \in Nat |-> IF i = 0 THEN n ELSE g[n % i][i]]
    <3>1. CASE i = k
      <4>1. g[i] = [n \in Nat |-> f[n % k][k]]
        BY <3>1
      <4>2. \A n \in Nat : n % k \in 0..k /\ n % k # k
        BY <2>2
      <4>3. \A n \in Nat : g[n % k] = f[n % k]
        BY <4>2
      <4> HIDE DEF g
      <4> QED
        BY <2>2, <3>1, <4>1, <4>3
    <3>2. CASE i # k
      <4>1. g[i] = f[i] /\ i \in 0..(k - 1)
        BY <3>2
      <4>2. f[i] = [n \in Nat |-> IF i = 0 THEN n ELSE f[n % i][i]]
        BY <2>4, <4>1 DEF Euclid
      <4>3. i # 0 => \A n \in Nat : n % i \in 0..k /\ n % i # k
        BY <3>2
      <4>4. i # 0 => \A n \in Nat : g[n % i] = f[n % i]
        BY <4>3
      <4> HIDE DEF g
      <4> QED
        BY <4>1, <4>2, <4>4
    <3> QED
      BY <3>1, <3>2
  <2>6. g = [i \in 0..k |-> g[i]]
    OBVIOUS
  <2>7. Euclid(g, k)
    <3> HIDE DEF g
    <3> QED
      BY <2>5, <2>6 DEF Euclid
  <2> QED
    BY <2>7
<1>2. b \notin Bad
  <2> HIDE DEF Bad
  <2> QED
    BY <1>1
<1> QED
  BY <1>2

\* What Gcd computes
LEMMA GcdCorrect ==
  ASSUME NEW a \in Nat, NEW b \in Nat, b > 0
  PROVE  IsGcd(Gcd(a, b), a, b)
<1> DEFINE gcd == CHOOSE f : Euclid(f, b)
<1>1. Gcd(a, b) = gcd[b][a]
  BY DEF Gcd, Euclid
<1>2. Euclid(gcd, b)
  BY EuclidExists
<1> HIDE DEF gcd
<1>3. \A i \in 0..b : \A n \in Nat : gcd[i][n] = IF i = 0 THEN n ELSE gcd[n % i][i]
  BY <1>2 DEF Euclid
<1> DEFINE Bad == {i \in 1..b : \E n \in Nat : ~IsGcd(gcd[i][n], n, i)}
<1>4. ASSUME Bad # {} PROVE FALSE
  <2>1. PICK i \in Bad : \A m \in Nat : m < i => m \notin Bad
    <3>1. Bad \in SUBSET Nat
      OBVIOUS
    <3> HIDE DEF Bad
    <3> QED
      BY <1>4, <3>1, LeastNumber
  <2>2. PICK n \in Nat : ~IsGcd(gcd[i][n], n, i)
    OBVIOUS
  <2>3. i \in Nat /\ i > 0 /\ i \in 0..b /\ n % i \in 0..(i - 1)
    OBVIOUS
  <2>4. gcd[i][n] = gcd[n % i][i]
    BY <1>3, <2>3
  <2>5. IsGcd(gcd[n % i][i], i, n % i)
    <3>1. CASE n % i = 0
      <4>1. gcd[n % i][i] = i
        BY <1>3, <2>3, <3>1
      <4>2. i = i * 1 /\ 0 = i * 0 /\ i = i * 1 + 0 * 0
        BY <2>3
      <4>3. \E p \in Int : i = i * p
        BY <4>2
      <4>4. \E q \in Int : 0 = i * q
        BY <4>2
      <4>5. \E s, t \in Int : i = i * s + 0 * t
        BY <4>2
      <4> QED
        BY <2>3, <3>1, <4>1, <4>3, <4>4, <4>5 DEF IsGcd
    <3>2. CASE n % i # 0
      <4>1. n % i \in 1..b /\ n % i \in Nat /\ n % i < i
        BY <2>3, <3>2
      <4>2. n % i \notin Bad
        BY <2>1, <4>1
      <4> QED
        BY <2>3, <4>1, <4>2
    <3> QED
      BY <3>1, <3>2
  <2> QED
    BY <2>2, <2>3, <2>4, <2>5, EuclidStep
<1>5. b \notin Bad /\ b \in 1..b
  <2>1. b \in 1..b
    OBVIOUS
  <2> HIDE DEF Bad
  <2> QED
    BY <1>4, <2>1
<1> QED
  BY <1>1, <1>5

-----------------------------------------------------------------------------
(***************************************************************************)
(* Fractions in lowest terms                                               *)
(***************************************************************************)

\* n and d have no common divisor.
Coprime(n, d) == \E s, t \in Int : n * s + d * t = 1

Decimals == {x \in Int \X (Nat \ {0}) : Coprime(x[1], x[2])}

LEMMA DecimalParts ==
  ASSUME NEW x \in Decimals
  PROVE  /\ x[1] \in Int /\ x[2] \in Int /\ x[2] > 0
         /\ x = <<x[1], x[2]>>
         /\ Coprime(x[1], x[2])
BY DEF Decimals

LEMMA DecimalPair ==
  ASSUME NEW n \in Int, NEW d \in Int, d > 0, Coprime(n, d)
  PROVE  <<n, d>> \in Decimals
BY DEF Decimals

\* d divides e when n / d = m / e and n / d is in lowest terms.
LEMMA LowestDivides ==
  ASSUME NEW n \in Int, NEW d \in Int, NEW m \in Int, NEW e \in Int,
         Coprime(n, d), n * e = m * d
  PROVE  \E k \in Int : e = d * k
<1>1. PICK s \in Int, t \in Int : n * s + d * t = 1
  BY DEF Coprime
<1>2. e * (n * s + d * t) = (n * e) * s + d * (e * t)
  OBVIOUS
<1>3. (m * d) * s + d * (e * t) = d * (m * s + e * t)
  OBVIOUS
<1>4. e * 1 = d * (m * s + e * t)
  BY <1>1, <1>2, <1>3
<1>5. m * s + e * t \in Int /\ e * 1 = e
  OBVIOUS
<1> QED
  BY <1>4, <1>5

\* Two numbers that divide each other are equal.
LEMMA DivideEachOther ==
  ASSUME NEW d \in Int, d > 0, NEW e \in Int, e > 0,
         NEW k \in Int, e = d * k, NEW j \in Int, d = e * j
  PROVE  d = e
<1>1. k > 0 /\ j > 0
  OBVIOUS
<1>2. d <= e /\ e <= d
  BY <1>1
<1> QED
  BY <1>2

\* A decimal is determined by its value.
LEMMA DecimalEqual ==
  ASSUME NEW x \in Decimals, NEW y \in Decimals, x[1] * y[2] = y[1] * x[2]
  PROVE  x = y
<1>1. PICK k \in Int : y[2] = x[2] * k
  BY DecimalParts, LowestDivides
<1>2. PICK j \in Int : x[2] = y[2] * j
  BY DecimalParts, LowestDivides
<1>3. x[2] = y[2]
  BY <1>1, <1>2, DecimalParts, DivideEachOther
<1>4. PICK d \in Int : d = x[2] /\ d > 0
  BY DecimalParts
<1>5. x[1] \in Int /\ y[1] \in Int /\ x[1] * d = y[1] * d
  BY <1>3, <1>4, DecimalParts
<1>6. x[1] = y[1]
  BY <1>4, <1>5
<1> QED
  BY <1>3, <1>6, DecimalParts

\* An exact quotient
LEMMA DivExact ==
  ASSUME NEW g \in Int, g > 0, NEW p \in Int
  PROVE  (g * p) \div g = p
<1>1. PICK n \in Int : n = g * p
  OBVIOUS
<1>2. PICK q \in Int, r \in Int : q = n \div g /\ n = g * q + r /\ 0 <= r /\ r < g
  OBVIOUS
<1>3. g * (p - q) = r
  BY <1>1, <1>2
<1>4. p - q = 0
  <2>1. PICK e \in Int : e = p - q
    OBVIOUS
  <2>2. ~(e >= 1)
    BY <1>2, <1>3, <2>1
  <2>3. ~(e <= -1)
    BY <1>2, <1>3, <2>1
  <2> QED
    BY <2>1, <2>2, <2>3
<1> QED
  BY <1>1, <1>2, <1>4

LEMMA MagnitudeType ==
  ASSUME NEW n \in Int
  PROVE  /\ Magnitude(n) \in Nat
         /\ n < 0 => Magnitude(n) = -n
         /\ ~(n < 0) => Magnitude(n) = n
BY DEF Magnitude

\* Frac(n, d) is n / d in lowest terms.
LEMMA FracCorrect ==
  ASSUME NEW n \in Int, NEW d \in Int, d > 0
  PROVE  /\ Frac(n, d) \in Decimals
         /\ Frac(n, d)[1] * d = n * Frac(n, d)[2]
         /\ \E g \in Int : g > 0 /\ n = g * Frac(n, d)[1] /\ d = g * Frac(n, d)[2]
<1>1. PICK g : g = Gcd(Magnitude(n), d)
  OBVIOUS
<1>2. IsGcd(g, Magnitude(n), d)
  BY <1>1, MagnitudeType, GcdCorrect
<1>3. g \in Int /\ g > 0
  BY <1>2 DEF IsGcd
<1>4. PICK p \in Int, q \in Int, s \in Int, t \in Int :
         n = g * p /\ d = g * q /\ g = n * s + d * t
  <2>1. PICK p \in Int, q \in Int, s \in Int, t \in Int :
           Magnitude(n) = g * p /\ d = g * q /\ g = Magnitude(n) * s + d * t
    BY <1>2 DEF IsGcd
  <2>2. CASE n < 0
    <3>1. n = g * (-p) /\ g = n * (-s) + d * t
      BY <1>3, <2>1, <2>2, MagnitudeType
    <3> WITNESS -p \in Int, q \in Int, -s \in Int, t \in Int
    <3> QED
      BY <2>1, <3>1, Zenon
  <2>3. CASE ~(n < 0)
    <3>1. Magnitude(n) = n
      BY <2>3, MagnitudeType
    <3> QED
      BY <2>1, <3>1, Zenon
  <2> QED
    BY <2>2, <2>3
<1>5. n \div g = p /\ d \div g = q
  BY <1>3, <1>4, DivExact
<1>6. Frac(n, d) = <<p, q>>
  BY <1>1, <1>5 DEF Frac, Reduced
<1>7. q > 0
  BY <1>3, <1>4
<1>8. p * s + q * t = 1
  <2>1. PICK e \in Int : e = p * s + q * t
    OBVIOUS
  <2>2. g * (p * s + q * t) = (g * p) * s + (g * q) * t
    BY <1>3
  <2>3. g * e = g
    BY <1>4, <2>1, <2>2
  <2> QED
    BY <1>3, <2>1, <2>3
<1>9. <<p, q>> \in Decimals
  BY <1>7, <1>8, DecimalPair DEF Coprime
<1>10. p * d = n * q
  BY <1>3, <1>4
<1>11. Frac(n, d)[1] = p /\ Frac(n, d)[2] = q
  BY <1>6
<1> QED
  BY <1>3, <1>4, <1>6, <1>9, <1>10, <1>11, Zenon

-----------------------------------------------------------------------------
(***************************************************************************)
(* Sums and products of decimals, by their value                           *)
(***************************************************************************)

LEMMA ConstantsType == Zero \in Decimals /\ One \in Decimals /\ Two \in Decimals
<1>1. 0 * 0 + 1 * 1 = 1 /\ 1 * 1 + 1 * 0 = 1 /\ 2 * 0 + 1 * 1 = 1
  OBVIOUS
<1>2. Coprime(0, 1) /\ Coprime(1, 1) /\ Coprime(2, 1)
  BY <1>1 DEF Coprime
<1> QED
  BY <1>2, DecimalPair DEF Zero, One, Two

LEMMA NegType ==
  ASSUME NEW x \in Decimals
  PROVE  Neg(x) \in Decimals /\ Neg(x)[1] = -x[1] /\ Neg(x)[2] = x[2]
<1>1. PICK n \in Int, d \in Int, s \in Int, t \in Int :
         x[1] = n /\ x[2] = d /\ d > 0 /\ n * s + d * t = 1
  BY DecimalParts DEF Coprime
<1>2. (-n) * (-s) + d * t = 1
  BY <1>1
<1>3. Coprime(-n, d)
  BY <1>2 DEF Coprime
<1> QED
  BY <1>1, <1>3, DecimalPair DEF Neg

LEMMA SumCorrect ==
  ASSUME NEW x \in Decimals, NEW y \in Decimals
  PROVE  /\ x \oplus y \in Decimals
         /\ (x \oplus y)[1] * (x[2] * y[2]) = (x[1] * y[2] + y[1] * x[2]) * (x \oplus y)[2]
<1>1. PICK n \in Int, d \in Int, m \in Int, e \in Int :
         x[1] = n /\ x[2] = d /\ d > 0 /\ y[1] = m /\ y[2] = e /\ e > 0
  BY DecimalParts
<1>2. PICK g : g = Gcd(d, e)
  OBVIOUS
<1>3. IsGcd(g, d, e)
  BY <1>1, <1>2, GcdCorrect
<1>4. PICK u \in Int, v \in Int : d = g * u /\ e = g * v
  BY <1>3 DEF IsGcd
<1>5. g \in Int /\ g > 0
  BY <1>3 DEF IsGcd
<1>6. d \div g = u /\ e \div g = v
  BY <1>4, <1>5, DivExact
<1>7. u > 0 /\ v > 0
  BY <1>1, <1>4, <1>5
<1>8. d * v \in Int /\ d * v > 0 /\ n * v + m * u \in Int
  BY <1>1, <1>7
<1>9. PICK r : r = Frac(n * v + m * u, d * v)
  OBVIOUS
<1>10. r \in Decimals /\ r[1] * (d * v) = (n * v + m * u) * r[2]
  BY <1>8, <1>9, FracCorrect
<1>11. x \oplus y = r
  BY <1>1, <1>2, <1>6, <1>9 DEF \oplus, Added
<1>12. PICK a \in Int, b \in Int : a = r[1] /\ b = r[2]
  BY <1>10, DecimalParts
<1>13. a * (d * e) = (n * e + m * d) * b
  <2>1. a * (d * e) = g * (a * (d * v))
    BY <1>4, <1>5
  <2>2. (n * e + m * d) * b = g * ((n * v + m * u) * b)
    BY <1>4, <1>5
  <2> QED
    BY <1>10, <1>12, <2>1, <2>2
<1> QED
  BY <1>1, <1>10, <1>11, <1>12, <1>13

\* A number coprime to two others is coprime to their product.
LEMMA CoprimeProduct ==
  ASSUME NEW n \in Int, NEW d \in Int, NEW e \in Int, Coprime(n, d), Coprime(n, e)
  PROVE  Coprime(n, d * e)
<1>1. PICK s \in Int, t \in Int : n * s + d * t = 1
  BY DEF Coprime
<1>2. PICK u \in Int, v \in Int : n * u + e * v = 1
  BY DEF Coprime
<1>3. n * (s * (n * u + e * v) + d * t * u) + (d * e) * (t * v)
        = (n * s + d * t) * (n * u + e * v)
  OBVIOUS
<1>4. s * (n * u + e * v) + d * t * u \in Int /\ t * v \in Int
  OBVIOUS
<1>5. (n * s + d * t) * (n * u + e * v) = 1
  BY <1>1, <1>2
<1> QED
  BY <1>3, <1>4, <1>5 DEF Coprime

\* Divisors of coprime numbers are coprime.
LEMMA CoprimeDivisors ==
  ASSUME NEW n \in Int, NEW d \in Int, NEW g \in Int, NEW h \in Int, Coprime(g * n, h * d)
  PROVE  Coprime(n, d)
<1>1. PICK s \in Int, t \in Int : (g * n) * s + (h * d) * t = 1
  BY DEF Coprime
<1>2. n * (g * s) + d * (h * t) = 1 /\ g * s \in Int /\ h * t \in Int
  BY <1>1
<1> QED
  BY <1>2 DEF Coprime

LEMMA CoprimeCommutes ==
  ASSUME NEW n \in Int, NEW d \in Int, Coprime(n, d)
  PROVE  Coprime(d, n)
<1>1. PICK s \in Int, t \in Int : n * s + d * t = 1
  BY DEF Coprime
<1>2. d * t + n * s = 1
  BY <1>1
<1> QED
  BY <1>2 DEF Coprime

LEMMA ProductCorrect ==
  ASSUME NEW x \in Decimals, NEW y \in Decimals
  PROVE  /\ x \otimes y \in Decimals
         /\ (x \otimes y)[1] * (x[2] * y[2]) = (x[1] * y[1]) * (x \otimes y)[2]
<1>1. PICK n \in Int, d \in Int, m \in Int, e \in Int :
         x[1] = n /\ x[2] = d /\ d > 0 /\ y[1] = m /\ y[2] = e /\ e > 0
  BY DecimalParts
<1>2. Coprime(n, d) /\ Coprime(m, e)
  BY <1>1, DecimalParts
<1>3. PICK a \in Int, b \in Int, g \in Int :
         Frac(n, e)[1] = a /\ Frac(n, e)[2] = b /\ b > 0 /\ Coprime(a, b)
           /\ n = g * a /\ e = g * b /\ g > 0
  <2>1. PICK f : f = Frac(n, e)
    OBVIOUS
  <2>2. f \in Decimals /\ \E g \in Int : g > 0 /\ n = g * f[1] /\ e = g * f[2]
    <3>1. n \in Int /\ e \in Int /\ e > 0
      BY <1>1
    <3>2. /\ Frac(n, e) \in Decimals
          /\ \E g \in Int : g > 0 /\ n = g * Frac(n, e)[1] /\ e = g * Frac(n, e)[2]
      BY <3>1, FracCorrect, Zenon
    <3> QED
      BY <2>1, <3>2, Zenon
  <2>3. f[1] \in Int /\ f[2] \in Int /\ f[2] > 0 /\ Coprime(f[1], f[2])
    BY <2>2, DecimalParts
  <2> QED
    BY <2>1, <2>2, <2>3, Zenon
<1>4. PICK p \in Int, q \in Int, h \in Int :
         Frac(m, d)[1] = p /\ Frac(m, d)[2] = q /\ q > 0 /\ Coprime(p, q)
           /\ m = h * p /\ d = h * q /\ h > 0
  <2>1. PICK f : f = Frac(m, d)
    OBVIOUS
  <2>2. f \in Decimals /\ \E k \in Int : k > 0 /\ m = k * f[1] /\ d = k * f[2]
    <3>1. m \in Int /\ d \in Int /\ d > 0
      BY <1>1
    <3>2. /\ Frac(m, d) \in Decimals
          /\ \E k \in Int : k > 0 /\ m = k * Frac(m, d)[1] /\ d = k * Frac(m, d)[2]
      BY <3>1, FracCorrect, Zenon
    <3> QED
      BY <2>1, <3>2, Zenon
  <2>3. f[1] \in Int /\ f[2] \in Int /\ f[2] > 0 /\ Coprime(f[1], f[2])
    BY <2>2, DecimalParts
  <2> QED
    BY <2>1, <2>2, <2>3, Zenon
<1>5. x \otimes y = <<a * p, b * q>>
  BY <1>1, <1>3, <1>4 DEF \otimes, Multiplied
<1>6. Coprime(a, q)
  <2>1. Coprime(g * a, h * q)
    BY <1>2, <1>3, <1>4, Zenon
  <2> QED
    BY <1>3, <1>4, <2>1, CoprimeDivisors, Zenon
<1>7. Coprime(p, b)
  <2>1. Coprime(h * p, g * b)
    BY <1>2, <1>3, <1>4, Zenon
  <2> QED
    BY <1>3, <1>4, <2>1, CoprimeDivisors, Zenon
<1>8. Coprime(a, b * q)
  BY <1>3, <1>4, <1>6, CoprimeProduct
<1>9. Coprime(p, b * q)
  BY <1>3, <1>4, <1>7, CoprimeProduct
<1>10. PICK w \in Int : w = b * q
  BY <1>3, <1>4
<1>11. Coprime(w, a) /\ Coprime(w, p)
  BY <1>8, <1>9, <1>10, CoprimeCommutes
<1>12. Coprime(a * p, w)
  BY <1>11, CoprimeProduct, CoprimeCommutes
<1>13. b * q > 0
  BY <1>3, <1>4
<1>14. <<a * p, b * q>> \in Decimals
  BY <1>10, <1>12, <1>13, DecimalPair
<1>15. (a * p) * (d * e) = (n * m) * (b * q)
  BY <1>3, <1>4
<1> QED
  BY <1>1, <1>5, <1>14, <1>15

-----------------------------------------------------------------------------
(***************************************************************************)
(* Decimals over a common denominator are calculated with as integers.     *)
(***************************************************************************)

\* x is n / d.
Over(x, n, d) == x[1] * d = n * x[2]

LEMMA OverItself ==
  ASSUME NEW x \in Decimals
  PROVE  Over(x, x[1], x[2])
BY DEF Over

LEMMA OverMore ==
  ASSUME NEW x \in Decimals, NEW n \in Int, NEW d \in Int, NEW k \in Int, Over(x, n, d)
  PROVE  Over(x, n * k, d * k)
<1>1. PICK a \in Int, b \in Int : x[1] = a /\ x[2] = b
  BY DecimalParts
<1>2. a * d = n * b
  BY <1>1 DEF Over
<1>3. a * (d * k) = (n * k) * b
  BY <1>2
<1> QED
  BY <1>1, <1>3 DEF Over

\* Decimals over the same denominator are equal when the numerators are.
LEMMA OverEqual ==
  ASSUME NEW x \in Decimals, NEW y \in Decimals, NEW n \in Int, NEW d \in Int, d > 0,
         Over(x, n, d), Over(y, n, d)
  PROVE  x = y
<1>1. PICK a \in Int, b \in Int : x[1] = a /\ x[2] = b
  BY DecimalParts
<1>2. PICK p \in Int, q \in Int : y[1] = p /\ y[2] = q
  BY DecimalParts
<1>3. a * d = n * b /\ p * d = n * q
  BY <1>1, <1>2 DEF Over
<1>4. (a * q) * d = q * (a * d) /\ (p * b) * d = b * (p * d)
  OBVIOUS
<1>5. q * (n * b) = b * (n * q)
  OBVIOUS
<1>6. (a * q) * d = (p * b) * d
  BY <1>3, <1>4, <1>5
<1>7. PICK u \in Int, v \in Int : u = a * q /\ v = p * b
  OBVIOUS
<1>8. u = v
  BY <1>6, <1>7
<1> QED
  BY <1>1, <1>2, <1>7, <1>8, DecimalEqual

\* And the numerators are equal when they are.
LEMMA OverUnique ==
  ASSUME NEW x \in Decimals, NEW n \in Int, NEW m \in Int, NEW d \in Int,
         Over(x, n, d), Over(x, m, d)
  PROVE  n = m
<1>1. PICK a \in Int, b \in Int : x[1] = a /\ x[2] = b /\ b > 0
  BY DecimalParts
<1>2. n * b = m * b
  BY <1>1 DEF Over
<1> QED
  BY <1>1, <1>2

LEMMA OverNeg ==
  ASSUME NEW x \in Decimals, NEW n \in Int, NEW d \in Int, Over(x, n, d)
  PROVE  Over(Neg(x), -n, d)
<1>1. PICK a \in Int, b \in Int : x[1] = a /\ x[2] = b
  BY DecimalParts
<1>2. (-a) * d = (-n) * b
  BY <1>1 DEF Over
<1> QED
  BY <1>1, <1>2, NegType DEF Over

LEMMA OverSum ==
  ASSUME NEW x \in Decimals, NEW y \in Decimals, NEW n \in Int, NEW m \in Int, NEW d \in Int,
         Over(x, n, d), Over(y, m, d)
  PROVE  Over(x \oplus y, n + m, d)
<1>1. PICK a \in Int, b \in Int : x[1] = a /\ x[2] = b /\ b > 0
  BY DecimalParts
<1>2. PICK p \in Int, q \in Int : y[1] = p /\ y[2] = q /\ q > 0
  BY DecimalParts
<1>3. PICK u \in Int, v \in Int : (x \oplus y)[1] = u /\ (x \oplus y)[2] = v
  BY SumCorrect, DecimalParts
<1>4. a * d = n * b /\ p * d = m * q
  BY <1>1, <1>2 DEF Over
<1>5. u * (b * q) = (a * q + p * b) * v
  BY <1>1, <1>2, <1>3, SumCorrect
<1>6. (u * d) * (b * q) = ((a * d) * q + (p * d) * b) * v
  <2>1. (u * d) * (b * q) = d * (u * (b * q))
    OBVIOUS
  <2>2. ((a * d) * q + (p * d) * b) * v = d * ((a * q + p * b) * v)
    OBVIOUS
  <2> QED
    BY <1>5, <2>1, <2>2
<1>7. ((n * b) * q + (m * q) * b) * v = ((n + m) * v) * (b * q)
  OBVIOUS
<1>8. PICK w \in Int : w = b * q /\ w > 0
  BY <1>1, <1>2
<1>9. PICK l \in Int, r \in Int : l = u * d /\ r = (n + m) * v
  OBVIOUS
<1>10. l * w = r * w
  BY <1>4, <1>6, <1>7, <1>8, <1>9
<1>11. l = r
  BY <1>8, <1>10
<1> QED
  BY <1>3, <1>9, <1>11 DEF Over

LEMMA OverProduct ==
  ASSUME NEW x \in Decimals, NEW y \in Decimals, NEW n \in Int, NEW m \in Int,
         NEW d \in Int, NEW e \in Int, Over(x, n, d), Over(y, m, e)
  PROVE  Over(x \otimes y, n * m, d * e)
<1>1. PICK a \in Int, b \in Int : x[1] = a /\ x[2] = b /\ b > 0
  BY DecimalParts
<1>2. PICK p \in Int, q \in Int : y[1] = p /\ y[2] = q /\ q > 0
  BY DecimalParts
<1>3. PICK u \in Int, v \in Int : (x \otimes y)[1] = u /\ (x \otimes y)[2] = v
  BY ProductCorrect, DecimalParts
<1>4. a * d = n * b /\ p * e = m * q
  BY <1>1, <1>2 DEF Over
<1>5. u * (b * q) = (a * p) * v
  BY <1>1, <1>2, <1>3, ProductCorrect
<1>6. (u * (d * e)) * (b * q) = ((a * d) * (p * e)) * v
  <2>1. (u * (d * e)) * (b * q) = (d * e) * (u * (b * q))
    OBVIOUS
  <2>2. ((a * d) * (p * e)) * v = (d * e) * ((a * p) * v)
    OBVIOUS
  <2> QED
    BY <1>5, <2>1, <2>2
<1>7. ((n * b) * (m * q)) * v = ((n * m) * v) * (b * q)
  OBVIOUS
<1>8. PICK w \in Int : w = b * q /\ w > 0
  BY <1>1, <1>2
<1>9. PICK l \in Int, r \in Int : l = u * (d * e) /\ r = (n * m) * v
  OBVIOUS
<1>10. l * w = r * w
  BY <1>4, <1>6, <1>7, <1>8, <1>9
<1>11. l = r
  BY <1>8, <1>10
<1> QED
  BY <1>3, <1>9, <1>11 DEF Over

\* The sign of a decimal is that of its numerator.
LEMMA OverSign ==
  ASSUME NEW x \in Decimals, NEW n \in Int, NEW d \in Int, d > 0, Over(x, n, d)
  PROVE  Sign(x) = IF n > 0 THEN 1 ELSE IF n < 0 THEN -1 ELSE 0
<1>1. PICK a \in Int, b \in Int : x[1] = a /\ x[2] = b /\ b > 0
  BY DecimalParts
<1>2. a * d = n * b
  BY <1>1 DEF Over
<1>3. a > 0 <=> n > 0
  BY <1>1, <1>2
<1>4. a < 0 <=> n < 0
  BY <1>1, <1>2
<1> QED
  BY <1>1, <1>3, <1>4 DEF Sign

LEMMA OverDifference ==
  ASSUME NEW x \in Decimals, NEW y \in Decimals, NEW n \in Int, NEW m \in Int, NEW d \in Int,
         Over(x, n, d), Over(y, m, d)
  PROVE  x \ominus y \in Decimals /\ Over(x \ominus y, n - m, d)
<1>1. Neg(y) \in Decimals /\ Over(Neg(y), -m, d) /\ -m \in Int /\ n + (-m) = n - m
  BY NegType, OverNeg
<1>2. Over(x \oplus Neg(y), n + (-m), d)
  BY <1>1, OverSum, Zenon
<1> QED
  BY <1>1, <1>2, SumCorrect DEF \ominus

\* Decimals over the same denominator are ordered as the numerators are.
LEMMA OverOrder ==
  ASSUME NEW x \in Decimals, NEW y \in Decimals, NEW n \in Int, NEW m \in Int, NEW d \in Int,
         d > 0, Over(x, n, d), Over(y, m, d)
  PROVE  (x \prec y <=> n < m) /\ (x \preceq y <=> n <= m)
<1>1. x \ominus y \in Decimals /\ Over(x \ominus y, n - m, d)
  BY OverDifference
<1>2. PICK k \in Int : k = n - m
  OBVIOUS
<1>3. Sign(x \ominus y) = IF k > 0 THEN 1 ELSE IF k < 0 THEN -1 ELSE 0
  BY <1>1, <1>2, OverSign, Zenon
<1> QED
  BY <1>2, <1>3 DEF \prec, \preceq

LEMMA ConstantsOver ==
  ASSUME NEW d \in Int
  PROVE  Over(Zero, 0, d) /\ Over(One, d, d) /\ Over(Two, 2 * d, d)
BY DEF Over, Zero, One, Two

\* Any three decimals have a common denominator.
LEMMA CommonDenominator ==
  ASSUME NEW x \in Decimals, NEW y \in Decimals, NEW z \in Decimals
  PROVE  \E d \in Int : d > 0 /\ \E n, m, l \in Int : Over(x, n, d) /\ Over(y, m, d) /\ Over(z, l, d)
<1>1. PICK a \in Int, b \in Int : x[1] = a /\ x[2] = b /\ b > 0
  BY DecimalParts
<1>2. PICK p \in Int, q \in Int : y[1] = p /\ y[2] = q /\ q > 0
  BY DecimalParts
<1>3. PICK u \in Int, v \in Int : z[1] = u /\ z[2] = v /\ v > 0
  BY DecimalParts
<1>4. PICK d \in Int : d = b * (q * v) /\ d > 0
  <2>1. b * (q * v) > 0
    BY <1>1, <1>2, <1>3
  <2> QED
    BY <2>1
<1>5. Over(x, a * (q * v), d)
  BY <1>1, <1>4 DEF Over
<1>6. Over(y, p * (b * v), d)
  BY <1>2, <1>4 DEF Over
<1>7. Over(z, u * (b * q), d)
  BY <1>3, <1>4 DEF Over
<1>8. a * (q * v) \in Int /\ p * (b * v) \in Int /\ u * (b * q) \in Int
  OBVIOUS
<1> QED
  BY <1>4, <1>5, <1>6, <1>7, <1>8, Zenon

LEMMA IsDecimalType ==
  ASSUME NEW x, IsDecimal(x)
  PROVE  x \in Decimals
<1>1. PICK n \in Int, d \in Int : x[1] = n /\ x[2] = d /\ d > 0
  BY DEF IsDecimal
<1> QED
  BY <1>1, FracCorrect DEF IsDecimal

LEMMA SumType ==
  ASSUME NEW x \in Decimals, NEW y \in Decimals
  PROVE  x \oplus y \in Decimals /\ x \ominus y \in Decimals
BY SumCorrect, NegType DEF \ominus

LEMMA SumZero ==
  ASSUME NEW x \in Decimals
  PROVE  Zero \oplus x = x /\ x \oplus Zero = x
<1>1. PICK d \in Int, n \in Int : d > 0 /\ Over(x, n, d)
  BY CommonDenominator
<1>2. Over(Zero, 0, d) /\ 0 \in Int /\ 0 + n = n /\ n + 0 = n
  BY <1>1, ConstantsOver
<1>3. Over(Zero \oplus x, n, d) /\ Over(x \oplus Zero, n, d)
  <2>1. Over(Zero \oplus x, 0 + n, d)
    BY <1>1, <1>2, ConstantsType, OverSum, Zenon
  <2>2. Over(x \oplus Zero, n + 0, d)
    BY <1>1, <1>2, ConstantsType, OverSum, Zenon
  <2> QED
    BY <1>2, <2>1, <2>2
<1> QED
  BY <1>1, <1>3, ConstantsType, SumType, OverEqual, Zenon

\* What is taken off is put back.
LEMMA SumDifference ==
  ASSUME NEW x \in Decimals, NEW y \in Decimals
  PROVE  x \oplus (y \ominus x) = y
<1>1. PICK d \in Int, n \in Int, m \in Int : d > 0 /\ Over(x, n, d) /\ Over(y, m, d)
  BY CommonDenominator
<1>2. y \ominus x \in Decimals /\ Over(y \ominus x, m - n, d)
  BY <1>1, OverDifference, Zenon
<1>3. m - n \in Int /\ n + (m - n) = m
  OBVIOUS
<1>4. Over(x \oplus (y \ominus x), n + (m - n), d)
  BY <1>1, <1>2, <1>3, OverSum, Zenon
<1>5. Over(x \oplus (y \ominus x), m, d)
  BY <1>3, <1>4
<1> QED
  BY <1>1, <1>2, <1>5, SumType, OverEqual, Zenon

LEMMA ClosingType ==
  ASSUME NEW x \in Decimals, NEW y \in Decimals
  PROVE  Closing(x, y) \in Decimals /\ Opening(x, y) \in Decimals
           /\ Closing(x, y) \oplus Opening(x, y) = y
<1>1. Closing(x, y) \in Decimals
  BY ConstantsType, NegType DEF Closing
<1> QED
  BY <1>1, SumType, SumDifference DEF Opening

-----------------------------------------------------------------------------
(***************************************************************************)
(* Sums and the order, over a denominator that fits all decimals of an     *)
(* argument: what follows there for integers follows for decimals.         *)
(***************************************************************************)

Fit(d) == {x \in Decimals : \E n \in Int : Over(x, n, d)}

Num(x, d) == CHOOSE n \in Int : Over(x, n, d)

LEMMA NumOver ==
  ASSUME NEW d \in Int, d > 0, NEW x \in Fit(d)
  PROVE  x \in Decimals /\ Num(x, d) \in Int /\ Over(x, Num(x, d), d)
BY DEF Fit, Num

LEMMA NumIs ==
  ASSUME NEW d \in Int, d > 0, NEW x \in Decimals, NEW n \in Int, Over(x, n, d)
  PROVE  x \in Fit(d) /\ Num(x, d) = n
<1>1. x \in Fit(d)
  BY DEF Fit
<1> QED
  BY <1>1, NumOver, OverUnique

\* Sums, differences and the order are those of the numerators.
Linear(d) ==
  /\ Zero \in Fit(d) /\ Num(Zero, d) = 0
  /\ \A x \in Fit(d) : x \in Decimals /\ Num(x, d) \in Int
  /\ \A x \in Fit(d) : Neg(x) \in Fit(d) /\ Num(Neg(x), d) = -Num(x, d)
  /\ \A x, y \in Fit(d) : x \oplus y \in Fit(d) /\ Num(x \oplus y, d) = Num(x, d) + Num(y, d)
  /\ \A x, y \in Fit(d) : x \ominus y \in Fit(d) /\ Num(x \ominus y, d) = Num(x, d) - Num(y, d)
  /\ \A x, y \in Fit(d) : x \prec y <=> Num(x, d) < Num(y, d)
  /\ \A x, y \in Fit(d) : x \preceq y <=> Num(x, d) <= Num(y, d)
  /\ \A x, y \in Fit(d) : Num(x, d) = Num(y, d) => x = y

LEMMA FitLinear ==
  ASSUME NEW d \in Int, d > 0
  PROVE  Linear(d)
<1>1. Zero \in Fit(d) /\ Num(Zero, d) = 0
  BY ConstantsType, ConstantsOver, NumIs
<1>2. ASSUME NEW x \in Fit(d)
      PROVE  /\ x \in Decimals /\ Num(x, d) \in Int
             /\ Neg(x) \in Fit(d) /\ Num(Neg(x), d) = -Num(x, d)
  <2>1. PICK n \in Int : n = Num(x, d) /\ x \in Decimals /\ Over(x, n, d)
    BY NumOver
  <2>2. PICK m \in Int : m = -n
    OBVIOUS
  <2>3. Neg(x) \in Decimals /\ Over(Neg(x), m, d)
    BY <2>1, <2>2, NegType, OverNeg
  <2> QED
    BY <2>1, <2>2, <2>3, NumIs
<1>3. ASSUME NEW x \in Fit(d), NEW y \in Fit(d)
      PROVE  /\ x \oplus y \in Fit(d) /\ Num(x \oplus y, d) = Num(x, d) + Num(y, d)
             /\ x \ominus y \in Fit(d) /\ Num(x \ominus y, d) = Num(x, d) - Num(y, d)
             /\ x \prec y <=> Num(x, d) < Num(y, d)
             /\ x \preceq y <=> Num(x, d) <= Num(y, d)
             /\ Num(x, d) = Num(y, d) => x = y
  <2>1. PICK n \in Int : n = Num(x, d) /\ x \in Decimals /\ Over(x, n, d)
    BY NumOver
  <2>2. PICK m \in Int : m = Num(y, d) /\ y \in Decimals /\ Over(y, m, d)
    BY NumOver
  <2>3. PICK k \in Int, l \in Int : k = n + m /\ l = n - m
    OBVIOUS
  <2>4. x \oplus y \in Decimals /\ Over(x \oplus y, k, d)
    BY <2>1, <2>2, <2>3, SumType, OverSum
  <2>5. x \ominus y \in Decimals /\ Over(x \ominus y, l, d)
    BY <2>1, <2>2, <2>3, OverDifference
  <2>6. (x \prec y <=> n < m) /\ (x \preceq y <=> n <= m)
    BY <2>1, <2>2, OverOrder, Zenon
  <2>7. n = m => x = y
    BY <2>1, <2>2, OverEqual
  <2>8. /\ x \oplus y \in Fit(d) /\ Num(x \oplus y, d) = k
        /\ x \ominus y \in Fit(d) /\ Num(x \ominus y, d) = l
    BY <2>4, <2>5, NumIs
  <2> QED
    BY <2>1, <2>2, <2>3, <2>6, <2>7, <2>8
<1> QED
  BY <1>1, <1>2, <1>3 DEF Linear

LEMMA FitMore ==
  ASSUME NEW d \in Int, d > 0, NEW x \in Decimals
  PROVE  \E e \in Int : e > 0 /\ x \in Fit(e) /\ \A y \in Fit(d) : y \in Fit(e)
<1>1. PICK a \in Int, b \in Int : x[1] = a /\ x[2] = b /\ b > 0
  BY DecimalParts
<1>2. PICK e \in Int : e = d * b /\ e > 0
  <2>1. d * b > 0
    BY <1>1
  <2> QED
    BY <2>1
<1>3. x \in Fit(e)
  <2>1. Over(x, a * d, e)
    BY <1>1, <1>2 DEF Over
  <2> QED
    BY <2>1 DEF Fit
<1>4. ASSUME NEW y \in Fit(d) PROVE y \in Fit(e)
  <2>1. PICK n \in Int : Over(y, n, d) /\ y \in Decimals
    BY DEF Fit
  <2>2. Over(y, n * b, e)
    BY <1>2, <2>1, OverMore
  <2>3. n * b \in Int
    OBVIOUS
  <2> QED
    BY <2>1, <2>2, <2>3 DEF Fit
<1> QED
  BY <1>2, <1>3, <1>4

\* A denominator that fits four more decimals
LEMMA FitMoreFour ==
  ASSUME NEW d \in Int, d > 0, NEW x1 \in Decimals, NEW x2 \in Decimals,
         NEW x3 \in Decimals, NEW x4 \in Decimals
  PROVE  \E e \in Int : /\ e > 0 /\ Linear(e) /\ \A y \in Fit(d) : y \in Fit(e)
                        /\ x1 \in Fit(e) /\ x2 \in Fit(e) /\ x3 \in Fit(e) /\ x4 \in Fit(e)
<1>1. PICK a \in Int : a > 0 /\ x1 \in Fit(a) /\ \A y \in Fit(d) : y \in Fit(a)
  BY FitMore
<1>2. PICK b \in Int : b > 0 /\ x2 \in Fit(b) /\ \A y \in Fit(a) : y \in Fit(b)
  BY <1>1, FitMore
<1>3. PICK c \in Int : c > 0 /\ x3 \in Fit(c) /\ \A y \in Fit(b) : y \in Fit(c)
  BY <1>2, FitMore
<1>4. PICK e \in Int : e > 0 /\ x4 \in Fit(e) /\ \A y \in Fit(c) : y \in Fit(e)
  BY <1>3, FitMore
<1>5. Linear(e)
  BY <1>4, FitLinear
<1> QED
  BY <1>1, <1>2, <1>3, <1>4, <1>5

LEMMA FitFour ==
  ASSUME NEW x1 \in Decimals, NEW x2 \in Decimals, NEW x3 \in Decimals, NEW x4 \in Decimals
  PROVE  \E e \in Int : /\ e > 0 /\ Linear(e)
                        /\ x1 \in Fit(e) /\ x2 \in Fit(e) /\ x3 \in Fit(e) /\ x4 \in Fit(e)
BY FitMoreFour, 1 \in Int /\ 1 > 0

\* The laws of sums, and of differences
LEMMA SumLaws ==
  ASSUME NEW x \in Decimals, NEW y \in Decimals, NEW z \in Decimals
  PROVE  /\ x \oplus y = y \oplus x
         /\ (x \oplus y) \oplus z = x \oplus (y \oplus z)
         /\ (x \oplus y) \ominus y = x
         /\ x \preceq y <=> ~(y \prec x)
         /\ x \prec y /\ y \prec z => x \prec z
         /\ x \preceq y /\ y \preceq z => x \preceq z
         /\ x \preceq y /\ y \prec z => x \prec z
<1>1. PICK d \in Int : Linear(d) /\ x \in Fit(d) /\ y \in Fit(d) /\ z \in Fit(d)
  BY FitFour
<1> QED
  BY <1>1 DEF Linear

-----------------------------------------------------------------------------
(***************************************************************************)
(* Products and quotients                                                  *)
(***************************************************************************)

LEMMA LessIsAtMost ==
  ASSUME NEW x \in Decimals, Zero \prec x
  PROVE  Zero \preceq x /\ x # Zero
<1>1. PICK d \in Int : Linear(d) /\ x \in Fit(d)
  BY FitFour
<1> QED
  BY <1>1 DEF Linear

LEMMA ProductType ==
  ASSUME NEW x \in Decimals, NEW y \in Decimals
  PROVE  x \otimes y \in Decimals
BY ProductCorrect

LEMMA ProductCommutes ==
  ASSUME NEW x \in Decimals, NEW y \in Decimals
  PROVE  x \otimes y = y \otimes x
<1>1. PICK d \in Int, n \in Int, m \in Int : d > 0 /\ Over(x, n, d) /\ Over(y, m, d)
  BY CommonDenominator
<1>2. PICK k \in Int, e \in Int : k = n * m /\ e = d * d /\ e > 0
  <2>1. d * d > 0
    BY <1>1
  <2> QED
    BY <2>1
<1>3. Over(x \otimes y, n * m, d * d) /\ Over(y \otimes x, m * n, d * d)
  BY <1>1, OverProduct
<1>4. m * n = n * m
  OBVIOUS
<1> QED
  BY <1>2, <1>3, <1>4, ProductType, OverEqual

LEMMA ProductAssociates ==
  ASSUME NEW x \in Decimals, NEW y \in Decimals, NEW z \in Decimals
  PROVE  (x \otimes y) \otimes z = x \otimes (y \otimes z)
<1>1. PICK d \in Int, n \in Int, m \in Int, l \in Int :
         d > 0 /\ Over(x, n, d) /\ Over(y, m, d) /\ Over(z, l, d)
  BY CommonDenominator
<1>2. PICK nm \in Int, ml \in Int, dd \in Int : nm = n * m /\ ml = m * l /\ dd = d * d
  OBVIOUS
<1>3. Over(x \otimes y, nm, dd) /\ Over(y \otimes z, ml, dd)
  BY <1>1, <1>2, OverProduct
<1>4. Over((x \otimes y) \otimes z, nm * l, dd * d) /\ Over(x \otimes (y \otimes z), n * ml, d * dd)
  BY <1>1, <1>3, ProductType, OverProduct
<1>5. nm * l = n * ml /\ dd * d = d * dd /\ d * dd > 0
  BY <1>1, <1>2
<1>6. PICK k \in Int, e \in Int : k = n * ml /\ e = d * dd
  OBVIOUS
<1> QED
  BY <1>4, <1>5, <1>6, ProductType, OverEqual

LEMMA ProductDistributes ==
  ASSUME NEW x \in Decimals, NEW y \in Decimals, NEW z \in Decimals
  PROVE  /\ x \otimes (y \oplus z) = (x \otimes y) \oplus (x \otimes z)
         /\ (y \oplus z) \otimes x = (y \otimes x) \oplus (z \otimes x)
<1>1. PICK d \in Int, n \in Int, m \in Int, l \in Int :
         d > 0 /\ Over(x, n, d) /\ Over(y, m, d) /\ Over(z, l, d)
  BY CommonDenominator
<1>2. PICK nm \in Int, nl \in Int, dd \in Int, k \in Int :
         nm = n * m /\ nl = n * l /\ dd = d * d /\ k = m + l
  OBVIOUS
<1>3. Over(x \otimes y, nm, dd) /\ Over(x \otimes z, nl, dd)
  BY <1>1, <1>2, OverProduct
<1>4. y \oplus z \in Decimals /\ Over(y \oplus z, k, d)
  BY <1>1, <1>2, SumType, OverSum
<1>5. Over(x \otimes (y \oplus z), n * k, dd)
  BY <1>1, <1>2, <1>4, OverProduct
<1>6. Over((x \otimes y) \oplus (x \otimes z), nm + nl, dd)
  BY <1>3, ProductType, OverSum
<1>7. nm + nl = n * k /\ dd > 0 /\ nm + nl \in Int
  BY <1>1, <1>2
<1>8. x \otimes (y \oplus z) = (x \otimes y) \oplus (x \otimes z)
  BY <1>4, <1>5, <1>6, <1>7, ProductType, SumType, OverEqual
<1> QED
  BY <1>4, <1>8, ProductCommutes

LEMMA ProductNeg ==
  ASSUME NEW x \in Decimals, NEW y \in Decimals
  PROVE  Neg(x) \otimes y = Neg(x \otimes y) /\ x \otimes Neg(y) = Neg(x \otimes y)
<1>1. PICK d \in Int, n \in Int, m \in Int : d > 0 /\ Over(x, n, d) /\ Over(y, m, d)
  BY CommonDenominator
<1>2. PICK k \in Int, e \in Int, nn \in Int, mm \in Int :
         k = n * m /\ e = d * d /\ nn = -n /\ mm = -m
  OBVIOUS
<1>3. Over(x \otimes y, k, e)
  BY <1>1, <1>2, OverProduct
<1>4. Over(Neg(x \otimes y), -k, e) /\ Neg(x \otimes y) \in Decimals
  BY <1>3, ProductType, OverNeg, NegType
<1>5. /\ Neg(x) \in Decimals /\ Over(Neg(x), nn, d)
      /\ Neg(y) \in Decimals /\ Over(Neg(y), mm, d)
  BY <1>1, <1>2, OverNeg, NegType
<1>6. Over(Neg(x) \otimes y, nn * m, e) /\ Over(x \otimes Neg(y), n * mm, e)
  BY <1>1, <1>2, <1>5, OverProduct
<1>7. nn * m = -k /\ n * mm = -k /\ -k \in Int /\ e > 0
  BY <1>1, <1>2
<1> QED
  BY <1>4, <1>5, <1>6, <1>7, ProductType, OverEqual

LEMMA ProductOne ==
  ASSUME NEW x \in Decimals
  PROVE  /\ One \otimes x = x /\ x \otimes One = x
         /\ Zero \otimes x = Zero /\ x \otimes Zero = Zero
         /\ Two \otimes x = x \oplus x
<1>1. PICK d \in Int, n \in Int : d > 0 /\ Over(x, n, d)
  BY CommonDenominator
<1>2. Over(One, 1, 1) /\ Over(Zero, 0, 1) /\ Over(Two, 2, 1)
  BY DEF Over, One, Zero, Two
<1>3. /\ Over(One \otimes x, 1 * n, 1 * d)
      /\ Over(Zero \otimes x, 0 * n, 1 * d)
      /\ Over(Two \otimes x, 2 * n, 1 * d)
  BY <1>1, <1>2, ConstantsType, OverProduct
<1>4. 1 * n = n /\ 1 * d = d /\ 0 * n = 0 /\ 2 * n = n + n /\ n + n \in Int
  OBVIOUS
<1>5. Over(One \otimes x, n, d) /\ Over(Zero \otimes x, 0, d) /\ Over(Two \otimes x, n + n, d)
  BY <1>3, <1>4
<1>6. Over(x \oplus x, n + n, d) /\ x \oplus x \in Decimals /\ Over(Zero, 0, d)
  BY <1>1, OverSum, SumType, ConstantsOver
<1>7. One \otimes x = x /\ Zero \otimes x = Zero /\ Two \otimes x = x \oplus x
  BY <1>1, <1>4, <1>5, <1>6, ConstantsType, ProductType, OverEqual
<1> QED
  BY <1>7, ConstantsType, ProductCommutes

\* The sign of a decimal, by the order
LEMMA SignOrder ==
  ASSUME NEW x \in Decimals
  PROVE  /\ Sign(x) > 0 <=> Zero \prec x
         /\ Sign(x) < 0 <=> x \prec Zero
         /\ Sign(x) = 0 <=> x = Zero
         /\ Sign(x) \in {-1, 0, 1}
<1>1. PICK d \in Int, n \in Int : d > 0 /\ Over(x, n, d)
  BY CommonDenominator
<1>2. Sign(x) = IF n > 0 THEN 1 ELSE IF n < 0 THEN -1 ELSE 0
  BY <1>1, OverSign, Zenon
<1>3. Over(Zero, 0, d)
  BY ConstantsOver
<1>4. (Zero \prec x <=> 0 < n) /\ (x \prec Zero <=> n < 0)
  BY <1>1, <1>3, ConstantsType, OverOrder
<1>5. n = 0 <=> x = Zero
  BY <1>1, <1>3, ConstantsType, OverEqual, OverUnique
<1> QED
  BY <1>2, <1>4, <1>5

\* The sign of a product
LEMMA AbsOfSign ==
  ASSUME NEW x \in Decimals
  PROVE  /\ Zero \prec x => AbsOf(x) = x
         /\ x \prec Zero => AbsOf(x) = Neg(x)
         /\ AbsOf(x) \in Decimals /\ Sign(AbsOf(x)) >= 0
<1>1. x[1] \in Int /\ x[2] \in Int /\ x = <<x[1], x[2]>>
  BY DecimalParts
<1>2. Zero \prec x => x[1] > 0
  BY <1>1, SignOrder DEF Sign
<1>3. x \prec Zero => x[1] < 0
  BY <1>1, SignOrder DEF Sign
<1>4. x[1] < 0 => AbsOf(x) = Neg(x) /\ Neg(x)[1] > 0
  BY <1>1, MagnitudeType DEF AbsOf, Neg
<1>5. ~(x[1] < 0) => AbsOf(x) = x
  BY <1>1, MagnitudeType DEF AbsOf
<1>6. AbsOf(x) \in Decimals
  BY <1>4, <1>5, NegType
<1>7. Sign(AbsOf(x)) >= 0
  BY <1>1, <1>4, <1>5 DEF Sign
<1> QED
  BY <1>1, <1>2, <1>3, <1>4, <1>5, <1>6, <1>7

LEMMA ProductSign ==
  ASSUME NEW x \in Decimals, NEW y \in Decimals
  PROVE  /\ Zero \prec x /\ Zero \prec y => Zero \prec x \otimes y
         /\ Zero \prec x /\ y \prec Zero => x \otimes y \prec Zero
         /\ Zero \preceq x /\ Zero \preceq y => Zero \preceq x \otimes y
         /\ Zero \prec x /\ Zero \prec x \otimes y => Zero \prec y
         /\ Zero \prec x /\ x \otimes y \prec Zero => y \prec Zero
         /\ Zero \preceq x \otimes x
<1>1. PICK d \in Int, n \in Int, m \in Int : d > 0 /\ Over(x, n, d) /\ Over(y, m, d)
  BY CommonDenominator
<1>2. PICK k \in Int, e \in Int, j \in Int : k = n * m /\ e = d * d /\ j = n * n
  OBVIOUS
<1>3. Over(x \otimes y, k, e) /\ Over(x \otimes x, j, e) /\ Over(Zero, 0, d) /\ Over(Zero, 0, e)
  BY <1>1, <1>2, OverProduct, ConstantsOver
<1>4. e > 0
  BY <1>1, <1>2
<1>5. /\ Zero \prec x <=> 0 < n
      /\ Zero \preceq x <=> 0 <= n
  BY <1>1, <1>3, ConstantsType, OverOrder
<1>6. /\ Zero \prec y <=> 0 < m
      /\ Zero \preceq y <=> 0 <= m
      /\ y \prec Zero <=> m < 0
  BY <1>1, <1>3, ConstantsType, OverOrder
<1>7. /\ Zero \prec x \otimes y <=> 0 < k
      /\ Zero \preceq x \otimes y <=> 0 <= k
      /\ x \otimes y \prec Zero <=> k < 0
      /\ Zero \preceq x \otimes x <=> 0 <= j
  BY <1>3, <1>4, ConstantsType, ProductType, OverOrder
<1>8. /\ 0 < n /\ 0 < m => 0 < k
      /\ 0 < n /\ m < 0 => k < 0
      /\ 0 <= n /\ 0 <= m => 0 <= k
      /\ 0 < n /\ 0 < k => 0 < m
      /\ 0 < n /\ k < 0 => m < 0
      /\ 0 <= j
  <2>1. 0 < n /\ 0 < m => 0 < k
    BY <1>2
  <2>2. 0 < n /\ m < 0 => k < 0
    BY <1>2
  <2>3. n = 0 \/ m = 0 => k = 0
    BY <1>2
  <2>4. 0 <= j
    BY <1>2
  <2> QED
    BY <2>1, <2>2, <2>3, <2>4
<1> QED
  BY <1>5, <1>6, <1>7, <1>8

\* Dividing by something that is not zero
LEMMA QuotientCorrect ==
  ASSUME NEW x \in Decimals, NEW y \in Decimals, y # Zero
  PROVE  x \oslash y \in Decimals /\ (x \oslash y) \otimes y = x
<1>1. PICK n \in Int, d \in Int : y[1] = n /\ y[2] = d /\ d > 0 /\ y = <<n, d>> /\ Coprime(n, d)
  BY DecimalParts
<1>2. n # 0
  <2>1. SUFFICES ASSUME n = 0 PROVE FALSE
    OBVIOUS
  <2>2. Over(y, 0, d) /\ Over(Zero, 0, d)
    BY <1>1, <2>1, ConstantsOver DEF Over
  <2> QED
    BY <1>1, <2>2, ConstantsType, OverEqual
<1>3. Coprime(d, n)
  BY <1>1, CoprimeCommutes
<1>4. PICK i : i = Inverted(y)
  OBVIOUS
<1>5. i \in Decimals /\ i \otimes y = One
  <2>1. CASE n > 0
    <3>1. i = <<d, n>>
      BY <1>1, <1>4, <2>1 DEF Inverted
    <3>2. i \in Decimals
      BY <1>3, <2>1, <3>1, DecimalPair
    <3>3. Over(i, d, n) /\ Over(y, n, d)
      BY <1>1, <3>1 DEF Over
    <3>4. Over(i \otimes y, d * n, n * d)
      BY <3>2, <3>3, OverProduct
    <3>5. d * n = n * d /\ n * d > 0
      BY <1>1, <2>1
    <3>6. PICK k \in Int : k = n * d
      OBVIOUS
    <3>7. Over(One, k, k)
      BY ConstantsOver
    <3> QED
      BY <3>2, <3>4, <3>5, <3>6, <3>7, ConstantsType, ProductType, OverEqual
  <2>2. CASE n < 0
    <3>1. i = <<-d, -n>>
      BY <1>1, <1>4, <2>2 DEF Inverted
    <3>2. PICK s \in Int, t \in Int : d * s + n * t = 1
      BY <1>3 DEF Coprime
    <3>3. (-d) * (-s) + (-n) * (-t) = 1
      BY <3>2
    <3>12. -s \in Int /\ -t \in Int
      OBVIOUS
    <3>4. Coprime(-d, -n)
      BY <3>3, <3>12, Zenon DEF Coprime
    <3>5. i \in Decimals
      BY <3>1, <3>4, <2>2, DecimalPair
    <3>6. PICK nn \in Int, dd \in Int : nn = -n /\ dd = -d
      OBVIOUS
    <3>7. Over(i, dd, nn) /\ Over(y, n, d)
      BY <1>1, <3>1, <3>6 DEF Over
    <3>8. Over(i \otimes y, dd * n, nn * d)
      BY <3>5, <3>7, OverProduct
    <3>9. dd * n = nn * d /\ nn * d > 0
      BY <1>1, <2>2, <3>6
    <3>10. PICK k \in Int : k = nn * d
      OBVIOUS
    <3>11. Over(One, k, k)
      BY ConstantsOver
    <3> QED
      BY <3>5, <3>8, <3>9, <3>10, <3>11, ConstantsType, ProductType, OverEqual
  <2> QED
    BY <1>2, <2>1, <2>2
<1>6. x \oslash y = x \otimes i
  BY <1>4 DEF \oslash
<1>7. (x \otimes i) \otimes y = x \otimes (i \otimes y)
  BY <1>5, ProductAssociates
<1> QED
  BY <1>5, <1>6, <1>7, ProductOne, ProductType

LEMMA ProductDifference ==
  ASSUME NEW x \in Decimals, NEW y \in Decimals, NEW z \in Decimals
  PROVE  /\ x \otimes (y \ominus z) = (x \otimes y) \ominus (x \otimes z)
         /\ (y \ominus z) \otimes x = (y \otimes x) \ominus (z \otimes x)
BY ProductDistributes, ProductNeg, NegType DEF \ominus

LEMMA DifferenceOfSquares ==
  ASSUME NEW x \in Decimals, NEW y \in Decimals
  PROVE  (x \oplus y) \otimes (x \ominus y) = Square(x) \ominus Square(y)
<1>1. PICK xx, yy, xy : xx = x \otimes x /\ yy = y \otimes y /\ xy = x \otimes y
  OBVIOUS
<1>2. xx \in Decimals /\ yy \in Decimals /\ xy \in Decimals /\ x \ominus y \in Decimals
  BY <1>1, ProductType, SumType
<1>3. (x \oplus y) \otimes (x \ominus y) = (x \otimes (x \ominus y)) \oplus (y \otimes (x \ominus y))
  BY <1>2, ProductDistributes
<1>4. x \otimes (x \ominus y) = xx \ominus xy /\ y \otimes (x \ominus y) = xy \ominus yy
  BY <1>1, ProductDifference, ProductCommutes
<1>5. PICK d \in Int : Linear(d) /\ xx \in Fit(d) /\ yy \in Fit(d) /\ xy \in Fit(d)
  BY <1>2, FitFour
<1>6. (xx \ominus xy) \oplus (xy \ominus yy) = xx \ominus yy
  BY <1>5 DEF Linear
<1> QED
  BY <1>1, <1>3, <1>4, <1>6 DEF Square

LEMMA ZeroBelowOne == Zero \prec One
<1>1. Over(Zero, 0, 1) /\ Over(One, 1, 1)
  BY ConstantsOver
<1> QED
  BY <1>1, ConstantsType, OverOrder

LEMMA TwoNotZero == Two # Zero
BY DEF Two, Zero

LEMMA Half ==
  ASSUME NEW x \in Decimals, NEW y, y = x \oslash Two
  PROVE  y \in Decimals /\ y \oplus y = x /\ Two \otimes y = x
<1>1. y \in Decimals /\ y \otimes Two = x
  BY ConstantsType, TwoNotZero, QuotientCorrect
<1> QED
  BY <1>1, ConstantsType, ProductCommutes, ProductOne

-----------------------------------------------------------------------------
(***************************************************************************)
(* The curve of the AMM: the pool margin M is a zero of 2 M (M - m) + S,   *)
(* where m is the margin of the pool and S the squares of its positions,   *)
(* and a trade along the curve leaves it a zero.                           *)
(***************************************************************************)

\* 2 M (M - m), doubled
LEMMA Doubled ==
  ASSUME NEW M \in Decimals, NEW m \in Decimals,
         NEW u, u = (M \oplus M) \ominus m,
         NEW y, y = (Two \otimes M) \otimes (M \ominus m)
  PROVE  /\ u \in Decimals /\ y \in Decimals
         /\ y \oplus y = Square(u) \ominus Square(m)
<1>1. u \in Decimals /\ y \in Decimals /\ M \ominus m \in Decimals /\ Two \otimes M \in Decimals
  BY ConstantsType, SumType, ProductType
<1>2. y \oplus y = (Two \otimes M) \otimes ((M \ominus m) \oplus (M \ominus m))
  BY <1>1, ProductDistributes
<1>3. PICK d \in Int : Linear(d) /\ M \in Fit(d) /\ m \in Fit(d)
  BY FitFour
<1>4. M \oplus M = u \oplus m /\ (M \ominus m) \oplus (M \ominus m) = u \ominus m
  BY <1>3 DEF Linear
<1>5. Two \otimes M = u \oplus m
  BY <1>4, ProductOne
<1> QED
  BY <1>1, <1>2, <1>4, <1>5, DifferenceOfSquares

\* The larger zero, as computeAMMPoolMargin computes it
LEMMA ZeroOfCurve ==
  ASSUME NEW m \in Decimals, NEW S \in Decimals, NEW r \in Decimals,
         Square(r) = Square(m) \ominus (Two \otimes S),
         NEW M, M = (m \oplus r) \oslash Two
  PROVE  /\ M \in Decimals /\ r = (M \oplus M) \ominus m
         /\ (Two \otimes M) \otimes (M \ominus m) = Neg(S)
<1>1. M \in Decimals /\ M \oplus M = m \oplus r
  BY SumType, Half
<1>2. PICK u, y : u = (M \oplus M) \ominus m /\ y = (Two \otimes M) \otimes (M \ominus m)
  OBVIOUS
<1>3. y \in Decimals /\ y \oplus y = Square(u) \ominus Square(m)
  BY <1>1, <1>2, Doubled
<1>4. u = r
  <2>1. PICK d \in Int : Linear(d) /\ r \in Fit(d) /\ m \in Fit(d)
    BY FitFour
  <2>2. (m \oplus r) \ominus m = r
    BY <2>1 DEF Linear
  <2> QED
    BY <1>1, <1>2, <2>2
<1>5. PICK v : v = Square(m) /\ v \in Decimals
  BY ProductType DEF Square
<1>6. y \oplus y = (v \ominus (S \oplus S)) \ominus v
  BY <1>3, <1>4, <1>5, ProductOne
<1>7. PICK d \in Int : Linear(d) /\ y \in Fit(d) /\ v \in Fit(d) /\ S \in Fit(d)
  BY <1>3, <1>5, FitFour
<1>8. y = Neg(S)
  BY <1>6, <1>7 DEF Linear
<1> QED
  BY <1>1, <1>2, <1>4, <1>8

\* Squares are ordered as what is squared, when it is not negative.
LEMMA SquareOrder ==
  ASSUME NEW x \in Decimals, NEW y \in Decimals, Zero \preceq x
  PROVE  /\ x \prec y => Square(x) \prec Square(y)
         /\ x \preceq y => Square(x) \preceq Square(y)
<1>1. PICK a, b : a = y \oplus x /\ b = y \ominus x /\ a \in Decimals /\ b \in Decimals
  BY SumType
<1>2. a \otimes b = Square(y) \ominus Square(x)
  BY <1>1, DifferenceOfSquares
<1>3. PICK d \in Int : Linear(d) /\ x \in Fit(d) /\ y \in Fit(d)
  BY FitFour
<1>4. /\ x \prec y => Zero \prec a /\ Zero \prec b
      /\ x \preceq y => Zero \preceq a /\ Zero \preceq b
  BY <1>1, <1>3 DEF Linear
<1>5. /\ x \prec y => Zero \prec a \otimes b
      /\ x \preceq y => Zero \preceq a \otimes b
  BY <1>1, <1>4, ProductSign
<1>6. PICK e \in Int : Linear(e) /\ Square(x) \in Fit(e) /\ Square(y) \in Fit(e)
  BY FitFour, ProductType DEF Square
<1> QED
  BY <1>2, <1>5, <1>6 DEF Linear

\* No pool margin above the zero is below the curve.
LEMMA LargerZero ==
  ASSUME NEW m \in Decimals, NEW S \in Decimals, NEW r \in Decimals, Zero \preceq r,
         Square(r) = Square(m) \ominus (Two \otimes S),
         NEW M, M = (m \oplus r) \oslash Two,
         NEW x \in Decimals, (Two \otimes x) \otimes (x \ominus m) \preceq Neg(S)
  PROVE  x \preceq M
<1>1. M \in Decimals /\ r = (M \oplus M) \ominus m
  BY ZeroOfCurve
<1>2. PICK u, y : u = (x \oplus x) \ominus m /\ y = (Two \otimes x) \otimes (x \ominus m)
  OBVIOUS
<1>3. u \in Decimals /\ y \in Decimals /\ y \oplus y = Square(u) \ominus Square(m)
  BY <1>2, Doubled
<1>4. PICK a, b, c : /\ a = Square(u) /\ b = Square(m) /\ c = Square(r)
                     /\ a \in Decimals /\ b \in Decimals /\ c \in Decimals
  BY <1>3, ProductType DEF Square
<1>5. a \preceq c
  <2>1. PICK d \in Int : Linear(d) /\ a \in Fit(d) /\ b \in Fit(d) /\ y \in Fit(d) /\ S \in Fit(d)
    <3>1. a \in Decimals /\ b \in Decimals /\ y \in Decimals /\ S \in Decimals
      BY <1>3, <1>4
    <3> QED
      BY <3>1, FitFour
  <2>2. y \oplus y = a \ominus b /\ c = b \ominus (S \oplus S) /\ y \preceq Neg(S)
    BY <1>2, <1>3, <1>4, ProductOne
  <2> QED
    BY <2>1, <2>2 DEF Linear
<1>6. ~(r \prec u)
  BY <1>3, <1>4, <1>5, SquareOrder, SumLaws
<1>7. PICK d \in Int : Linear(d) /\ x \in Fit(d) /\ M \in Fit(d) /\ m \in Fit(d)
  BY <1>1, FitFour
<1> QED
  BY <1>1, <1>2, <1>6, <1>7 DEF Linear

\* The curve rises above half the margin.
LEMMA CurveRises ==
  ASSUME NEW m \in Decimals, NEW S \in Decimals, NEW x \in Decimals, NEW z \in Decimals,
         x \preceq z, m \prec (Two \otimes x),
         (Two \otimes z) \otimes (z \ominus m) \preceq Neg(S)
  PROVE  (Two \otimes x) \otimes (x \ominus m) \preceq Neg(S)
<1>1. PICK u, y : u = (x \oplus x) \ominus m /\ y = (Two \otimes x) \otimes (x \ominus m)
  OBVIOUS
<1>2. u \in Decimals /\ y \in Decimals /\ y \oplus y = Square(u) \ominus Square(m)
  BY <1>1, Doubled
<1>3. PICK v, w : v = (z \oplus z) \ominus m /\ w = (Two \otimes z) \otimes (z \ominus m)
  OBVIOUS
<1>4. v \in Decimals /\ w \in Decimals /\ w \oplus w = Square(v) \ominus Square(m)
  BY <1>3, Doubled
<1>5. PICK d \in Int : Linear(d) /\ x \in Fit(d) /\ z \in Fit(d) /\ m \in Fit(d)
  BY FitFour
<1>6. Two \otimes x = x \oplus x
  BY ProductOne
<1>7. Zero \preceq u /\ u \preceq v
  BY <1>1, <1>3, <1>5, <1>6 DEF Linear
<1>8. Square(u) \preceq Square(v)
  BY <1>2, <1>4, <1>7, SquareOrder
<1>9. PICK a, b, c : /\ a = Square(u) /\ b = Square(m) /\ c = Square(v)
                     /\ a \in Decimals /\ b \in Decimals /\ c \in Decimals
  BY <1>2, <1>4, ProductType DEF Square
<1>10. PICK e \in Int : /\ Linear(e) /\ a \in Fit(e) /\ b \in Fit(e) /\ c \in Fit(e)
                        /\ y \in Fit(e) /\ w \in Fit(e) /\ S \in Fit(e)
  <2>1. /\ a \in Decimals /\ b \in Decimals /\ c \in Decimals
        /\ y \in Decimals /\ w \in Decimals /\ S \in Decimals
    BY <1>2, <1>4, <1>9
  <2>2. PICK f \in Int : f > 0 /\ a \in Fit(f) /\ b \in Fit(f) /\ c \in Fit(f)
    BY <2>1, FitFour
  <2> QED
    BY <2>1, <2>2, FitMoreFour
<1>11. y \oplus y = a \ominus b /\ w \oplus w = c \ominus b /\ a \preceq c /\ w \preceq Neg(S)
  BY <1>2, <1>3, <1>4, <1>8, <1>9
<1>12. y \preceq Neg(S)
  BY <1>10, <1>11 DEF Linear
<1> QED
  BY <1>1, <1>12

\* A trade from position n to k at pool margin M: the slippage, the margin
\* that is paid for it, and what of that the slippage costs
Slip(n, k, P, b, M) == ((((k \oplus n) \oslash Two) \otimes P) \oslash M) \otimes b
Paid(n, k, P, b, M) == ((n \ominus k) \otimes (One \ominus Slip(n, k, P, b, M))) \otimes P
Slipped(n, k, P, b, M) == ((n \ominus k) \otimes Slip(n, k, P, b, M)) \otimes P

LEMMA SlipType ==
  ASSUME NEW n \in Decimals, NEW k \in Decimals, NEW P \in Decimals, NEW b \in Decimals,
         NEW M \in Decimals, M # Zero
  PROVE  /\ Slip(n, k, P, b, M) \in Decimals
         /\ \E q \in Decimals : /\ Slip(n, k, P, b, M) = q \otimes b
                                /\ Two \otimes (q \otimes M) = (P \otimes n) \oplus (P \otimes k)
<1>1. PICK mid : mid = (k \oplus n) \oslash Two
  OBVIOUS
<1>2. mid \in Decimals /\ Two \otimes mid = k \oplus n
  BY <1>1, SumType, Half
<1>3. PICK q : q = (mid \otimes P) \oslash M /\ q \in Decimals /\ q \otimes M = mid \otimes P
  BY <1>2, ProductType, QuotientCorrect
<1>4. Slip(n, k, P, b, M) = q \otimes b /\ q \otimes b \in Decimals
  BY <1>1, <1>3, ProductType DEF Slip
<1>5. Two \otimes (mid \otimes P) = (Two \otimes mid) \otimes P
  BY <1>2, ConstantsType, ProductAssociates
<1>6. (k \oplus n) \otimes P = (k \otimes P) \oplus (n \otimes P)
  BY ProductDistributes
<1>7. k \otimes P = P \otimes k /\ n \otimes P = P \otimes n
  BY ProductCommutes
<1>8. (P \otimes k) \oplus (P \otimes n) = (P \otimes n) \oplus (P \otimes k)
  BY ProductType, SumLaws
<1> QED
  BY <1>2, <1>3, <1>4, <1>5, <1>6, <1>7, <1>8

CurveLaw(n, k, P, b, M) ==
  /\ Paid(n, k, P, b, M) \in Decimals /\ Slipped(n, k, P, b, M) \in Decimals
  /\ Paid(n, k, P, b, M)
       = ((P \otimes n) \ominus (P \otimes k)) \ominus Slipped(n, k, P, b, M)
  /\ (Two \otimes M) \otimes Slipped(n, k, P, b, M)
       = (b \otimes Square(P \otimes n)) \ominus (b \otimes Square(P \otimes k))

LEMMA CurveTrade ==
  ASSUME NEW n \in Decimals, NEW k \in Decimals, NEW P \in Decimals, NEW b \in Decimals,
         NEW M \in Decimals, M # Zero
  PROVE  CurveLaw(n, k, P, b, M)
<1>1. PICK slip : slip = Slip(n, k, P, b, M)
  OBVIOUS
<1>2. slip \in Decimals
  BY <1>1, SlipType
<1>3. PICK q \in Decimals : /\ slip = q \otimes b
                            /\ Two \otimes (q \otimes M) = (P \otimes n) \oplus (P \otimes k)
  BY <1>1, SlipType
<1>4. PICK g : g = n \ominus k /\ g \in Decimals
  BY SumType
<1>5. PICK D, w : D = (g \otimes (One \ominus slip)) \otimes P /\ w = (g \otimes slip) \otimes P
  OBVIOUS
<1>6. D \in Decimals /\ w \in Decimals
  BY <1>2, <1>4, <1>5, ConstantsType, SumType, ProductType
<1>7. PICK pn, pk : pn = P \otimes n /\ pk = P \otimes k /\ pn \in Decimals /\ pk \in Decimals
  BY ProductType
<1>8. g \otimes P = pn \ominus pk
  BY <1>4, <1>7, ProductDifference, ProductCommutes
<1>9. D = (pn \ominus pk) \ominus w
  <2>1. g \otimes (One \ominus slip) = g \ominus (g \otimes slip)
    BY <1>2, <1>4, ConstantsType, ProductDifference, ProductOne
  <2>2. (g \ominus (g \otimes slip)) \otimes P = (g \otimes P) \ominus ((g \otimes slip) \otimes P)
    BY <1>2, <1>4, ProductType, ProductDifference
  <2> QED
    BY <1>5, <1>8, <2>1, <2>2
<1>10. PICK T : T = Two \otimes M /\ T \in Decimals
  BY ConstantsType, ProductType
<1>11. PICK gp : gp = g \otimes P /\ gp \in Decimals
  BY <1>4, ProductType
<1>12. w = b \otimes (q \otimes gp)
  <2>1. g \otimes slip = slip \otimes g
    BY <1>2, <1>4, ProductCommutes
  <2>2. (slip \otimes g) \otimes P = slip \otimes gp
    BY <1>2, <1>4, <1>11, ProductAssociates
  <2>3. slip = b \otimes q
    BY <1>3, ProductCommutes
  <2>4. (b \otimes q) \otimes gp = b \otimes (q \otimes gp)
    BY <1>11, ProductAssociates
  <2> QED
    BY <1>5, <2>1, <2>2, <2>3, <2>4
<1>13. PICK qg : qg = q \otimes gp /\ qg \in Decimals
  BY <1>11, ProductType
<1>14. T \otimes w = b \otimes (T \otimes qg)
  <2>1. T \otimes (b \otimes qg) = (T \otimes b) \otimes qg
    BY <1>10, <1>13, ProductAssociates
  <2>2. T \otimes b = b \otimes T
    BY <1>10, ProductCommutes
  <2>3. (b \otimes T) \otimes qg = b \otimes (T \otimes qg)
    BY <1>10, <1>13, ProductAssociates
  <2> QED
    BY <1>12, <1>13, <2>1, <2>2, <2>3
<1>15. T \otimes qg = (pn \oplus pk) \otimes gp
  <2>1. T \otimes (q \otimes gp) = (T \otimes q) \otimes gp
    BY <1>10, <1>11, ProductAssociates
  <2>2. (Two \otimes M) \otimes q = Two \otimes (M \otimes q)
    BY ConstantsType, ProductAssociates
  <2>3. M \otimes q = q \otimes M
    BY ProductCommutes
  <2> QED
    BY <1>3, <1>7, <1>10, <1>13, <2>1, <2>2, <2>3
<1>16. (pn \oplus pk) \otimes (pn \ominus pk) = Square(pn) \ominus Square(pk)
  BY <1>7, DifferenceOfSquares
<1>17. b \otimes (Square(pn) \ominus Square(pk)) = (b \otimes Square(pn)) \ominus (b \otimes Square(pk))
  BY <1>7, ProductType, ProductDifference DEF Square
<1>18. T \otimes w = (b \otimes Square(pn)) \ominus (b \otimes Square(pk))
  BY <1>8, <1>11, <1>14, <1>15, <1>16, <1>17
<1>19. D = Paid(n, k, P, b, M) /\ w = Slipped(n, k, P, b, M)
  BY <1>1, <1>4, <1>5 DEF Paid, Slipped
<1> QED
  BY <1>6, <1>7, <1>9, <1>10, <1>18, <1>19 DEF CurveLaw

\* A trade along the curve, or for more (d), leaves M at or above the zero.
LEMMA OnCurve ==
  ASSUME NEW n \in Decimals, NEW k \in Decimals, NEW P \in Decimals, NEW b \in Decimals,
         NEW c \in Decimals, NEW V \in Decimals, NEW Q \in Decimals,
         NEW M \in Decimals, Zero \prec M,
         NEW d \in Decimals, Paid(n, k, P, b, M) \preceq d,
         (Two \otimes M) \otimes (M \ominus (c \oplus (V \oplus (P \otimes n))))
           = Neg(Q \oplus (b \otimes Square(P \otimes n)))
  PROVE  (Two \otimes M) \otimes (M \ominus ((c \oplus d) \oplus (V \oplus (P \otimes k))))
           \preceq Neg(Q \oplus (b \otimes Square(P \otimes k)))
<1>1. M # Zero
  BY ConstantsType, SignOrder
<1>2. PICK D, w : D = Paid(n, k, P, b, M) /\ w = Slipped(n, k, P, b, M)
  OBVIOUS
<1>3. PICK pn, pk : pn = P \otimes n /\ pk = P \otimes k /\ pn \in Decimals /\ pk \in Decimals
  BY ProductType
<1>4. PICK bn, bk : /\ bn = b \otimes Square(pn) /\ bk = b \otimes Square(pk)
                    /\ bn \in Decimals /\ bk \in Decimals
  BY <1>3, ProductType DEF Square
<1>5. /\ D \in Decimals /\ w \in Decimals /\ D = (pn \ominus pk) \ominus w
      /\ (Two \otimes M) \otimes w = bn \ominus bk
  <2>1. CurveLaw(n, k, P, b, M)
    BY <1>1, CurveTrade, Zenon
  <2> QED
    BY <1>2, <1>3, <1>4, <2>1 DEF CurveLaw
<1>6. PICK z, x, T : /\ z = M \ominus (c \oplus (V \oplus pn)) /\ x = d \ominus D
                     /\ T = Two \otimes M
  OBVIOUS
<1>7. z \in Decimals /\ x \in Decimals /\ T \in Decimals
  BY <1>3, <1>5, <1>6, ConstantsType, SumType, ProductType
<1>8. PICK u : u = M \ominus ((c \oplus d) \oplus (V \oplus pk))
  OBVIOUS
<1>9. u = (z \oplus w) \ominus x /\ Zero \preceq x
  <2>1. PICK e \in Int : e > 0 /\ M \in Fit(e) /\ c \in Fit(e) /\ V \in Fit(e) /\ d \in Fit(e)
    BY FitFour
  <2>2. PICK f \in Int : /\ f > 0 /\ Linear(f) /\ \A y \in Fit(e) : y \in Fit(f)
                         /\ pn \in Fit(f) /\ pk \in Fit(f) /\ w \in Fit(f)
    <3>1. pn \in Decimals /\ pk \in Decimals /\ w \in Decimals
      BY <1>3, <1>5
    <3> QED
      BY <2>1, <3>1, FitMoreFour
  <2>3. M \in Fit(f) /\ c \in Fit(f) /\ V \in Fit(f) /\ d \in Fit(f)
    BY <2>1, <2>2
  <2>4. pn \in Fit(f) /\ pk \in Fit(f) /\ w \in Fit(f) /\ Linear(f)
    BY <2>2
  <2>5. D \in Fit(f) /\ Num(D, f) = (Num(pn, f) - Num(pk, f)) - Num(w, f)
    BY <1>5, <2>4 DEF Linear
  <2>6. x \in Fit(f) /\ Num(x, f) = Num(d, f) - Num(D, f)
    BY <1>6, <2>3, <2>4, <2>5 DEF Linear
  <2>7. z \in Fit(f) /\ Num(z, f) = Num(M, f) - (Num(c, f) + (Num(V, f) + Num(pn, f)))
    BY <1>6, <2>3, <2>4 DEF Linear
  <2>8. u \in Fit(f)
          /\ Num(u, f) = Num(M, f) - ((Num(c, f) + Num(d, f)) + (Num(V, f) + Num(pk, f)))
    BY <1>8, <2>3, <2>4 DEF Linear
  <2>9. Zero \preceq x
    BY <1>2, <2>3, <2>4, <2>5, <2>6 DEF Linear
  <2>10. (z \oplus w) \ominus x \in Fit(f)
           /\ Num((z \oplus w) \ominus x, f) = (Num(z, f) + Num(w, f)) - Num(x, f)
    BY <2>4, <2>6, <2>7 DEF Linear
  <2>11. Num(u, f) = Num((z \oplus w) \ominus x, f)
    <3>1. /\ Num(M, f) \in Int /\ Num(c, f) \in Int /\ Num(V, f) \in Int /\ Num(d, f) \in Int
          /\ Num(pn, f) \in Int /\ Num(pk, f) \in Int /\ Num(w, f) \in Int
      BY <2>3, <2>4 DEF Linear
    <3> QED
      BY <2>5, <2>6, <2>7, <2>8, <2>10, <3>1
  <2> QED
    BY <2>4, <2>8, <2>9, <2>10, <2>11 DEF Linear
<1>10. T \otimes u = ((T \otimes z) \oplus (T \otimes w)) \ominus (T \otimes x)
  BY <1>5, <1>7, <1>9, SumType, ProductDistributes, ProductDifference
<1>11. PICK y : y = T \otimes x /\ y \in Decimals /\ Zero \preceq y
  <2>2. Zero \preceq T
    <3>1. PICK e \in Int : Linear(e) /\ M \in Fit(e)
      BY FitFour
    <3>2. T = M \oplus M
      BY <1>6, ProductOne
    <3> QED
      BY <3>1, <3>2 DEF Linear
  <2> QED
    BY <1>7, <1>9, <2>2, ProductSign, ProductType
<1>12. T \otimes u = (Neg(Q \oplus bn) \oplus (bn \ominus bk)) \ominus y
  BY <1>3, <1>4, <1>5, <1>6, <1>10, <1>11
<1>13. T \otimes u \preceq Neg(Q \oplus bk)
  <2>1. bn \in Decimals /\ bk \in Decimals /\ y \in Decimals
    BY <1>4, <1>11
  <2>2. PICK e \in Int : Linear(e) /\ Q \in Fit(e) /\ bn \in Fit(e) /\ bk \in Fit(e) /\ y \in Fit(e)
    BY <2>1, FitFour
  <2> QED
    BY <1>11, <1>12, <2>2 DEF Linear
<1> QED
  BY <1>3, <1>4, <1>6, <1>8, <1>13

-----------------------------------------------------------------------------
(***************************************************************************)
(* Sums over the other perpetuals of a pool                                *)
(***************************************************************************)

\* h holds the sums of the first values of s, up to n.
Sums(s, n, h) == h = [i \in 0..n |-> IF i = 0 THEN Zero ELSE h[i - 1] \oplus s[i]]

LEMMA SumsExist ==
  ASSUME NEW n \in Nat, NEW s
  PROVE  \E h : Sums(s, n, h)
<1> DEFINE Bad == {k \in Nat : ~ \E h : Sums(s, k, h)}
<1>1. ASSUME Bad # {} PROVE FALSE
  <2>1. PICK k \in Bad : \A m \in Nat : m < k => m \notin Bad
    <3>1. Bad \in SUBSET Nat
      OBVIOUS
    <3> HIDE DEF Bad
    <3> QED
      BY <1>1, <3>1, LeastNumber
  <2>2. k # 0
    <3>1. Sums(s, 0, [i \in 0..0 |-> Zero])
      BY DEF Sums
    <3> QED
      BY <3>1
  <2>3. k - 1 \in Nat /\ k - 1 < k
    BY <2>2
  <2>4. PICK h : Sums(s, k - 1, h)
    BY <2>1, <2>3
  <2> DEFINE g == [i \in 0..k |-> IF i = k THEN h[k - 1] \oplus s[k] ELSE h[i]]
  <2>5. ASSUME NEW i \in 0..k
        PROVE  g[i] = IF i = 0 THEN Zero ELSE g[i - 1] \oplus s[i]
    <3>1. CASE i = k
      <4>1. g[i] = h[k - 1] \oplus s[k] /\ g[i - 1] = h[k - 1]
        BY <2>2, <3>1
      <4> HIDE DEF g
      <4> QED
        BY <2>2, <3>1, <4>1
    <3>2. CASE i # k
      <4>1. g[i] = h[i] /\ (i # 0 => g[i - 1] = h[i - 1]) /\ i \in 0..(k - 1)
        BY <3>2
      <4>2. h[i] = IF i = 0 THEN Zero ELSE h[i - 1] \oplus s[i]
        BY <2>4, <4>1 DEF Sums
      <4> HIDE DEF g
      <4> QED
        BY <4>1, <4>2
    <3> QED
      BY <3>1, <3>2
  <2>6. g = [i \in 0..k |-> g[i]]
    OBVIOUS
  <2>7. Sums(s, k, g)
    <3> HIDE DEF g
    <3> QED
      BY <2>5, <2>6 DEF Sums
  <2> QED
    BY <2>7
<1>2. n \notin Bad
  <2> HIDE DEF Bad
  <2> QED
    BY <1>1
<1> QED
  BY <1>2

LEMMA SumOfDecimals ==
  ASSUME NEW s \in Seq(Decimals)
  PROVE  /\ Sum(s) \in Decimals
         /\ (\A i \in 1..Len(s) : Zero \preceq s[i]) => Zero \preceq Sum(s)
<1> DEFINE sum == CHOOSE h : Sums(s, Len(s), h)
<1>1. Sum(s) = sum[Len(s)]
  BY DEF Sum, Sums
<1>2. PICK n \in Nat : n = Len(s)
  OBVIOUS
<1>3. Sums(s, n, sum)
  BY <1>2, SumsExist
<1> HIDE DEF sum
<1>4. sum[0] = Zero /\ \A i \in 1..n : sum[i] = sum[i - 1] \oplus s[i]
  BY <1>3 DEF Sums
<1>5. \A i \in 1..n : s[i] \in Decimals
  BY <1>2
<1> DEFINE Good(i) == /\ sum[i] \in Decimals
                      /\ (\A j \in 1..n : Zero \preceq s[j]) => Zero \preceq sum[i]
           Bad == {i \in 0..n : ~Good(i)}
<1>6. ASSUME Bad # {} PROVE FALSE
  <2>1. PICK i \in Bad : \A m \in Nat : m < i => m \notin Bad
    <3>1. Bad \in SUBSET Nat
      OBVIOUS
    <3> HIDE DEF Bad
    <3> QED
      BY <1>6, <3>1, LeastNumber
  <2>2. Good(0)
    <3>1. PICK d \in Int : Linear(d) /\ Zero \in Fit(d)
      BY ConstantsType, FitFour
    <3>2. Zero \preceq Zero
      BY <3>1 DEF Linear
    <3> QED
      BY <1>4, <3>2, ConstantsType
  <2>3. i \in 1..n /\ i - 1 \in Nat /\ i - 1 < i /\ i - 1 \in 0..n
    BY <2>2
  <2>4. Good(i - 1)
    BY <2>1, <2>3
  <2>5. PICK x, y : x = sum[i - 1] /\ y = s[i] /\ x \in Decimals /\ y \in Decimals
    BY <1>5, <2>3, <2>4
  <2>6. sum[i] = x \oplus y /\ x \oplus y \in Decimals
    BY <1>4, <2>3, <2>5, SumType
  <2>7. Zero \preceq x /\ Zero \preceq y => Zero \preceq x \oplus y
    <3>1. PICK d \in Int : Linear(d) /\ x \in Fit(d) /\ y \in Fit(d)
      BY <2>5, FitFour
    <3> QED
      BY <3>1 DEF Linear
  <2>8. Good(i)
    BY <2>3, <2>4, <2>5, <2>6, <2>7
  <2> QED
    BY <2>8
<1>7. Good(n)
  <2>1. n \notin Bad /\ n \in 0..n
    <3> HIDE DEF Bad
    <3> QED
      BY <1>6
  <2> QED
    BY <2>1
<1> QED
  BY <1>1, <1>2, <1>7

-----------------------------------------------------------------------------
(***************************************************************************)
(* Trading contexts                                                        *)
(***************************************************************************)

IsContext(c) ==
  /\ DOMAIN c = {"ok", "perp", "position", "cash", "value", "square", "positionMargin",
                 "poolMargin", "deltaMargin", "deltaPosition", "best"}
  /\ c.ok = TRUE

\* What a trade leaves as it is
SamePool(c, e) == e.perp = c.perp /\ e.value = c.value /\ e.square = c.square

LEMMA ContextFields ==
  ASSUME NEW p
  PROVE  LET c == Context(p)
         IN /\ IsContext(c) /\ c.perp = p.perp /\ c.position = p.position
            /\ c.deltaMargin = Zero /\ c.deltaPosition = Zero /\ c.best = Zero
BY DEF Context, IsContext

LEMMA TradedFields ==
  ASSUME NEW c, IsContext(c), NEW amount, NEW deltaMargin,
         NEW e, e = Traded(c, amount, deltaMargin), e.ok
  PROVE  /\ ~SameSign(deltaMargin, amount)
         /\ IsContext(e) /\ SamePool(c, e)
         /\ e.deltaMargin = c.deltaMargin \oplus deltaMargin
         /\ e.deltaPosition = c.deltaPosition \oplus amount
         /\ e.cash = c.cash \oplus deltaMargin
         /\ e.position = c.position \oplus amount
         /\ e.poolMargin = c.poolMargin /\ e.best = c.best
BY DEF Traded, IsContext, SamePool, NoContext

LEMMA PoolMarginFields ==
  ASSUME NEW c, IsContext(c), NEW beta, NEW e, e = WithPoolMargin(c, beta)
  PROVE  /\ IsContext(e) /\ SamePool(c, e)
         /\ e.deltaMargin = c.deltaMargin /\ e.deltaPosition = c.deltaPosition
         /\ e.cash = c.cash /\ e.position = c.position /\ e.best = c.best
         /\ e.poolMargin = computeAMMPoolMargin(c, beta)
BY DEF WithPoolMargin, IsContext, SamePool

LEMMA BestPriceFields ==
  ASSUME NEW c, IsContext(c), NEW best, NEW e, e = [c EXCEPT !.best = best]
  PROVE  /\ IsContext(e) /\ SamePool(c, e)
         /\ e.deltaMargin = c.deltaMargin /\ e.deltaPosition = c.deltaPosition
         /\ e.cash = c.cash /\ e.position = c.position /\ e.poolMargin = c.poolMargin
         /\ e.best = best
BY DEF IsContext, SamePool

\* e is c after a trade of amount for deltaMargin, at the best price best.
After(c, e, amount, deltaMargin, best) ==
  /\ IsContext(e) /\ SamePool(c, e)
  /\ ~SameSign(deltaMargin, amount)
  /\ e.deltaMargin = c.deltaMargin \oplus deltaMargin
  /\ e.deltaPosition = c.deltaPosition \oplus amount
  /\ e.cash = c.cash \oplus deltaMargin
  /\ e.position = c.position \oplus amount
  /\ e.best = best

\* A safe AMM closes along the curve, or for more.
LEMMA CloseSafe ==
  ASSUME NEW c, IsContext(c), NEW amount,
         NEW beta, beta = c.perp.closeSlippageFactor, isAMMSafe(c, beta),
         NEW e, e = computeAMMInternalClose(c, amount), e.ok,
         NEW m, m = WithPoolMargin(c, beta)
  PROVE  /\ CanTrade(m, c.position \oplus amount)
         /\ After(c, e, amount,
                  Larger(computeDeltaMargin(m, beta, c.position \oplus amount),
                         Neg(DiscountLimitPrice(c, Sign(amount) > 0) \otimes amount)),
                  computeBestAskBidPriceIfSafe(m, beta, Sign(amount) > 0))
<1>1. e = CloseIfSafe(m, beta, amount)
  BY DEF computeAMMInternalClose
<1>2. IsContext(m) /\ SamePool(c, m) /\ m.position = c.position /\ m.cash = c.cash
        /\ m.deltaMargin = c.deltaMargin /\ m.deltaPosition = c.deltaPosition
  BY PoolMarginFields
<1>3. CanTrade(m, c.position \oplus amount)
  BY <1>1, <1>2 DEF CloseIfSafe, NoContext
<1>4. PICK b : b = WithBestPrice(m, beta, Sign(amount) > 0)
  OBVIOUS
<1>5. e = Closed(b, amount, computeDeltaMargin(m, beta, c.position \oplus amount))
  BY <1>1, <1>2, <1>3, <1>4 DEF CloseIfSafe
<1>6. /\ IsContext(b) /\ SamePool(m, b)
      /\ b.deltaMargin = m.deltaMargin /\ b.deltaPosition = m.deltaPosition
      /\ b.cash = m.cash /\ b.position = m.position
      /\ b.best = computeBestAskBidPriceIfSafe(m, beta, Sign(amount) > 0)
  BY <1>2, <1>4, BestPriceFields DEF WithBestPrice
<1>7. DiscountLimitPrice(b, Sign(amount) > 0) = DiscountLimitPrice(c, Sign(amount) > 0)
  BY <1>2, <1>6 DEF DiscountLimitPrice, SamePool
<1>8. PICK d : d = Larger(computeDeltaMargin(m, beta, c.position \oplus amount),
                          Neg(DiscountLimitPrice(c, Sign(amount) > 0) \otimes amount))
  OBVIOUS
<1>9. e = Traded(b, amount, d)
  BY <1>5, <1>7, <1>8 DEF Closed
<1>10. After(b, e, amount, d, b.best)
  BY <1>6, <1>9, TradedFields DEF After
<1>11. After(c, e, amount, d, b.best)
  BY <1>2, <1>6, <1>10 DEF After, SamePool
<1> QED
  BY <1>3, <1>6, <1>8, <1>11

\* Whether the AMM is safe or not, it closes all of amount.
LEMMA CloseTrades ==
  ASSUME NEW c, IsContext(c), NEW amount,
         NEW e, e = computeAMMInternalClose(c, amount), e.ok
  PROVE  \E d, best : After(c, e, amount, d, best)
<1>1. CASE isAMMSafe(c, c.perp.closeSlippageFactor)
  BY <1>1, CloseSafe
<1>2. CASE ~isAMMSafe(c, c.perp.closeSlippageFactor)
  <2>1. e = CloseIfUnsafe(c, amount)
    BY <1>2 DEF computeAMMInternalClose
  <2>2. PICK b : b = [c EXCEPT !.best = computeBestAskBidPriceIfUnsafe(c)]
    OBVIOUS
  <2>3. PICK d : e = Traded(b, amount, d)
    BY <2>1, <2>2 DEF CloseIfUnsafe, Closed
  <2>4. /\ IsContext(b) /\ SamePool(c, b)
        /\ b.deltaMargin = c.deltaMargin /\ b.deltaPosition = c.deltaPosition
        /\ b.cash = c.cash /\ b.position = c.position
    BY <2>2, BestPriceFields
  <2>5. After(b, e, amount, d, b.best)
    BY <2>3, <2>4, TradedFields DEF After
  <2>6. After(c, e, amount, d, b.best)
    BY <2>4, <2>5 DEF After, SamePool
  <2> QED
    BY <2>6
<1> QED
  BY <1>1, <1>2

\* An AMM opens when it is safe, along the curve.
LEMMA OpenSafe ==
  ASSUME NEW c, IsContext(c), NEW amount,
         NEW beta, beta = c.perp.openSlippageFactor,
         NEW e, e = computeAMMInternalOpen(c, amount), e.ok,
         NEW m, m = WithPoolMargin(c, beta)
  PROVE  /\ isAMMSafe(c, beta)
         /\ CanTrade(m, c.position \oplus amount)
         /\ After(c, e, amount, computeDeltaMargin(m, beta, c.position \oplus amount),
                  IF c.best = Zero THEN computeBestAskBidPriceIfSafe(m, beta, Sign(amount) > 0)
                  ELSE c.best)
<1>1. isAMMSafe(c, beta) /\ e = OpenIfSafe(m, beta, amount)
  BY DEF computeAMMInternalOpen, NoContext
<1>2. IsContext(m) /\ SamePool(c, m) /\ m.position = c.position /\ m.cash = c.cash
        /\ m.deltaMargin = c.deltaMargin /\ m.deltaPosition = c.deltaPosition
        /\ m.best = c.best
  BY PoolMarginFields
<1>3. CanTrade(m, c.position \oplus amount)
  BY <1>1, <1>2 DEF OpenIfSafe, NoContext
<1>4. PICK b : b = WithFirstBestPrice(m, beta, Sign(amount) > 0)
  OBVIOUS
<1>5. PICK d : d = computeDeltaMargin(m, beta, c.position \oplus amount)
  OBVIOUS
<1>6. e = Traded(b, amount, d)
  BY <1>1, <1>2, <1>4, <1>5 DEF OpenIfSafe, NoContext
<1>7. /\ IsContext(b) /\ SamePool(m, b)
      /\ b.deltaMargin = m.deltaMargin /\ b.deltaPosition = m.deltaPosition
      /\ b.cash = m.cash /\ b.position = m.position
      /\ b.best = IF c.best = Zero THEN computeBestAskBidPriceIfSafe(m, beta, Sign(amount) > 0)
                  ELSE c.best
  <2>1. CASE c.best = Zero
    BY <1>2, <1>4, <2>1, BestPriceFields DEF WithFirstBestPrice, WithBestPrice
  <2>2. CASE c.best # Zero
    BY <1>2, <1>4, <2>2 DEF WithFirstBestPrice, SamePool
  <2> QED
    BY <2>1, <2>2
<1>8. After(b, e, amount, d, b.best)
  BY <1>6, <1>7, TradedFields DEF After
<1>9. After(c, e, amount, d, b.best)
  BY <1>2, <1>7, <1>8 DEF After, SamePool
<1> QED
  BY <1>1, <1>3, <1>5, <1>7, <1>9

\* The parts of a trade: a context for the pool (c0), after the part that
\* closes (c1) and after the part that opens (c2)
LEMMA TradeParts ==
  ASSUME NEW p, NEW amount, NEW e, e = computeAMMInternalTrade(p, amount), e.ok,
         NEW close, close = Closing(p.position, amount),
         NEW open, open = Opening(p.position, amount),
         NEW c0, c0 = Context(p), NEW c1, c1 = ClosePart(c0, close),
         NEW c2, c2 = OpenPart(c1, open)
  PROVE  /\ amount # Zero /\ initAMMTradingContext(p) = c0
         /\ c0.ok /\ c1.ok /\ c2.ok /\ c2.best # Zero
         /\ e = [c2 EXCEPT !.deltaMargin = Larger(@, Neg(c2.best \otimes amount))]
<1>1. amount # Zero
  BY DEF computeAMMInternalTrade, NoContext
<1>2. PICK i : i = initAMMTradingContext(p)
  OBVIOUS
<1>3. e = AtBestPrice(OpenPart(ClosePart(i, close), open), amount)
  BY <1>1, <1>2 DEF computeAMMInternalTrade
<1>4. PICK j : j = OpenPart(ClosePart(i, close), open)
  OBVIOUS
<1>5. /\ j.ok /\ j.best # Zero
      /\ e = [j EXCEPT !.deltaMargin = Larger(@, Neg(j.best \otimes amount))]
  BY <1>3, <1>4 DEF AtBestPrice, NoContext
<1>6. i.ok
  BY <1>4, <1>5 DEF OpenPart, ClosePart
<1>7. i = c0
  BY <1>2, <1>6 DEF initAMMTradingContext, UnlessEmergency, NoContext
<1>8. j = c2
  BY <1>4, <1>7
<1>9. c1.ok
  BY <1>4, <1>5, <1>7, <1>8 DEF OpenPart
<1> QED
  BY <1>1, <1>2, <1>5, <1>6, <1>7, <1>8, <1>9

\* e is c, or c after a trade of amount.
Moved(c, e, amount) ==
  /\ IsContext(e) /\ SamePool(c, e)
  /\ \/ amount = Zero /\ e = c
     \/ amount # Zero /\ \E d, best : After(c, e, amount, d, best)

LEMMA ClosePartMoves ==
  ASSUME NEW c, IsContext(c), NEW amount, NEW e, e = ClosePart(c, amount), e.ok
  PROVE  Moved(c, e, amount)
<1>1. CASE amount = Zero
  BY <1>1 DEF ClosePart, Moved, SamePool
<1>2. CASE amount # Zero
  <2>1. e = computeAMMInternalClose(c, amount)
    BY <1>2 DEF ClosePart, IsContext
  <2>2. PICK d, best : After(c, e, amount, d, best)
    BY <2>1, CloseTrades
  <2> QED
    BY <1>2, <2>2 DEF Moved, After
<1> QED
  BY <1>1, <1>2

LEMMA OpenPartMoves ==
  ASSUME NEW c, IsContext(c), NEW amount, NEW e, e = OpenPart(c, amount), e.ok
  PROVE  Moved(c, e, amount)
<1>1. CASE amount = Zero
  BY <1>1 DEF OpenPart, Moved, SamePool
<1>2. CASE amount # Zero
  <2>1. e = computeAMMInternalOpen(c, amount)
    BY <1>2 DEF OpenPart, IsContext
  <2>2. PICK d, best : After(c, e, amount, d, best)
    BY <2>1, OpenSafe
  <2> QED
    BY <1>2, <2>2 DEF Moved, After
<1> QED
  BY <1>1, <1>2

\* What the AMM computes a price for is the amount it was asked for.
LEMMA TradesAmount ==
  ASSUME NEW p, p.position \in Decimals, NEW amount \in Decimals,
         NEW e, e = computeAMMInternalTrade(p, amount), e.ok
  PROVE  e.ok = TRUE /\ e.deltaPosition = amount
<1>1. PICK close : close = Closing(p.position, amount)
  OBVIOUS
<1>2. PICK open : open = Opening(p.position, amount)
  OBVIOUS
<1>3. PICK c0 : c0 = Context(p)
  OBVIOUS
<1>4. PICK c1 : c1 = ClosePart(c0, close)
  OBVIOUS
<1>5. PICK c2 : c2 = OpenPart(c1, open)
  OBVIOUS
<1>6. /\ c1.ok /\ c2.ok
      /\ e = [c2 EXCEPT !.deltaMargin = Larger(@, Neg(c2.best \otimes amount))]
  BY <1>1, <1>2, <1>3, <1>4, <1>5, TradeParts
<1>7. IsContext(c0) /\ c0.deltaPosition = Zero
  BY <1>3, ContextFields
<1>8. Moved(c0, c1, close)
  BY <1>4, <1>6, <1>7, ClosePartMoves
<1>9. IsContext(c1)
  BY <1>8 DEF Moved
<1>10. Moved(c1, c2, open)
  BY <1>5, <1>6, <1>9, OpenPartMoves
<1>11. close \in Decimals /\ open \in Decimals /\ close \oplus open = amount
  BY <1>1, <1>2, ClosingType
<1>12. c1.deltaPosition = close
  BY <1>7, <1>8, <1>11, SumZero DEF Moved, After
<1>13. c2.deltaPosition = amount
  BY <1>10, <1>11, <1>12, SumZero DEF Moved, After
<1>14. IsContext(c2)
  BY <1>10 DEF Moved
<1> QED
  BY <1>6, <1>13, <1>14 DEF IsContext

LEMMA QuoteAmount ==
  ASSUME NEW p, p.position \in Decimals, NEW amount \in Decimals,
         NEW q, q = ComputeAMMPrice(p, amount), q.ok
  PROVE  q.deltaAMMAmount = Neg(amount)
<1>1. PICK c : c = computeAMMInternalTrade(p, Neg(amount))
  OBVIOUS
<1>2. q = Quote(c) /\ c.ok /\ Neg(amount) \in Decimals
  BY <1>1, NegType DEF ComputeAMMPrice, Quote, NoContext
<1>3. c.deltaPosition = Neg(amount)
  BY <1>1, <1>2, TradesAmount
<1> QED
  BY <1>2, <1>3 DEF Quote

-----------------------------------------------------------------------------
(***************************************************************************)
(* The trades at a level                                                   *)
(***************************************************************************)

\* The fields of a pool, and what every trade keeps of them
PoolFields(p) ==
  /\ DOMAIN p = {"perp", "position", "others", "cash", "openInterest"}
  /\ p.position \in Decimals

\* The last trade led from the pool it recorded to the present one.
LastTrade ==
  LET last == trades[Len(trades)]
      q == ComputeAMMPrice(last.pool, last.amount)
  IN /\ PoolFields(last.pool) /\ last.amount \in Decimals
     /\ q.ok
     /\ \E position, share : /\ share \in Decimals /\ Zero \preceq share
                            /\ pool = PoolAfter(last.pool, q, position, share)

TradesInv ==
  /\ PoolFields(pool)
  /\ \E S : trades \in Seq(S)
  /\ trades # <<>> => LastTrade

LEMMA AppendLast ==
  ASSUME NEW S, NEW s \in Seq(S), NEW r
  PROVE  /\ Append(s, r) \in Seq(S \cup {r}) /\ Append(s, r) # <<>>
         /\ Append(s, r)[Len(Append(s, r))] = r
<1>1. s \in Seq(S \cup {r}) /\ r \in S \cup {r}
  OBVIOUS
<1> QED
  BY <1>1

LEMMA TradesInit == Init => TradesInv
<1> SUFFICES ASSUME Init PROVE TradesInv
  OBVIOUS
<1>1. PoolFields(pool)
  BY AMMAssumption, IsDecimalType DEF Init, IsPool, PoolFields
<1>2. trades \in Seq({}) /\ trades = <<>>
  BY DEF Init
<1> QED
  BY <1>1, <1>2 DEF Init, TradesInv

LEMMA ShareType ==
  ASSUME NEW position, NEW n, NEW share \in FeeShares(position, n)
  PROVE  share \in Decimals /\ Zero \preceq share
<1>1. One \in Decimals /\ Zero \preceq One
  <2>1. Sign(One) >= 0
    BY DEF Sign, One
  <2>2. ~(One \prec Zero)
    BY <2>1, ConstantsType, SignOrder
  <2> QED
    BY <2>2, ConstantsType, SumLaws
<1>2. CASE share = One
  BY <1>1, <1>2
<1>3. CASE share \in Shares
  BY <1>3, AMMAssumption, IsDecimalType DEF NotNegative
<1> QED
  BY <1>2, <1>3 DEF FeeShares

\* What ComputeAMMTrade does
LEMMA TradeDoes ==
  ASSUME NEW n, ComputeAMMTrade(n), NEW q, q = ComputeAMMPrice(pool, n)
  PROVE  /\ q.ok
         /\ \E position, share : /\ share \in Decimals /\ Zero \preceq share
                                /\ pool' = PoolAfter(pool, q, position, share)
         /\ \E r : r.amount = n /\ r.pool = pool /\ trades' = Append(trades, r)
<1>1. PICK x, safe, share : share \in FeeShares(x, n) /\ TradeAt(n, q, x, share, safe)
  BY DEF ComputeAMMTrade
<1>2. share \in Decimals /\ Zero \preceq share
  BY <1>1, ShareType
<1>3. q.ok /\ pool' = PoolAfter(pool, q, x \oplus n, share)
  BY <1>1 DEF TradeAt
<1>4. \E r : r.amount = n /\ r.pool = pool /\ trades' = Append(trades, r)
  BY <1>1 DEF TradeAt
<1> QED
  BY <1>2, <1>3, <1>4

LEMMA TradeKeeps ==
  ASSUME TradesInv, NEW n \in Decimals, ComputeAMMTrade(n)
  PROVE  TradesInv'
<1>1. PICK q : q = ComputeAMMPrice(pool, n)
  OBVIOUS
<1>2. q.ok
  BY <1>1, TradeDoes
<1>3. PICK r : r.amount = n /\ r.pool = pool /\ trades' = Append(trades, r)
  BY <1>1, TradeDoes
<1>4. PICK S : trades \in Seq(S)
  BY DEF TradesInv
<1>5. /\ trades' \in Seq(S \cup {r}) /\ trades' # <<>>
      /\ trades'[Len(trades')] = r
  BY <1>3, <1>4, AppendLast
<1>6. PICK position, share : /\ share \in Decimals /\ Zero \preceq share
                             /\ pool' = PoolAfter(pool, q, position, share)
  BY <1>1, TradeDoes
<1>7. PoolFields(pool)
  BY DEF TradesInv
<1>8. LastTrade'
  BY <1>1, <1>2, <1>3, <1>5, <1>6, <1>7 DEF LastTrade
<1>9. pool.position \in Decimals
  BY <1>7 DEF PoolFields
<1>10. q.deltaAMMAmount = Neg(n)
  BY <1>1, <1>2, <1>9, QuoteAmount
<1>11. DOMAIN pool' = DOMAIN pool /\ pool'.position = pool.position \oplus Neg(n)
  BY <1>6, <1>7, <1>10 DEF PoolAfter, PoolFields
<1>12. PoolFields(pool')
  BY <1>7, <1>9, <1>11, NegType, SumType DEF PoolFields
<1> QED
  BY <1>5, <1>8, <1>12 DEF TradesInv

LEMMA TradesNext == TradesInv /\ OfferIsDecimal /\ [Next]_vars => TradesInv'
<1> SUFFICES ASSUME TradesInv, OfferIsDecimal, [Next]_vars PROVE TradesInv'
  OBVIOUS
<1>1. CASE UNCHANGED <<pool, trades>>
  BY <1>1 DEF TradesInv, LastTrade, PoolFields
<1>2. ASSUME NEW n, GoesOn, n \in Parts(level.maxTradeAmount), ComputeAMMTrade(n)
      PROVE  TradesInv'
  <2>1. level.maxTradeAmount \in Decimals
    BY <1>2, IsDecimalType DEF OfferIsDecimal, GoesOn
  <2>2. n \in Decimals
    BY <1>2, <2>1, AMMAssumption, IsDecimalType DEF Parts
  <2> QED
    BY <1>2, <2>2, TradeKeeps
<1>3. CASE Next
  <2>1. CASE ~level.asked /\ \E isTraderBuy \in BOOLEAN :
               \E limitPrice \in LimitPrices(isTraderBuy) : matchOneSide(isTraderBuy, limitPrice)
    BY <1>1, <2>1 DEF matchOneSide
  <2>2. CASE GoesOn /\ \E n \in Parts(level.maxTradeAmount) : ComputeAMMTrade(n)
    BY <1>2, <2>2
  <2> QED
    BY <1>3, <2>1, <2>2 DEF Next
<1>4. CASE UNCHANGED vars
  BY <1>1, <1>4 DEF vars
<1> QED
  BY <1>3, <1>4

-----------------------------------------------------------------------------
(***************************************************************************)
(* The margin of the pool                                                  *)
(***************************************************************************)

LEMMA LargerCorrect ==
  ASSUME NEW x \in Decimals, NEW y \in Decimals
  PROVE  /\ Larger(x, y) \in Decimals /\ x \preceq Larger(x, y)
         /\ Larger(x, y) = x \/ Larger(x, y) = y
<1>1. PICK d \in Int : Linear(d) /\ x \in Fit(d) /\ y \in Fit(d)
  BY FitFour
<1> QED
  BY <1>1 DEF Linear, Larger

LEMMA PerpetualTypes ==
  ASSUME NEW perp, IsPerpetual(perp)
  PROVE  /\ perp.index \in Decimals /\ Zero \prec perp.index
         /\ perp.openSlippageFactor \in Decimals /\ Zero \prec perp.openSlippageFactor
         /\ perp.closeSlippageFactor \in Decimals /\ Zero \prec perp.closeSlippageFactor
         /\ perp.halfSpread \in Decimals /\ perp.halfSpread \prec One
         /\ Zero \preceq perp.halfSpread
         /\ perp.maxClosePriceDiscount \in Decimals
         /\ perp.lpFeeRate \in Decimals /\ Zero \preceq perp.lpFeeRate
         /\ perp.unitAccumulativeFunding \in Decimals
BY IsDecimalType DEF IsPerpetual, Positive, NotNegative

DecimalContext(c) ==
  /\ IsContext(c) /\ IsPerpetual(c.perp)
  /\ c.position \in Decimals /\ c.cash \in Decimals
  /\ c.value \in Decimals /\ c.square \in Decimals /\ Zero \preceq c.square
  /\ c.deltaMargin \in Decimals /\ c.best \in Decimals

DecimalPool(p) ==
  /\ PoolFields(p) /\ IsPerpetual(p.perp) /\ p.cash \in Decimals
  /\ p.others \in Seq({p.others[j] : j \in DOMAIN p.others})
  /\ \A j \in DOMAIN p.others : IsOther(p.others[j])

LEMMA ContextDecimal ==
  ASSUME NEW p, DecimalPool(p), NEW c, c = Context(p)
  PROVE  /\ DecimalContext(c)
         /\ c.cash = p.cash \ominus (p.perp.unitAccumulativeFunding \otimes p.position)
<1> DEFINE value(o) == o.index \otimes o.position
           values == [j \in DOMAIN p.others |-> value(p.others[j])]
           squares == [j \in DOMAIN p.others |->
                         p.others[j].openSlippageFactor \otimes Square(value(p.others[j]))]
<1>1. /\ IsContext(c) /\ c.perp = p.perp /\ c.position = p.position
      /\ c.deltaMargin = Zero /\ c.best = Zero
  BY ContextFields
<1>2. /\ c.cash = p.cash \ominus (p.perp.unitAccumulativeFunding \otimes p.position)
      /\ c.value = Sum(values) /\ c.square = Sum(squares)
  BY DEF Context
<1>3. p.position \in Decimals /\ p.cash \in Decimals /\ IsPerpetual(p.perp)
  BY DEF DecimalPool, PoolFields
<1>4. c.cash \in Decimals
  BY <1>2, <1>3, PerpetualTypes, ProductType, SumType
<1>5. PICK n \in Nat : DOMAIN p.others = 1..n
  BY DEF DecimalPool
<1>6. \A j \in 1..n : /\ value(p.others[j]) \in Decimals
                      /\ p.others[j].openSlippageFactor \in Decimals
                      /\ Zero \prec p.others[j].openSlippageFactor
  <2> SUFFICES ASSUME NEW j \in 1..n
               PROVE  /\ value(p.others[j]) \in Decimals
                      /\ p.others[j].openSlippageFactor \in Decimals
                      /\ Zero \prec p.others[j].openSlippageFactor
    OBVIOUS
  <2>1. IsOther(p.others[j])
    BY <1>5 DEF DecimalPool
  <2>2. /\ p.others[j].index \in Decimals /\ p.others[j].position \in Decimals
        /\ p.others[j].openSlippageFactor \in Decimals
        /\ Zero \prec p.others[j].openSlippageFactor
    BY <2>1, IsDecimalType DEF IsOther, Positive
  <2> QED
    BY <2>2, ProductType
<1>7. \A j \in 1..n : squares[j] \in Decimals /\ Zero \preceq squares[j]
  <2> SUFFICES ASSUME NEW j \in 1..n PROVE squares[j] \in Decimals /\ Zero \preceq squares[j]
    OBVIOUS
  <2>1. PICK v, b : v = value(p.others[j]) /\ b = p.others[j].openSlippageFactor
    OBVIOUS
  <2>2. v \in Decimals /\ b \in Decimals /\ Zero \prec b
    BY <1>6, <2>1
  <2>3. squares[j] = b \otimes (v \otimes v)
    BY <1>5, <2>1 DEF Square
  <2>4. PICK w : w = v \otimes v /\ w \in Decimals /\ Zero \preceq w
    BY <2>2, ProductType, ProductSign
  <2>5. Zero \preceq b
    BY <2>2, LessIsAtMost
  <2>6. b \otimes w \in Decimals /\ Zero \preceq b \otimes w
    BY <2>2, <2>4, <2>5, ProductType, ProductSign
  <2> QED
    BY <2>3, <2>4, <2>6
<1>8. values \in Seq(Decimals)
  BY <1>5, <1>6
<1>9. squares \in Seq(Decimals) /\ Len(squares) = n
  BY <1>5, <1>7
<1> HIDE DEF values, squares
<1>10. c.value \in Decimals
  BY <1>2, <1>8, SumOfDecimals
<1>11. c.square \in Decimals /\ Zero \preceq c.square
  BY <1>2, <1>7, <1>9, SumOfDecimals
<1> QED
  BY <1>1, <1>2, <1>3, <1>4, <1>10, <1>11, ConstantsType DEF DecimalContext

\* 2 M (M - margin) <= -square
OnOrBelow(M, c, beta) ==
  (Two \otimes M) \otimes (M \ominus (c.cash \oplus ValueWithCurrent(c)))
    \preceq Neg(SquareValueWithCurrent(c, beta))

LEMMA ContextSums ==
  ASSUME NEW c, DecimalContext(c), NEW beta \in Decimals
  PROVE  /\ c.perp.index \otimes c.position \in Decimals
         /\ ValueWithCurrent(c) \in Decimals /\ c.cash \oplus ValueWithCurrent(c) \in Decimals
         /\ SquareValueWithCurrent(c, beta) \in Decimals
         /\ Zero \prec beta => Zero \preceq SquareValueWithCurrent(c, beta)
<1>1. /\ c.position \in Decimals /\ c.cash \in Decimals
      /\ c.value \in Decimals /\ c.square \in Decimals /\ Zero \preceq c.square
      /\ c.perp.index \in Decimals
  BY PerpetualTypes DEF DecimalContext
<1>2. PICK v : v = c.perp.index \otimes c.position /\ v \in Decimals
  BY <1>1, ProductType
<1>3. PICK w : w = v \otimes v /\ w \in Decimals /\ Zero \preceq w
  BY <1>2, ProductType, ProductSign
<1>4. ValueWithCurrent(c) \in Decimals /\ c.cash \oplus ValueWithCurrent(c) \in Decimals
  BY <1>1, <1>2, SumType DEF ValueWithCurrent
<1>5. PICK z : z = beta \otimes w /\ z \in Decimals
  BY <1>3, ProductType
<1>6. SquareValueWithCurrent(c, beta) = c.square \oplus z
  BY <1>2, <1>3, <1>5 DEF SquareValueWithCurrent, Square
<1>7. ASSUME Zero \prec beta PROVE Zero \preceq c.square \oplus z
  <2>1. Zero \preceq beta
    BY <1>7, LessIsAtMost
  <2>2. Zero \preceq z
    BY <1>3, <1>5, <2>1, ProductSign
  <2>3. PICK d \in Int : Linear(d) /\ c.square \in Fit(d) /\ z \in Fit(d)
    BY <1>1, <1>5, FitFour
  <2> QED
    BY <1>1, <2>2, <2>3 DEF Linear
<1> QED
  BY <1>1, <1>2, <1>4, <1>5, <1>6, <1>7, SumType

LEMMA PoolMarginOnCurve ==
  ASSUME NEW c, DecimalContext(c), NEW beta \in Decimals, RootExact(c, beta),
         NEW M, M = computeAMMPoolMargin(c, beta)
  PROVE  /\ M \in Decimals
         /\ (Two \otimes M) \otimes (M \ominus (c.cash \oplus ValueWithCurrent(c)))
              = Neg(SquareValueWithCurrent(c, beta))
         /\ \A x \in Decimals : OnOrBelow(x, c, beta) => x \preceq M
<1>1. PICK m, S, r : /\ m = c.cash \oplus ValueWithCurrent(c)
                     /\ S = SquareValueWithCurrent(c, beta)
                     /\ r = Sqrt(BeforeSqrt(c, beta))
  OBVIOUS
<1>2. m \in Decimals /\ S \in Decimals
  BY <1>1, ContextSums
<1>3. r \in Decimals /\ Zero \preceq r /\ Square(r) = BeforeSqrt(c, beta)
  BY <1>1, IsDecimalType DEF RootExact
<1>4. Square(r) = Square(m) \ominus (Two \otimes S)
  BY <1>1, <1>3 DEF BeforeSqrt
<1>5. M = (m \oplus r) \oslash Two
  BY <1>1 DEF computeAMMPoolMargin
<1>6. M \in Decimals /\ (Two \otimes M) \otimes (M \ominus m) = Neg(S)
  BY <1>2, <1>3, <1>4, <1>5, ZeroOfCurve
<1>7. ASSUME NEW x \in Decimals, OnOrBelow(x, c, beta) PROVE x \preceq M
  <2>1. (Two \otimes x) \otimes (x \ominus m) \preceq Neg(S)
    BY <1>1, <1>7 DEF OnOrBelow
  <2> QED
    BY <1>2, <1>3, <1>4, <1>5, <2>1, LargerZero
<1> QED
  BY <1>1, <1>6, <1>7

LEMMA OppositeSigns ==
  ASSUME NEW x \in Decimals, NEW y \in Decimals, ~SameSign(x, y)
  PROVE  (Zero \prec x /\ y \prec Zero) \/ (x \prec Zero /\ Zero \prec y)
<1>1. PICK i \in {-1, 0, 1}, j \in {-1, 0, 1} : i = Sign(x) /\ j = Sign(y)
  BY SignOrder
<1>2. ~(i * j >= 0)
  BY <1>1 DEF SameSign
<1>3. (i > 0 /\ j < 0) \/ (i < 0 /\ j > 0)
  BY <1>2
<1> QED
  BY <1>1, <1>3, SignOrder

LEMMA QuotientSign ==
  ASSUME NEW x \in Decimals, NEW M \in Decimals, Zero \prec M
  PROVE  /\ x \oslash M \in Decimals
         /\ x \prec Zero => x \oslash M \prec Zero
<1>1. M # Zero
  BY LessIsAtMost
<1>2. PICK q : q = x \oslash M /\ q \in Decimals /\ q \otimes M = x
  BY <1>1, QuotientCorrect
<1>3. M \otimes q = x
  BY <1>2, ProductCommutes
<1> QED
  BY <1>2, <1>3, ProductSign

\* A larger position slips more.
LEMMA SlipRises ==
  ASSUME NEW x \in Decimals, NEW y \in Decimals, x \prec y,
         NEW P \in Decimals, Zero \prec P, NEW M \in Decimals, Zero \prec M,
         NEW b \in Decimals, Zero \prec b
  PROVE  ((x \otimes P) \oslash M) \otimes b \prec ((y \otimes P) \oslash M) \otimes b
<1>1. PICK u, v : /\ u = x \otimes P /\ u \in Decimals
                  /\ v = y \otimes P /\ v \in Decimals
  BY ProductType
<1>2. M # Zero
  BY LessIsAtMost
<1>3. PICK q, r : /\ q = u \oslash M /\ q \in Decimals /\ q \otimes M = u
                  /\ r = v \oslash M /\ r \in Decimals /\ r \otimes M = v
  BY <1>1, <1>2, QuotientCorrect
<1>4. PICK z : z = y \ominus x /\ z \in Decimals /\ Zero \prec z
  <2>1. PICK d \in Int : Linear(d) /\ x \in Fit(d) /\ y \in Fit(d)
    BY FitFour
  <2> QED
    BY <2>1 DEF Linear
<1>5. Zero \prec z \otimes P /\ z \otimes P = v \ominus u
  BY <1>1, <1>4, ProductSign, ProductDifference
<1>6. PICK w : w = r \ominus q /\ w \in Decimals
  BY <1>3, SumType
<1>7. w \otimes M = v \ominus u
  BY <1>3, <1>6, ProductDifference
<1>8. Zero \prec M \otimes w
  BY <1>5, <1>6, <1>7, ProductCommutes
<1>9. Zero \prec w
  BY <1>6, <1>8, ProductSign
<1>10. Zero \prec w \otimes b /\ w \otimes b = (r \otimes b) \ominus (q \otimes b)
  BY <1>3, <1>6, <1>9, ProductSign, ProductDifference
<1>11. PICK s, t : /\ s = q \otimes b /\ s \in Decimals
                   /\ t = r \otimes b /\ t \in Decimals
  BY <1>3, ProductType
<1>12. s \prec t
  <2>1. PICK d \in Int : Linear(d) /\ s \in Fit(d) /\ t \in Fit(d)
    BY <1>11, FitFour
  <2>2. Zero \prec t \ominus s
    BY <1>10, <1>11
  <2> QED
    BY <2>1, <2>2 DEF Linear
<1> QED
  BY <1>1, <1>3, <1>11, <1>12

\* The slippage of the price at the AMM's position
SlipAt(c, beta, M) == ((c.position \otimes c.perp.index) \oslash M) \otimes beta

LEMMA BestPrice ==
  ASSUME NEW c, DecimalContext(c), NEW beta \in Decimals,
         NEW M, M = computeAMMPoolMargin(c, beta), M \in Decimals, Zero \prec M,
         NEW m, m = WithPoolMargin(c, beta), NEW isAMMBuy,
         NEW best, best = computeBestAskBidPriceIfSafe(m, beta, isAMMBuy)
  PROVE  /\ best \in Decimals
         /\ SlipAt(c, beta, M) \in Decimals
         /\ SlipAt(c, beta, M) \prec One => Zero \prec best
<1>1. m.poolMargin = M /\ m.position = c.position /\ m.perp = c.perp
  BY PoolMarginFields DEF DecimalContext, SamePool
<1>2. /\ c.position \in Decimals /\ IsPerpetual(c.perp)
  BY DEF DecimalContext
<1>3. PICK P, h : /\ P = c.perp.index /\ P \in Decimals /\ Zero \prec P
                  /\ h = c.perp.halfSpread /\ h \in Decimals /\ h \prec One
                  /\ Zero \preceq h
  BY <1>2, PerpetualTypes
<1>4. PICK s : s = SlipAt(c, beta, M)
  OBVIOUS
<1>5. s \in Decimals
  BY <1>2, <1>3, <1>4, ProductType, QuotientSign DEF SlipAt
<1>6. ~(M \preceq Zero)
  BY ConstantsType, SumLaws
<1>7. PICK t : t = IF isAMMBuy THEN One \ominus h ELSE One \oplus h
  OBVIOUS
<1>8. best = ((One \ominus s) \otimes P) \otimes t
  BY <1>1, <1>3, <1>4, <1>6, <1>7 DEF computeBestAskBidPriceIfSafe, appendSpread, SlipAt
<1>9. PICK o : o = One \ominus s /\ o \in Decimals /\ (s \prec One => Zero \prec o)
  <2>1. PICK d \in Int : Linear(d) /\ s \in Fit(d) /\ One \in Fit(d)
    BY <1>5, ConstantsType, FitFour
  <2> QED
    BY <2>1 DEF Linear
<1>10. t \in Decimals /\ Zero \prec t
  <2>1. PICK d \in Int : Linear(d) /\ h \in Fit(d) /\ One \in Fit(d)
    BY <1>3, ConstantsType, FitFour
  <2> QED
    BY <1>3, <1>7, <2>1 DEF Linear
<1>11. PICK u : u = o \otimes P /\ u \in Decimals /\ (Zero \prec o => Zero \prec u)
  <2>1. o \otimes P \in Decimals
    BY <1>3, <1>9, ProductType
  <2>2. Zero \prec o => Zero \prec o \otimes P
    BY <1>3, <1>9, ProductSign
  <2> QED
    BY <2>1, <2>2
<1>12. best = u \otimes t
  BY <1>8, <1>9, <1>11
<1> QED
  BY <1>4, <1>5, <1>9, <1>10, <1>11, <1>12, ProductType, ProductSign

\* computeDeltaMargin is what CurveTrade calls paid.
LEMMA DeltaMarginIsPaid ==
  ASSUME NEW c, DecimalContext(c), NEW beta \in Decimals, NEW k \in Decimals,
         NEW M, M = computeAMMPoolMargin(c, beta), M \in Decimals, Zero \prec M,
         NEW m, m = WithPoolMargin(c, beta)
  PROVE  /\ computeDeltaMargin(m, beta, k) = Paid(c.position, k, c.perp.index, beta, M)
         /\ computeDeltaMargin(m, beta, k) \in Decimals
<1>1. m.poolMargin = M /\ m.position = c.position /\ m.perp = c.perp
  BY PoolMarginFields DEF DecimalContext, SamePool
<1>2. computeDeltaMargin(m, beta, k) = Paid(c.position, k, c.perp.index, beta, M)
  BY <1>1 DEF computeDeltaMargin, Paid, Slip
<1>3. M # Zero /\ c.position \in Decimals /\ c.perp.index \in Decimals
  BY LessIsAtMost, PerpetualTypes DEF DecimalContext
<1>4. CurveLaw(c.position, k, c.perp.index, beta, M)
  BY <1>3, CurveTrade
<1> QED
  BY <1>2, <1>4 DEF CurveLaw

\* A trade for at least what the curve asks leaves the pool margin.
LEMMA TradeOnCurve ==
  ASSUME NEW c, DecimalContext(c), NEW beta \in Decimals, RootExact(c, beta),
         NEW M, M = computeAMMPoolMargin(c, beta), Zero \prec M,
         NEW m, m = WithPoolMargin(c, beta), NEW k \in Decimals,
         NEW d \in Decimals, computeDeltaMargin(m, beta, k) \preceq d,
         NEW e, SamePool(c, e), e.cash = c.cash \oplus d, e.position = k
  PROVE  OnOrBelow(M, e, beta)
<1>1. /\ M \in Decimals
      /\ (Two \otimes M) \otimes (M \ominus (c.cash \oplus ValueWithCurrent(c)))
           = Neg(SquareValueWithCurrent(c, beta))
  BY PoolMarginOnCurve
<1>2. PICK n, P, a, V, Q : /\ n = c.position /\ P = c.perp.index /\ a = c.cash
                           /\ V = c.value /\ Q = c.square
  OBVIOUS
<1>3. n \in Decimals /\ P \in Decimals /\ a \in Decimals /\ V \in Decimals /\ Q \in Decimals
  BY <1>2, PerpetualTypes DEF DecimalContext
<1>4. Paid(n, k, P, beta, M) \preceq d
  BY <1>1, <1>2, DeltaMarginIsPaid
<1>5. (Two \otimes M) \otimes (M \ominus (a \oplus (V \oplus (P \otimes n))))
        = Neg(Q \oplus (beta \otimes Square(P \otimes n)))
  BY <1>1, <1>2 DEF ValueWithCurrent, SquareValueWithCurrent
<1>6. (Two \otimes M) \otimes (M \ominus ((a \oplus d) \oplus (V \oplus (P \otimes k))))
        \preceq Neg(Q \oplus (beta \otimes Square(P \otimes k)))
  BY <1>1, <1>3, <1>4, <1>5, OnCurve
<1> QED
  BY <1>2, <1>6 DEF OnOrBelow, ValueWithCurrent, SquareValueWithCurrent, SamePool

\* e is c after a trade of amount, for a margin on the other side.
Stepped(c, e, amount) ==
  /\ DecimalContext(e) /\ SamePool(c, e)
  /\ e.position = c.position \oplus amount
  /\ \E d \in Decimals : /\ (Zero \prec d /\ amount \prec Zero) \/ (d \prec Zero /\ Zero \prec amount)
                         /\ e.deltaMargin = c.deltaMargin \oplus d
                         /\ e.cash = c.cash \oplus d

LEMMA AfterSteps ==
  ASSUME NEW c, DecimalContext(c), NEW amount \in Decimals, NEW e,
         NEW d \in Decimals, NEW best \in Decimals, After(c, e, amount, d, best)
  PROVE  Stepped(c, e, amount)
<1>1. (Zero \prec d /\ amount \prec Zero) \/ (d \prec Zero /\ Zero \prec amount)
  BY OppositeSigns DEF After
<1>2. /\ c.position \oplus amount \in Decimals /\ c.cash \oplus d \in Decimals
      /\ c.deltaMargin \oplus d \in Decimals
  BY SumType DEF DecimalContext
<1>3. DecimalContext(e)
  BY <1>2 DEF DecimalContext, After, SamePool
<1> QED
  BY <1>1, <1>3 DEF Stepped, After

LEMMA DiscountType ==
  ASSUME NEW c, DecimalContext(c), NEW b, NEW amount \in Decimals
  PROVE  Neg(DiscountLimitPrice(c, b) \otimes amount) \in Decimals
<1>1. PICK h, P : /\ h = c.perp.maxClosePriceDiscount /\ h \in Decimals
                  /\ P = c.perp.index /\ P \in Decimals
  BY PerpetualTypes DEF DecimalContext
<1>2. PICK i : i = (IF b THEN h ELSE Neg(h)) /\ i \in Decimals
  BY <1>1, NegType
<1>3. PICK o : o = One \oplus i /\ o \in Decimals
  BY <1>2, ConstantsType, SumType
<1>4. DiscountLimitPrice(c, b) = o \otimes P
  BY <1>1, <1>2, <1>3 DEF DiscountLimitPrice
<1>5. o \otimes P \in Decimals
  BY <1>1, <1>3, ProductType
<1>6. (o \otimes P) \otimes amount \in Decimals
  BY <1>5, ProductType
<1> QED
  BY <1>4, <1>6, NegType

LEMMA CloseUnsafe ==
  ASSUME NEW c, IsContext(c), NEW amount,
         ~isAMMSafe(c, c.perp.closeSlippageFactor),
         NEW e, e = computeAMMInternalClose(c, amount), e.ok
  PROVE  After(c, e, amount,
               Larger(Neg(c.perp.index \otimes amount),
                      Neg(DiscountLimitPrice(c, Sign(amount) > 0) \otimes amount)),
               c.perp.index)
<1>1. e = CloseIfUnsafe(c, amount)
  BY DEF computeAMMInternalClose
<1>2. PICK b : b = [c EXCEPT !.best = c.perp.index]
  OBVIOUS
<1>3. /\ IsContext(b) /\ SamePool(c, b) /\ b.best = c.perp.index
      /\ b.deltaMargin = c.deltaMargin /\ b.deltaPosition = c.deltaPosition
      /\ b.cash = c.cash /\ b.position = c.position
  BY <1>2, BestPriceFields
<1>4. DiscountLimitPrice(b, Sign(amount) > 0) = DiscountLimitPrice(c, Sign(amount) > 0)
  BY <1>3 DEF DiscountLimitPrice, SamePool
<1>5. PICK d : d = Larger(Neg(c.perp.index \otimes amount),
                          Neg(DiscountLimitPrice(c, Sign(amount) > 0) \otimes amount))
  OBVIOUS
<1>6. e = Traded(b, amount, d)
  BY <1>1, <1>2, <1>4, <1>5 DEF CloseIfUnsafe, Closed, computeBestAskBidPriceIfUnsafe
<1>7. After(b, e, amount, d, b.best)
  BY <1>3, <1>6, TradedFields DEF After
<1> QED
  BY <1>3, <1>5, <1>7 DEF After, SamePool

\* A close: the price is positive when the AMM buys, and a safe pool keeps its
\* margin.
LEMMA CloseKeeps ==
  ASSUME NEW c, DecimalContext(c), NEW amount \in Decimals,
         Zero \prec amount => c.position \prec Zero,
         NEW beta, beta = c.perp.closeSlippageFactor,
         isAMMSafe(c, beta) => RootExact(c, beta),
         NEW e, e = computeAMMInternalClose(c, amount), e.ok,
         NEW M, M = computeAMMPoolMargin(c, beta)
  PROVE  /\ Stepped(c, e, amount)
         /\ Zero \prec amount => Zero \prec e.best
         /\ isAMMSafe(c, beta) => Zero \prec M /\ OnOrBelow(M, e, beta)
<1>1. IsContext(c) /\ IsPerpetual(c.perp)
  BY DEF DecimalContext
<1>2. PICK P : P = c.perp.index /\ P \in Decimals /\ Zero \prec P
  BY <1>1, PerpetualTypes
<1>3. beta \in Decimals /\ Zero \prec beta
  BY <1>1, PerpetualTypes
<1>4. PICK l : l = Neg(DiscountLimitPrice(c, Sign(amount) > 0) \otimes amount) /\ l \in Decimals
  BY DiscountType
<1>5. CASE ~isAMMSafe(c, beta)
  <2>1. PICK d : d = Larger(Neg(P \otimes amount), l)
    OBVIOUS
  <2>2. After(c, e, amount, d, P)
    BY <1>1, <1>2, <1>4, <1>5, <2>1, CloseUnsafe
  <2>3. P \otimes amount \in Decimals
    BY <1>2, ProductType
  <2>4. Neg(P \otimes amount) \in Decimals
    BY <2>3, NegType
  <2>5. d \in Decimals
    BY <1>4, <2>1, <2>4, LargerCorrect
  <2>6. Stepped(c, e, amount)
    BY <1>2, <2>2, <2>5, AfterSteps
  <2>7. e.best = P
    BY <2>2 DEF After
  <2> QED
    BY <1>2, <1>5, <2>6, <2>7
<1>6. CASE isAMMSafe(c, beta)
  <2>1. PICK m : m = WithPoolMargin(c, beta)
    OBVIOUS
  <2>2. PICK k : k = c.position \oplus amount /\ k \in Decimals
    BY SumType DEF DecimalContext
  <2>3. PICK d : d = Larger(computeDeltaMargin(m, beta, k), l)
    OBVIOUS
  <2>4. PICK isAMMBuy : isAMMBuy = (Sign(amount) > 0)
    OBVIOUS
  <2>5. PICK best : best = computeBestAskBidPriceIfSafe(m, beta, isAMMBuy)
    OBVIOUS
  <2>6. CanTrade(m, k) /\ After(c, e, amount, d, best)
    BY <1>1, <1>4, <1>6, <2>1, <2>2, <2>3, <2>4, <2>5, CloseSafe
  <2>7. m.poolMargin = M
    BY <1>1, <2>1, PoolMarginFields
  <2>8. Zero \prec M
    BY <2>6, <2>7 DEF CanTrade
  <2>9. RootExact(c, beta) /\ M \in Decimals
    BY <1>3, <1>6, PoolMarginOnCurve
  <2>10. computeDeltaMargin(m, beta, k) \in Decimals
    BY <1>3, <2>1, <2>2, <2>8, <2>9, DeltaMarginIsPaid
  <2>11. d \in Decimals /\ computeDeltaMargin(m, beta, k) \preceq d
    BY <1>4, <2>3, <2>10, LargerCorrect
  <2>12. /\ best \in Decimals /\ SlipAt(c, beta, M) \in Decimals
         /\ SlipAt(c, beta, M) \prec One => Zero \prec best
    BY <1>3, <2>1, <2>5, <2>8, <2>9, BestPrice
  <2>13. Stepped(c, e, amount)
    BY <2>6, <2>11, <2>12, AfterSteps
  <2>14. SamePool(c, e) /\ e.cash = c.cash \oplus d /\ e.position = k /\ e.best = best
    BY <2>2, <2>6 DEF After
  <2>15. OnOrBelow(M, e, beta)
    BY <1>3, <2>1, <2>2, <2>8, <2>9, <2>11, <2>14, TradeOnCurve
  <2>16. ASSUME Zero \prec amount PROVE Zero \prec best
    <3>1. PICK n : n = c.position /\ n \in Decimals /\ n \prec Zero
      BY <2>16 DEF DecimalContext
    <3>2. PICK u : u = n \otimes P /\ u \in Decimals /\ u \prec Zero
      <4>1. P \otimes n \prec Zero
        BY <1>2, <3>1, ProductSign
      <4>2. n \otimes P = P \otimes n /\ n \otimes P \in Decimals
        BY <1>2, <3>1, ProductCommutes, ProductType
      <4> QED
        BY <4>1, <4>2
    <3>3. PICK q : q = u \oslash M /\ q \in Decimals /\ q \prec Zero
      BY <2>8, <2>9, <3>2, QuotientSign
    <3>4. PICK s : s = q \otimes beta /\ s \in Decimals /\ s \prec Zero
      <4>1. beta \otimes q \prec Zero
        BY <1>3, <3>3, ProductSign
      <4>2. q \otimes beta = beta \otimes q /\ q \otimes beta \in Decimals
        BY <1>3, <3>3, ProductCommutes, ProductType
      <4> QED
        BY <4>1, <4>2
    <3>5. SlipAt(c, beta, M) = s
      BY <1>2, <3>1, <3>2, <3>3, <3>4 DEF SlipAt
    <3>6. s \prec One
      BY <3>4, ZeroBelowOne, ConstantsType, SumLaws
    <3> QED
      BY <2>12, <3>5, <3>6
  <2> QED
    BY <1>6, <2>8, <2>13, <2>14, <2>15, <2>16
<1> QED
  BY <1>5, <1>6

\* What the AMM pays to buy has a positive price at the amount's middle, and
\* so at its start.
LEMMA OpensBelowOne ==
  ASSUME NEW c, DecimalContext(c), NEW beta \in Decimals, Zero \prec beta,
         NEW M, M = computeAMMPoolMargin(c, beta), M \in Decimals, Zero \prec M,
         NEW amount \in Decimals, Zero \prec amount,
         NEW k, k = c.position \oplus amount,
         Paid(c.position, k, c.perp.index, beta, M) \prec Zero
  PROVE  SlipAt(c, beta, M) \prec One
<1>1. PICK n : n = c.position /\ n \in Decimals
  BY DEF DecimalContext
<1>2. PICK P : P = c.perp.index /\ P \in Decimals /\ Zero \prec P
  BY PerpetualTypes DEF DecimalContext
<1>3. k \in Decimals
  BY <1>1, SumType
<1>4. PICK h : h = (k \oplus n) \oslash Two /\ h \in Decimals /\ h \oplus h = k \oplus n
  <2>1. k \oplus n \in Decimals
    BY <1>1, <1>3, SumType
  <2> QED
    BY <2>1, Half
<1>5. n \prec h /\ n \ominus k = Neg(amount)
  <2>1. PICK d \in Int : Linear(d) /\ n \in Fit(d) /\ amount \in Fit(d) /\ h \in Fit(d)
    BY <1>1, <1>4, FitFour
  <2> QED
    BY <1>1, <1>4, <2>1 DEF Linear
<1>6. PICK s : s = ((h \otimes P) \oslash M) \otimes beta /\ s \in Decimals
  BY <1>2, <1>4, ProductType, QuotientSign
<1>7. SlipAt(c, beta, M) \prec s
  BY <1>1, <1>2, <1>4, <1>5, <1>6, SlipRises DEF SlipAt
<1>8. SlipAt(c, beta, M) \in Decimals
  BY <1>1, <1>2, ProductType, QuotientSign DEF SlipAt
<1>9. PICK o : o = One \ominus s /\ o \in Decimals
  BY <1>6, ConstantsType, SumType
<1>10. Paid(n, k, P, beta, M) = (Neg(amount) \otimes o) \otimes P
  BY <1>4, <1>5, <1>6, <1>9 DEF Paid, Slip
<1>11. PICK w : w = amount \otimes o /\ w \in Decimals
  BY <1>9, ProductType
<1>12. Neg(amount) \otimes o = Neg(w) /\ Neg(w) \in Decimals
  BY <1>9, <1>11, ProductNeg, NegType
<1>13. P \otimes Neg(w) \prec Zero
  BY <1>1, <1>2, <1>10, <1>12, ProductCommutes
<1>14. Neg(w) \prec Zero
  BY <1>2, <1>12, <1>13, ProductSign
<1>15. Zero \prec w
  <2>1. PICK d \in Int : Linear(d) /\ w \in Fit(d)
    BY <1>11, FitFour
  <2> QED
    BY <1>14, <2>1 DEF Linear
<1>16. Zero \prec o
  BY <1>9, <1>11, <1>15, ProductSign
<1>17. s \prec One
  <2>1. PICK d \in Int : Linear(d) /\ s \in Fit(d) /\ One \in Fit(d)
    BY <1>6, ConstantsType, FitFour
  <2> QED
    BY <1>9, <1>16, <2>1 DEF Linear
<1> QED
  BY <1>6, <1>7, <1>8, <1>17, ConstantsType, SumLaws

\* An open: the price is positive when the AMM buys, and the pool keeps its
\* margin.
LEMMA OpenKeeps ==
  ASSUME NEW c, DecimalContext(c), NEW amount \in Decimals,
         Zero \prec amount => c.best = Zero \/ Zero \prec c.best,
         NEW beta, beta = c.perp.openSlippageFactor,
         isAMMSafe(c, beta) => RootExact(c, beta),
         NEW e, e = computeAMMInternalOpen(c, amount), e.ok,
         NEW M, M = computeAMMPoolMargin(c, beta)
  PROVE  /\ Stepped(c, e, amount)
         /\ Zero \prec amount => Zero \prec e.best
         /\ RootExact(c, beta) /\ Zero \prec M /\ OnOrBelow(M, e, beta)
<1>1. IsContext(c) /\ IsPerpetual(c.perp) /\ c.best \in Decimals
  BY DEF DecimalContext
<1>2. beta \in Decimals /\ Zero \prec beta
  BY <1>1, PerpetualTypes
<1>3. PICK m : m = WithPoolMargin(c, beta)
  OBVIOUS
<1>4. PICK k : k = c.position \oplus amount /\ k \in Decimals
  BY SumType DEF DecimalContext
<1>5. PICK d : d = computeDeltaMargin(m, beta, k)
  OBVIOUS
<1>6. PICK isAMMBuy : isAMMBuy = (Sign(amount) > 0)
  OBVIOUS
<1>7. PICK safe : safe = computeBestAskBidPriceIfSafe(m, beta, isAMMBuy)
  OBVIOUS
<1>8. PICK best : best = IF c.best = Zero THEN safe ELSE c.best
  OBVIOUS
<1>9. isAMMSafe(c, beta) /\ CanTrade(m, k) /\ After(c, e, amount, d, best)
  BY <1>1, <1>3, <1>4, <1>5, <1>6, <1>7, <1>8, OpenSafe
<1>10. m.poolMargin = M
  BY <1>1, <1>3, PoolMarginFields
<1>11. Zero \prec M
  BY <1>9, <1>10 DEF CanTrade
<1>12. RootExact(c, beta) /\ M \in Decimals
  BY <1>2, <1>9, PoolMarginOnCurve
<1>13. d = Paid(c.position, k, c.perp.index, beta, M) /\ d \in Decimals
  BY <1>2, <1>3, <1>4, <1>5, <1>11, <1>12, DeltaMarginIsPaid
<1>14. d \preceq d
  <2>1. PICK i \in Int : Linear(i) /\ d \in Fit(i)
    BY <1>13, FitFour
  <2> QED
    BY <2>1 DEF Linear
<1>15. safe \in Decimals /\ (SlipAt(c, beta, M) \prec One => Zero \prec safe)
  BY <1>2, <1>3, <1>7, <1>11, <1>12, BestPrice
<1>16. best \in Decimals
  BY <1>1, <1>8, <1>15
<1>17. Stepped(c, e, amount)
  BY <1>9, <1>13, <1>16, AfterSteps
<1>18. SamePool(c, e) /\ e.cash = c.cash \oplus d /\ e.position = k /\ e.best = best
         /\ ~SameSign(d, amount)
  BY <1>4, <1>9 DEF After
<1>19. OnOrBelow(M, e, beta)
  BY <1>2, <1>3, <1>4, <1>5, <1>11, <1>12, <1>13, <1>14, <1>18, TradeOnCurve
<1>20. ASSUME Zero \prec amount PROVE Zero \prec best
  <2>1. ~(amount \prec Zero)
    <3>1. PICK i \in Int : Linear(i) /\ amount \in Fit(i)
      BY FitFour
    <3> QED
      BY <1>20, <3>1 DEF Linear
  <2>2. d \prec Zero
    BY <1>13, <1>18, <2>1, OppositeSigns
  <2>3. SlipAt(c, beta, M) \prec One
    BY <1>2, <1>4, <1>11, <1>12, <1>13, <1>20, <2>2, OpensBelowOne
  <2> QED
    BY <1>8, <1>15, <1>20, <2>3
<1> QED
  BY <1>11, <1>12, <1>17, <1>18, <1>19, <1>20

\* SplitAmount: both parts have the side of the amount, and what opens follows
\* what takes the position to zero.
LEMMA SplitAmount ==
  ASSUME NEW n \in Decimals, NEW a \in Decimals, a # Zero,
         NEW close, close = Closing(n, a), NEW open, open = Opening(n, a)
  PROVE  /\ close \in Decimals /\ open \in Decimals /\ close \oplus open = a
         /\ Zero \prec a => /\ close = Zero \/ Zero \prec close
                            /\ open = Zero \/ Zero \prec open
         /\ a \prec Zero => /\ close = Zero \/ close \prec Zero
                            /\ open = Zero \/ open \prec Zero
         /\ close # Zero /\ Zero \prec a => n \prec Zero
         /\ close # Zero /\ open # Zero => n \oplus close = Zero
         /\ close # Zero \/ open # Zero
<1>1. close \in Decimals /\ open \in Decimals /\ close \oplus open = a
  BY ClosingType
<1>2. close # Zero \/ open # Zero
  BY <1>1, SumZero, ConstantsType
<1>3. PICK d \in Int : d > 0 /\ Linear(d) /\ n \in Fit(d) /\ a \in Fit(d)
  BY FitFour
<1>4. CASE SameSign(n, a)
  <2>1. close = Zero
    BY <1>4 DEF Closing
  <2>2. open = a
    BY <1>1, <2>1, SumZero
  <2> QED
    BY <1>1, <1>2, <2>1, <2>2
<1>5. CASE ~SameSign(n, a)
  <2>1. (Zero \prec n /\ a \prec Zero) \/ (n \prec Zero /\ Zero \prec a)
    BY <1>5, OppositeSigns
  <2>2. CASE AbsOf(a) \preceq AbsOf(n)
    <3>1. close = a
      BY <1>5, <2>2 DEF Closing
    <3>2. open = Zero
      <4>1. open = a \ominus a
        BY <3>1 DEF Opening
      <4> QED
        BY <1>3, <4>1 DEF Linear
    <3> QED
      BY <1>1, <1>2, <1>3, <2>1, <3>1, <3>2 DEF Linear
  <2>3. CASE ~(AbsOf(a) \preceq AbsOf(n))
    <3>1. close = Neg(n)
      BY <1>5, <2>3 DEF Closing
    <3>2. open = a \ominus Neg(n)
      BY <3>1 DEF Opening
    <3>3. /\ Zero \prec n => AbsOf(n) = n
          /\ n \prec Zero => AbsOf(n) = Neg(n)
          /\ Zero \prec a => AbsOf(a) = a
          /\ a \prec Zero => AbsOf(a) = Neg(a)
      BY AbsOfSign
    <3> QED
      BY <1>1, <1>2, <1>3, <2>1, <2>3, <3>1, <3>2, <3>3 DEF Linear
  <2> QED
    BY <2>2, <2>3
<1> QED
  BY <1>4, <1>5

LEMMA StepsCompose ==
  ASSUME NEW c, NEW e, NEW f, DecimalContext(c), NEW a \in Decimals, NEW b \in Decimals,
         Stepped(c, e, a), Stepped(e, f, b),
         (Zero \prec a /\ Zero \prec b) \/ (a \prec Zero /\ b \prec Zero)
  PROVE  Stepped(c, f, a \oplus b)
<1>1. PICK x \in Decimals : /\ (Zero \prec x /\ a \prec Zero) \/ (x \prec Zero /\ Zero \prec a)
                            /\ e.deltaMargin = c.deltaMargin \oplus x
                            /\ e.cash = c.cash \oplus x
  BY DEF Stepped
<1>2. PICK y \in Decimals : /\ (Zero \prec y /\ b \prec Zero) \/ (y \prec Zero /\ Zero \prec b)
                            /\ f.deltaMargin = e.deltaMargin \oplus y
                            /\ f.cash = e.cash \oplus y
  BY DEF Stepped
<1>3. PICK z : z = x \oplus y /\ z \in Decimals
  BY SumType
<1>4. (Zero \prec z /\ a \oplus b \prec Zero) \/ (z \prec Zero /\ Zero \prec a \oplus b)
  <2>1. PICK d \in Int : Linear(d) /\ x \in Fit(d) /\ y \in Fit(d) /\ a \in Fit(d) /\ b \in Fit(d)
    BY FitFour
  <2> QED
    BY <1>1, <1>2, <1>3, <2>1 DEF Linear
<1>5. c.deltaMargin \in Decimals /\ c.cash \in Decimals /\ c.position \in Decimals
  BY DEF DecimalContext
<1>6. /\ f.deltaMargin = c.deltaMargin \oplus z /\ f.cash = c.cash \oplus z
  BY <1>1, <1>2, <1>3, <1>5, SumLaws
<1>7. f.position = c.position \oplus (a \oplus b)
  BY <1>5, SumLaws DEF Stepped
<1>8. DecimalContext(f) /\ SamePool(c, f)
  BY DEF Stepped, SamePool
<1> QED
  BY <1>3, <1>4, <1>6, <1>7, <1>8 DEF Stepped

\* Without a position the slippage factor does not matter.
LEMMA AtZero ==
  ASSUME NEW c, DecimalContext(c), c.position = Zero,
         NEW beta \in Decimals, NEW gamma \in Decimals, NEW M, OnOrBelow(M, c, beta)
  PROVE  OnOrBelow(M, c, gamma)
<1>1. c.perp.index \in Decimals
  BY PerpetualTypes DEF DecimalContext
<1>2. c.perp.index \otimes c.position = Zero
  BY <1>1, ProductOne
<1>3. Square(Zero) = Zero /\ beta \otimes Zero = Zero /\ gamma \otimes Zero = Zero
  BY ConstantsType, ProductOne DEF Square
<1>4. SquareValueWithCurrent(c, beta) = SquareValueWithCurrent(c, gamma)
  BY <1>2, <1>3 DEF SquareValueWithCurrent
<1> QED
  BY <1>4 DEF OnOrBelow

\* The slippage factors of the first and of the last part
BetaOf(close, perp) ==
  IF close = Zero THEN perp.openSlippageFactor ELSE perp.closeSlippageFactor
LastBetaOf(open, perp) ==
  IF open = Zero THEN perp.closeSlippageFactor ELSE perp.openSlippageFactor

\* What a trade does to the margin of a safe pool
KeepsMargin(e, M, beta) ==
  /\ M \in Decimals /\ Zero \prec M
  /\ \E N \in Decimals : M \preceq N /\ OnOrBelow(N, e, beta)

LEMMA KeepsSame ==
  ASSUME NEW e, NEW M \in Decimals, Zero \prec M, NEW beta, OnOrBelow(M, e, beta)
  PROVE  KeepsMargin(e, M, beta)
<1>1. PICK d \in Int : Linear(d) /\ M \in Fit(d)
  BY FitFour
<1>2. M \preceq M
  BY <1>1 DEF Linear
<1> QED
  BY <1>2 DEF KeepsMargin

LEMMA PartsKeep ==
  ASSUME NEW p, DecimalPool(p), NEW a \in Decimals, a # Zero, TradeRoots(p, a),
         NEW close, close = Closing(p.position, a),
         NEW open, open = Opening(p.position, a),
         NEW c0, c0 = Context(p), NEW c1, c1 = ClosePart(c0, close), c1.ok,
         NEW c2, c2 = OpenPart(c1, open), c2.ok,
         NEW beta, beta = BetaOf(close, p.perp),
         NEW gamma, gamma = LastBetaOf(open, p.perp),
         NEW M, M = computeAMMPoolMargin(c0, beta)
  PROVE  /\ Stepped(c0, c2, a)
         /\ Zero \prec a => Zero \prec c2.best
         /\ isAMMSafe(c0, beta) => KeepsMargin(c2, M, gamma)
<1>1. /\ DecimalContext(c0) /\ c0.ok /\ c0.perp = p.perp /\ c0.position = p.position
      /\ c0.best = Zero /\ c0.position \in Decimals /\ IsPerpetual(p.perp)
  BY ContextDecimal, ContextFields DEF DecimalPool, DecimalContext, IsContext
<1>2. PICK x, y : /\ x = p.perp.closeSlippageFactor /\ x \in Decimals
                  /\ y = p.perp.openSlippageFactor /\ y \in Decimals
  BY <1>1, PerpetualTypes
<1>3. /\ close \in Decimals /\ open \in Decimals /\ close \oplus open = a
      /\ Zero \prec a => /\ close = Zero \/ Zero \prec close
                         /\ open = Zero \/ Zero \prec open
      /\ a \prec Zero => /\ close = Zero \/ close \prec Zero
                         /\ open = Zero \/ open \prec Zero
      /\ close # Zero /\ Zero \prec a => c0.position \prec Zero
      /\ close # Zero /\ open # Zero => c0.position \oplus close = Zero
      /\ close # Zero \/ open # Zero
  BY <1>1, SplitAmount
<1>4. /\ close # Zero /\ isAMMSafe(c0, x) => RootExact(c0, x)
      /\ open # Zero => (isAMMSafe(c1, y) => RootExact(c1, y))
  BY <1>2 DEF TradeRoots
<1>5. Zero \prec a \/ a \prec Zero
  <2>1. PICK d \in Int : Linear(d) /\ a \in Fit(d)
    BY FitFour
  <2> QED
    BY <2>1 DEF Linear
<1>6. Zero \prec close => Zero \prec a
  <2>1. PICK d \in Int : Linear(d) /\ a \in Fit(d) /\ close \in Fit(d)
    BY <1>3, FitFour
  <2> QED
    BY <1>3, <1>5, <2>1 DEF Linear
<1>7. Zero \prec open => Zero \prec a
  <2>1. PICK d \in Int : Linear(d) /\ a \in Fit(d) /\ open \in Fit(d)
    BY <1>3, FitFour
  <2> QED
    BY <1>3, <1>5, <2>1 DEF Linear
<1>8. CASE close = Zero
  <2>1. c1 = c0 /\ open = a /\ open # Zero
    BY <1>3, <1>8, SumZero DEF ClosePart
  <2>2. c2 = computeAMMInternalOpen(c0, a)
    BY <1>1, <2>1 DEF OpenPart
  <2>3. beta = y /\ gamma = y
    BY <1>2, <1>8, <2>1 DEF BetaOf, LastBetaOf
  <2>4. /\ Stepped(c0, c2, a) /\ (Zero \prec a => Zero \prec c2.best)
        /\ RootExact(c0, y) /\ Zero \prec M /\ OnOrBelow(M, c2, y)
    BY <1>1, <1>2, <1>4, <2>1, <2>2, <2>3, OpenKeeps
  <2>5. M \in Decimals
    BY <1>1, <1>2, <2>3, <2>4, PoolMarginOnCurve
  <2>6. KeepsMargin(c2, M, gamma)
    BY <2>3, <2>4, <2>5, KeepsSame
  <2> QED
    BY <2>4, <2>6
<1>9. CASE close # Zero
  <2>1. c1 = computeAMMInternalClose(c0, close)
    BY <1>1, <1>9 DEF ClosePart
  <2>2. beta = x /\ c0.perp.closeSlippageFactor = x
    BY <1>1, <1>2, <1>9 DEF BetaOf
  <2>3. Zero \prec close => c0.position \prec Zero
    BY <1>3, <1>6, <1>9
  <2>4. isAMMSafe(c0, x) => RootExact(c0, x)
    BY <1>4, <1>9
  <2>5. /\ Stepped(c0, c1, close) /\ (Zero \prec close => Zero \prec c1.best)
        /\ isAMMSafe(c0, x) => Zero \prec M /\ OnOrBelow(M, c1, x)
    BY <1>1, <1>3, <2>1, <2>2, <2>3, <2>4, CloseKeeps
  <2>6. isAMMSafe(c0, x) => M \in Decimals
    BY <1>1, <1>2, <2>2, <2>4, PoolMarginOnCurve
  <2>7. CASE open = Zero
    <3>1. c2 = c1 /\ close = a
      BY <1>3, <2>7, SumZero DEF OpenPart
    <3>2. gamma = x
      BY <1>2, <2>7 DEF LastBetaOf
    <3>3. isAMMSafe(c0, x) => KeepsMargin(c2, M, gamma)
      BY <2>5, <2>6, <3>1, <3>2, KeepsSame
    <3> QED
      BY <2>2, <2>5, <3>1, <3>3
  <2>8. CASE open # Zero
    <3>1. c2 = computeAMMInternalOpen(c1, open)
      BY <2>8 DEF OpenPart
    <3>2. DecimalContext(c1) /\ c1.perp = p.perp /\ c1.position = Zero
      BY <1>1, <1>3, <1>9, <2>5, <2>8 DEF Stepped, SamePool
    <3>3. (Zero \prec close /\ Zero \prec open) \/ (close \prec Zero /\ open \prec Zero)
      BY <1>3, <1>5, <1>9, <2>8
    <3>4. Zero \prec open => c1.best = Zero \/ Zero \prec c1.best
      BY <1>3, <1>7, <1>9, <2>5
    <3>5. PICK N : N = computeAMMPoolMargin(c1, y)
      OBVIOUS
    <3>6. c1.perp.openSlippageFactor = y
      BY <1>2, <3>2
    <3>7. isAMMSafe(c1, y) => RootExact(c1, y)
      BY <1>4, <2>8
    <3>8. /\ Stepped(c1, c2, open) /\ (Zero \prec open => Zero \prec c2.best)
          /\ RootExact(c1, y) /\ Zero \prec N /\ OnOrBelow(N, c2, y)
      BY <1>3, <3>1, <3>2, <3>4, <3>5, <3>6, <3>7, OpenKeeps
    <3>9. Stepped(c0, c2, a)
      BY <1>1, <1>3, <2>5, <3>3, <3>8, StepsCompose
    <3>10. Zero \prec a => Zero \prec c2.best
      BY <1>3, <2>8, <3>8
    <3>11. gamma = y
      BY <1>2, <2>8 DEF LastBetaOf
    <3>12. N \in Decimals /\ \A z \in Decimals : OnOrBelow(z, c1, y) => z \preceq N
      BY <1>2, <3>2, <3>5, <3>8, PoolMarginOnCurve
    <3>13. ASSUME isAMMSafe(c0, x) PROVE KeepsMargin(c2, M, gamma)
      <4>1. M \in Decimals /\ Zero \prec M /\ OnOrBelow(M, c1, x)
        BY <2>5, <2>6, <3>13
      <4>2. OnOrBelow(M, c1, y)
        BY <1>2, <3>2, <4>1, AtZero
      <4>3. M \preceq N
        BY <3>12, <4>1, <4>2
      <4> QED
        BY <3>8, <3>11, <3>12, <4>1, <4>3 DEF KeepsMargin
    <3> QED
      BY <2>2, <3>9, <3>10, <3>13
  <2> QED
    BY <2>7, <2>8
<1> QED
  BY <1>8, <1>9

\* More cash leaves the margin below the curve's zero.
LEMMA MoreCash ==
  ASSUME NEW c, DecimalContext(c), NEW x, SamePool(c, x), x.position = c.position,
         x.cash \in Decimals, c.cash \preceq x.cash,
         NEW beta \in Decimals, NEW N \in Decimals, Zero \prec N, OnOrBelow(N, c, beta)
  PROVE  OnOrBelow(N, x, beta)
<1>1. ValueWithCurrent(x) = ValueWithCurrent(c)
        /\ SquareValueWithCurrent(x, beta) = SquareValueWithCurrent(c, beta)
  BY DEF ValueWithCurrent, SquareValueWithCurrent, SamePool
<1>2. PICK v, S : /\ v = ValueWithCurrent(c) /\ v \in Decimals
                  /\ S = Neg(SquareValueWithCurrent(c, beta)) /\ S \in Decimals
  BY ContextSums, NegType
<1>3. PICK a, b : a = c.cash /\ a \in Decimals /\ b = x.cash /\ b \in Decimals /\ a \preceq b
  BY DEF DecimalContext
<1>4. PICK t : t = Two \otimes N /\ t \in Decimals /\ Zero \preceq t
  <2>1. Two \otimes N = N \oplus N
    BY ProductOne
  <2>2. PICK d \in Int : Linear(d) /\ N \in Fit(d)
    BY FitFour
  <2> QED
    BY <2>1, <2>2 DEF Linear
<1> DEFINE g == b \ominus a
           u == N \ominus (a \oplus v)
           w == N \ominus (b \oplus v)
           y == t \otimes u
           z == t \otimes g
<1>5. /\ g \in Decimals /\ u \in Decimals /\ w \in Decimals
      /\ Zero \preceq g /\ w = u \ominus g
  <2>1. PICK d \in Int : Linear(d) /\ N \in Fit(d) /\ a \in Fit(d) /\ b \in Fit(d) /\ v \in Fit(d)
    BY <1>2, <1>3, FitFour
  <2>2. /\ g \in Fit(d) /\ Num(g, d) = Num(b, d) - Num(a, d)
        /\ Num(a, d) \in Int /\ Num(b, d) \in Int
    BY <2>1 DEF Linear
  <2>3. u \in Fit(d) /\ Num(u, d) = Num(N, d) - (Num(a, d) + Num(v, d))
    BY <2>1 DEF Linear
  <2>4. w \in Fit(d) /\ Num(w, d) = Num(N, d) - (Num(b, d) + Num(v, d))
    BY <2>1 DEF Linear
  <2> HIDE DEF g, u, w
  <2>5. w = u \ominus g
    BY <2>1, <2>2, <2>3, <2>4 DEF Linear
  <2> QED
    BY <1>3, <2>1, <2>2, <2>3, <2>4, <2>5 DEF Linear
<1>6. y \in Decimals /\ z \in Decimals /\ Zero \preceq z
  <2>1. t \otimes u \in Decimals /\ t \otimes g \in Decimals
    BY <1>4, <1>5, ProductType
  <2>2. Zero \preceq t \otimes g
    BY <1>4, <1>5, ProductSign
  <2> QED
    BY <2>1, <2>2
<1>7. t \otimes w = y \ominus z
  <2> HIDE DEF g, u, w
  <2> QED
    BY <1>4, <1>5, ProductDifference
<1>8. y \preceq S
  BY <1>2, <1>3, <1>4 DEF OnOrBelow
<1>9. y \ominus z \preceq S
  <2> HIDE DEF y, z
  <2>1. PICK d \in Int : Linear(d) /\ y \in Fit(d) /\ z \in Fit(d) /\ S \in Fit(d)
    BY <1>2, <1>6, FitFour
  <2> QED
    BY <1>6, <1>8, <2>1 DEF Linear
<1> QED
  BY <1>1, <1>2, <1>3, <1>4, <1>5, <1>7, <1>9 DEF OnOrBelow

\* What a trade asks for the amount: on the other side of it, and enough for
\* the margin of a pool that was safe.
LEMMA TradeKeepsMargin ==
  ASSUME NEW p, DecimalPool(p), NEW a \in Decimals, TradeRoots(p, a),
         NEW e, e = computeAMMInternalTrade(p, a), e.ok,
         NEW c, c = Context(p),
         NEW beta, beta = BetaOf(Closing(p.position, a), p.perp),
         NEW gamma, gamma = LastBetaOf(Opening(p.position, a), p.perp),
         NEW M, M = computeAMMPoolMargin(c, beta)
  PROVE  /\ initAMMTradingContext(p) = c
         /\ e.deltaPosition = a /\ a # Zero
         /\ e.deltaMargin \in Decimals
         /\ (Zero \prec e.deltaMargin /\ a \prec Zero) \/ (e.deltaMargin \prec Zero /\ Zero \prec a)
         /\ isAMMSafe(c, beta) =>
              \A x : /\ SamePool(c, x) /\ x.position = c.position \oplus a
                     /\ x.cash \in Decimals /\ c.cash \oplus e.deltaMargin \preceq x.cash
                     => KeepsMargin(x, M, gamma)
<1>1. PICK close, open : close = Closing(p.position, a) /\ open = Opening(p.position, a)
  OBVIOUS
<1>2. PICK c1 : c1 = ClosePart(c, close)
  OBVIOUS
<1>3. PICK c2 : c2 = OpenPart(c1, open)
  OBVIOUS
<1>4. /\ a # Zero /\ initAMMTradingContext(p) = c /\ c1.ok /\ c2.ok
      /\ e = [c2 EXCEPT !.deltaMargin = Larger(@, Neg(c2.best \otimes a))]
  BY <1>1, <1>2, <1>3, TradeParts
<1>5. /\ Stepped(c, c2, a) /\ (Zero \prec a => Zero \prec c2.best)
      /\ isAMMSafe(c, beta) => KeepsMargin(c2, M, gamma)
  BY <1>1, <1>2, <1>3, <1>4, PartsKeep
<1>6. e.deltaPosition = a
  BY TradesAmount DEF DecimalPool, PoolFields
<1>7. PICK d \in Decimals :
        /\ (Zero \prec d /\ a \prec Zero) \/ (d \prec Zero /\ Zero \prec a)
        /\ c2.deltaMargin = c.deltaMargin \oplus d
        /\ c2.cash = c.cash \oplus d
  BY <1>5 DEF Stepped
<1>8. c.deltaMargin = Zero /\ DecimalContext(c)
  BY ContextFields, ContextDecimal
<1>9. c2.deltaMargin = d
  BY <1>7, <1>8, SumZero
<1>10. DecimalContext(c2) /\ SamePool(c, c2) /\ c2.position = c.position \oplus a
  BY <1>5 DEF Stepped
<1>11. PICK b : b = c2.best /\ b \in Decimals
  BY <1>10 DEF DecimalContext
<1>12. PICK l : l = b \otimes a /\ l \in Decimals /\ (Zero \prec a => Zero \prec l)
  <2>1. b \otimes a \in Decimals
    BY <1>11, ProductType
  <2>2. Zero \prec a => Zero \prec b \otimes a
    BY <1>5, <1>11, ProductSign
  <2> QED
    BY <2>1, <2>2
<1>13. PICK D : D = e.deltaMargin
  OBVIOUS
<1>14. D = Larger(d, Neg(l))
  BY <1>4, <1>9, <1>10, <1>11, <1>12, <1>13 DEF DecimalContext, IsContext
<1>15. D \in Decimals /\ d \preceq D /\ (D = d \/ D = Neg(l))
  BY <1>12, <1>14, LargerCorrect, NegType
<1>16. (Zero \prec D /\ a \prec Zero) \/ (D \prec Zero /\ Zero \prec a)
  <2>1. PICK i \in Int : Linear(i) /\ d \in Fit(i) /\ D \in Fit(i) /\ l \in Fit(i)
    BY <1>12, <1>15, FitFour
  <2> QED
    BY <1>7, <1>12, <1>15, <2>1 DEF Linear
<1>17. ASSUME isAMMSafe(c, beta), NEW x,
              SamePool(c, x), x.position = c.position \oplus a,
              x.cash \in Decimals, c.cash \oplus D \preceq x.cash
       PROVE  KeepsMargin(x, M, gamma)
  <2>1. PICK N \in Decimals : M \preceq N /\ OnOrBelow(N, c2, gamma)
    BY <1>5, <1>17 DEF KeepsMargin
  <2>2. M \in Decimals /\ Zero \prec M
    BY <1>5, <1>17 DEF KeepsMargin
  <2>3. Zero \prec N
    <3>1. PICK i \in Int : Linear(i) /\ M \in Fit(i) /\ N \in Fit(i)
      BY <2>2, FitFour
    <3> QED
      BY <2>1, <2>2, <3>1 DEF Linear
  <2>4. gamma \in Decimals
    BY PerpetualTypes DEF LastBetaOf, DecimalPool
  <2>5. c2.cash \preceq x.cash
    <3>1. PICK g, h : g = c.cash /\ h = x.cash /\ g \in Decimals /\ h \in Decimals
      BY <1>8, <1>17 DEF DecimalContext
    <3>2. PICK i \in Int : Linear(i) /\ d \in Fit(i) /\ D \in Fit(i) /\ g \in Fit(i) /\ h \in Fit(i)
      BY <1>15, <3>1, FitFour
    <3> QED
      BY <1>7, <1>15, <1>17, <3>1, <3>2 DEF Linear
  <2>6. SamePool(c2, x) /\ x.position = c2.position
    BY <1>10, <1>17 DEF SamePool
  <2>7. OnOrBelow(N, x, gamma)
    BY <1>10, <1>17, <2>1, <2>3, <2>4, <2>5, <2>6, MoreCash
  <2> QED
    BY <2>1, <2>2, <2>7 DEF KeepsMargin
<1> QED
  BY <1>4, <1>6, <1>13, <1>15, <1>16, <1>17

\* The trading price times the amount is the margin again.
LEMMA PriceOfMargin ==
  ASSUME NEW a \in Decimals, a # Zero, NEW D \in Decimals,
         (Zero \prec D /\ a \prec Zero) \/ (D \prec Zero /\ Zero \prec a),
         NEW price, price = AbsOf(D \oslash a)
  PROVE  /\ price \in Decimals /\ Zero \preceq price
         /\ a \otimes price = Neg(D)
<1>1. PICK z : z = D \oslash a /\ z \in Decimals /\ z \otimes a = D
  BY QuotientCorrect
<1>2. a \otimes z = D
  BY <1>1, ProductCommutes
<1>3. z \prec Zero
  <2>1. CASE Zero \prec a
    <3>1. D \prec Zero
      <4>1. PICK i \in Int : Linear(i) /\ a \in Fit(i)
        BY FitFour
      <4> QED
        BY <2>1, <4>1 DEF Linear
    <3> QED
      BY <1>1, <1>2, <2>1, <3>1, ProductSign
  <2>2. CASE ~(Zero \prec a)
    <3>1. PICK b : b = Neg(a) /\ b \in Decimals /\ Zero \prec b /\ Neg(D) \prec Zero
      <4>1. PICK i \in Int : Linear(i) /\ a \in Fit(i) /\ D \in Fit(i)
        BY FitFour
      <4> QED
        BY <2>2, <4>1 DEF Linear
    <3>2. b \otimes z = Neg(D)
      BY <1>1, <1>2, <3>1, ProductNeg
    <3> QED
      BY <1>1, <3>1, <3>2, ProductSign
  <2> QED
    BY <2>1, <2>2
<1>4. price = Neg(z) /\ price \in Decimals
  BY <1>1, <1>3, AbsOfSign
<1>5. Zero \preceq price
  <2>1. PICK i \in Int : Linear(i) /\ z \in Fit(i)
    BY <1>1, FitFour
  <2> QED
    BY <1>3, <1>4, <2>1 DEF Linear
<1> QED
  BY <1>1, <1>2, <1>4, <1>5, ProductNeg

\* The cash the trade leaves: at least what the AMM asked, beside the fee.
LEMMA PoolAfterTrade ==
  ASSUME NEW p, DecimalPool(p), NEW a \in Decimals, a # Zero, NEW D \in Decimals,
         (Zero \prec D /\ a \prec Zero) \/ (D \prec Zero /\ Zero \prec a),
         NEW q, q.deltaAMMAmount = a, q.tradingPrice = AbsOf(D \oslash a),
         NEW position, NEW share \in Decimals, Zero \preceq share,
         NEW r, r = PoolAfter(p, q, position, share),
         NEW c, c = Context(p), NEW x, x = Context(r)
  PROVE  /\ DecimalPool(r) /\ DecimalContext(x) /\ SamePool(c, x)
         /\ x.position = c.position \oplus a
         /\ c.cash \oplus D \preceq x.cash
<1>1. PICK price : /\ price = q.tradingPrice /\ price \in Decimals /\ Zero \preceq price
                   /\ a \otimes price = Neg(D)
  BY PriceOfMargin
<1>2. PICK F, rate, n, A : /\ F = p.perp.unitAccumulativeFunding /\ F \in Decimals
                           /\ rate = p.perp.lpFeeRate /\ rate \in Decimals /\ Zero \preceq rate
                           /\ n = p.position /\ n \in Decimals
                           /\ A = p.cash /\ A \in Decimals
  BY PerpetualTypes DEF DecimalPool, PoolFields
<1>3. PICK fee : /\ fee = ((AbsOf(a) \otimes price) \otimes rate) \otimes share /\ fee \in Decimals
                 /\ Zero \preceq fee
  <2>1. PICK s : s = AbsOf(a) /\ s \in Decimals /\ Zero \preceq s
    <3>1. AbsOf(a) \in Decimals /\ Sign(AbsOf(a)) >= 0
      BY AbsOfSign
    <3>2. ~(AbsOf(a) \prec Zero)
      BY <3>1, SignOrder
    <3> QED
      BY <3>1, <3>2, ConstantsType, SumLaws
  <2>2. PICK t : t = s \otimes price /\ t \in Decimals /\ Zero \preceq t
    BY <1>1, <2>1, ProductType, ProductSign
  <2>3. PICK u : u = t \otimes rate /\ u \in Decimals /\ Zero \preceq u
    <3>1. t \otimes rate \in Decimals
      BY <1>2, <2>2, ProductType
    <3>2. Zero \preceq t \otimes rate
      BY <1>2, <2>2, ProductSign
    <3> QED
      BY <3>1, <3>2
  <2>4. u \otimes share \in Decimals
    BY <2>3, ProductType
  <2>5. Zero \preceq u \otimes share
    BY <2>3, ProductSign
  <2> QED
    BY <2>1, <2>2, <2>3, <2>4, <2>5
<1>4. PICK f, g : /\ f = F \otimes n /\ f \in Decimals
                  /\ g = F \otimes a /\ g \in Decimals
  BY <1>2, ProductType
<1>5. /\ DOMAIN r = {"perp", "position", "others", "cash", "openInterest"}
      /\ r.perp = p.perp /\ r.others = p.others /\ r.position = n \oplus a
      /\ r.cash = ((A \ominus Neg(D)) \oplus g) \oplus fee
  BY <1>1, <1>2, <1>3, <1>4 DEF PoolAfter, CashAfter, DecimalPool, PoolFields
<1>6. n \oplus a \in Decimals
  BY <1>2, SumType
<1>7. PICK d \in Int : /\ d > 0 /\ Linear(d) /\ A \in Fit(d) /\ D \in Fit(d)
                       /\ f \in Fit(d) /\ g \in Fit(d) /\ fee \in Fit(d)
  <2>1. PICK i \in Int : i > 0 /\ A \in Fit(i) /\ f \in Fit(i) /\ g \in Fit(i) /\ fee \in Fit(i)
    BY <1>2, <1>3, <1>4, FitFour
  <2>2. PICK j \in Int : j > 0 /\ D \in Fit(j) /\ \A y \in Fit(i) : y \in Fit(j)
    BY <2>1, FitMore
  <2> QED
    BY <2>1, <2>2, FitLinear
<1>8. r.cash \in Decimals
  BY <1>5, <1>7 DEF Linear
<1>9. DecimalPool(r)
  BY <1>5, <1>6, <1>8 DEF DecimalPool, PoolFields
<1>10. /\ DecimalContext(x)
       /\ x.cash = r.cash \ominus (r.perp.unitAccumulativeFunding \otimes r.position)
  BY <1>9, ContextDecimal
<1>11. F \otimes (n \oplus a) = f \oplus g
  BY <1>2, <1>4, ProductDistributes
<1>12. x.cash = (((A \ominus Neg(D)) \oplus g) \oplus fee) \ominus (f \oplus g)
  BY <1>2, <1>5, <1>10, <1>11
<1>13. c.cash = A \ominus f
  BY <1>2, <1>4, ContextDecimal
<1>14. c.cash \oplus D \preceq x.cash
  BY <1>3, <1>7, <1>12, <1>13 DEF Linear
<1>15. SamePool(c, x) /\ x.position = c.position \oplus a
  BY <1>2, <1>5 DEF Context, SamePool
<1> QED
  BY <1>9, <1>10, <1>14, <1>15

LEMMA MarginNotBelow ==
  ASSUME NEW x, DecimalContext(x), NEW gamma \in Decimals, Zero \prec gamma,
         NEW M, KeepsMargin(x, M, gamma)
  PROVE  UnlessEmergency(x) = x /\ ~PoolMarginBelow(x, gamma, M)
<1>1. M \in Decimals /\ Zero \prec M
  BY DEF KeepsMargin
<1>2. PICK N \in Decimals : M \preceq N /\ OnOrBelow(N, x, gamma)
  BY DEF KeepsMargin
<1>3. PICK m, S : /\ m = x.cash \oplus ValueWithCurrent(x) /\ m \in Decimals
                  /\ S = SquareValueWithCurrent(x, gamma) /\ S \in Decimals /\ Zero \preceq S
  BY ContextSums
<1>4. (Two \otimes N) \otimes (N \ominus m) \preceq Neg(S)
  BY <1>2, <1>3 DEF OnOrBelow
<1>5. ASSUME m \prec Zero PROVE FALSE
  <2>1. PICK d \in Int : Linear(d) /\ M \in Fit(d) /\ N \in Fit(d) /\ m \in Fit(d)
    BY <1>1, <1>3, FitFour
  <2>2. Two \otimes N = N \oplus N
    BY ProductOne
  <2>3. PICK t : t = Two \otimes N /\ t \in Decimals /\ Zero \prec t
    BY <1>1, <1>2, <2>1, <2>2 DEF Linear
  <2>4. PICK u : u = N \ominus m /\ u \in Decimals /\ Zero \prec u
    BY <1>1, <1>2, <1>5, <2>1 DEF Linear
  <2>5. PICK v : v = t \otimes u /\ v \in Decimals /\ Zero \prec v
    <3>1. t \otimes u \in Decimals
      BY <2>3, <2>4, ProductType
    <3>2. Zero \prec t \otimes u
      BY <2>3, <2>4, ProductSign
    <3> QED
      BY <3>1, <3>2
  <2>6. v \preceq Neg(S)
    BY <1>4, <2>3, <2>4, <2>5
  <2>7. PICK i \in Int : Linear(i) /\ v \in Fit(i) /\ S \in Fit(i)
    BY <1>3, <2>5, FitFour
  <2> QED
    BY <1>3, <2>5, <2>6, <2>7 DEF Linear
<1>6. UnlessEmergency(x) = x
  BY <1>3, <1>5 DEF UnlessEmergency
<1>7. ASSUME PoolMarginBelow(x, gamma, M) PROVE FALSE
  <2>1. m \prec (Two \otimes M) /\ Neg(S) \prec ((Two \otimes M) \otimes (M \ominus m))
    BY <1>3, <1>7 DEF PoolMarginBelow
  <2>2. (Two \otimes M) \otimes (M \ominus m) \preceq Neg(S)
    BY <1>1, <1>2, <1>3, <1>4, <2>1, CurveRises
  <2>3. Two \otimes M \in Decimals /\ M \ominus m \in Decimals /\ Neg(S) \in Decimals
    BY <1>1, <1>3, ConstantsType, ProductType, SumType, NegType
  <2>4. (Two \otimes M) \otimes (M \ominus m) \in Decimals
    BY <2>3, ProductType
  <2> QED
    BY <2>1, <2>2, <2>3, <2>4, SumLaws
<1> QED
  BY <1>6, <1>7

MarginInv ==
  /\ DecimalPool(pool)
  /\ trades # <<>> => LET last == trades[Len(trades)]
                      IN DecimalPool(last.pool) /\ TradeRoots(last.pool, Neg(last.amount))

LEMMA MarginInit == Init => MarginInv
<1> SUFFICES ASSUME Init PROVE MarginInv
  OBVIOUS
<1>1. IsPool(pool) /\ trades = <<>>
  BY AMMAssumption DEF Init
<1>2. DecimalPool(pool)
  BY <1>1, IsDecimalType DEF DecimalPool, PoolFields, IsPool
<1> QED
  BY <1>1, <1>2 DEF MarginInv

\* A trade leaves a pool of decimals, with the margin it had.
LEMMA TradePool ==
  ASSUME NEW p, DecimalPool(p), NEW n \in Decimals, TradeRoots(p, Neg(n)),
         NEW q, q = ComputeAMMPrice(p, n), q.ok,
         NEW position, NEW share \in Decimals, Zero \preceq share,
         NEW r, r = PoolAfter(p, q, position, share),
         NEW before, before = initAMMTradingContext(p),
         NEW beta, beta = FirstBeta(p, n), NEW gamma, gamma = LastBeta(p, n)
  PROVE  /\ DecimalPool(r)
         /\ isAMMSafe(before, beta) =>
              ~PoolMarginBelow(initAMMTradingContext(r), gamma, computeAMMPoolMargin(before, beta))
<1>1. PICK a : a = Neg(n) /\ a \in Decimals
  BY NegType
<1>2. PICK e : e = computeAMMInternalTrade(p, a)
  OBVIOUS
<1>3. q = Quote(e) /\ e.ok
  BY <1>1, <1>2 DEF ComputeAMMPrice, Quote, NoContext
<1>4. PICK c : c = Context(p)
  OBVIOUS
<1>5. PICK M : M = computeAMMPoolMargin(c, beta)
  OBVIOUS
<1>6. beta = BetaOf(Closing(p.position, a), p.perp)
        /\ gamma = LastBetaOf(Opening(p.position, a), p.perp)
  BY <1>1 DEF FirstBeta, LastBeta, BetaOf, LastBetaOf
<1>7. /\ before = c
      /\ e.deltaPosition = a /\ a # Zero
      /\ e.deltaMargin \in Decimals
      /\ (Zero \prec e.deltaMargin /\ a \prec Zero) \/ (e.deltaMargin \prec Zero /\ Zero \prec a)
      /\ isAMMSafe(c, beta) =>
           \A x : /\ SamePool(c, x) /\ x.position = c.position \oplus a
                  /\ x.cash \in Decimals /\ c.cash \oplus e.deltaMargin \preceq x.cash
                  => KeepsMargin(x, M, gamma)
  BY <1>1, <1>2, <1>3, <1>4, <1>5, <1>6, TradeKeepsMargin
<1>8. PICK D : D = e.deltaMargin /\ D \in Decimals
  BY <1>7
<1>9. q.deltaAMMAmount = a /\ q.tradingPrice = AbsOf(D \oslash a)
  BY <1>3, <1>7, <1>8 DEF Quote
<1>10. PICK x : x = Context(r)
  OBVIOUS
<1>11. /\ DecimalPool(r) /\ DecimalContext(x) /\ SamePool(c, x)
       /\ x.position = c.position \oplus a
       /\ c.cash \oplus D \preceq x.cash
  BY <1>1, <1>4, <1>7, <1>8, <1>9, <1>10, PoolAfterTrade
<1>12. ASSUME isAMMSafe(before, beta) PROVE ~PoolMarginBelow(initAMMTradingContext(r), gamma, M)
  <2>1. KeepsMargin(x, M, gamma)
    BY <1>7, <1>8, <1>11, <1>12 DEF DecimalContext
  <2>2. gamma \in Decimals /\ Zero \prec gamma
    BY <1>6, PerpetualTypes DEF LastBetaOf, DecimalPool
  <2>3. UnlessEmergency(x) = x /\ ~PoolMarginBelow(x, gamma, M)
    BY <1>11, <2>1, <2>2, MarginNotBelow
  <2> QED
    BY <1>10, <2>3 DEF initAMMTradingContext
<1> QED
  BY <1>5, <1>7, <1>11, <1>12

LEMMA MarginNext ==
  TradesInv /\ MarginInv /\ OfferIsDecimal /\ RootsExact /\ [Next]_vars => MarginInv'
<1> SUFFICES ASSUME TradesInv, MarginInv, OfferIsDecimal, RootsExact, [Next]_vars
             PROVE  MarginInv'
  OBVIOUS
<1>1. CASE UNCHANGED <<pool, trades>>
  BY <1>1 DEF MarginInv
<1>2. ASSUME NEW n, GoesOn, n \in Parts(level.maxTradeAmount), ComputeAMMTrade(n)
      PROVE  MarginInv'
  <2>1. level.maxTradeAmount \in Decimals
    BY <1>2, IsDecimalType DEF OfferIsDecimal, GoesOn
  <2>2. n \in Decimals
    BY <1>2, <2>1, AMMAssumption, IsDecimalType DEF Parts
  <2>3. TradeRoots(pool, Neg(n)) /\ DecimalPool(pool)
    BY <1>2 DEF RootsExact, MarginInv
  <2>4. PICK q : q = ComputeAMMPrice(pool, n)
    OBVIOUS
  <2>5. q.ok /\ \E position, share : /\ share \in Decimals /\ Zero \preceq share
                                    /\ pool' = PoolAfter(pool, q, position, share)
    BY <1>2, <2>4, TradeDoes
  <2>6. PICK r : r.amount = n /\ r.pool = pool /\ trades' = Append(trades, r)
    BY <1>2, TradeDoes
  <2>7. PICK S : trades \in Seq(S)
    BY DEF TradesInv
  <2>8. trades'[Len(trades')] = r
    BY <2>6, <2>7, AppendLast
  <2>9. DecimalPool(pool')
    BY <2>2, <2>3, <2>4, <2>5, TradePool
  <2> QED
    BY <2>3, <2>6, <2>8, <2>9 DEF MarginInv
<1>3. CASE Next
  <2>1. CASE ~level.asked /\ \E isTraderBuy \in BOOLEAN :
               \E limitPrice \in LimitPrices(isTraderBuy) : matchOneSide(isTraderBuy, limitPrice)
    BY <1>1, <2>1 DEF matchOneSide
  <2>2. CASE GoesOn /\ \E n \in Parts(level.maxTradeAmount) : ComputeAMMTrade(n)
    BY <1>2, <2>2
  <2> QED
    BY <1>3, <2>1, <2>2 DEF Next
<1>4. CASE UNCHANGED vars
  BY <1>1, <1>4 DEF vars
<1> QED
  BY <1>3, <1>4

LEMMA MarginFollows == TradesInv /\ MarginInv => PoolMarginKept
<1> SUFFICES ASSUME TradesInv, MarginInv, trades # <<>> PROVE PoolMarginKept
  BY DEF PoolMarginKept
<1>1. PICK last : last = trades[Len(trades)]
  OBVIOUS
<1>2. PICK q : q = ComputeAMMPrice(last.pool, last.amount)
  OBVIOUS
<1>3. /\ last.amount \in Decimals /\ q.ok
      /\ \E position, share : /\ share \in Decimals /\ Zero \preceq share
                             /\ pool = PoolAfter(last.pool, q, position, share)
  BY <1>1, <1>2 DEF TradesInv, LastTrade
<1>4. DecimalPool(last.pool) /\ TradeRoots(last.pool, Neg(last.amount))
  BY <1>1 DEF MarginInv
<1>5. PICK before : before = initAMMTradingContext(last.pool)
  OBVIOUS
<1>6. PICK beta, gamma : beta = FirstBeta(last.pool, last.amount)
                           /\ gamma = LastBeta(last.pool, last.amount)
  OBVIOUS
<1>7. isAMMSafe(before, beta) =>
        ~PoolMarginBelow(initAMMTradingContext(pool), gamma, computeAMMPoolMargin(before, beta))
  BY <1>2, <1>3, <1>4, <1>5, <1>6, TradePool
<1> QED
  BY <1>1, <1>5, <1>6, <1>7 DEF PoolMarginKept

\* No trade takes from the margin of the liquidity providers of a safe pool,
\* for every pool, slippage factor, spread and fee, whether ComputeAMMTrade
\* closes, opens or goes through zero, when the roots are exact.
THEOREM PoolMarginNeverFalls ==
  Spec /\ []OfferIsDecimal /\ []RootsExact => []PoolMarginKept
BY MarginFollows, MarginInit, MarginNext, TradesInit, TradesNext, PTL DEF Spec
=============================================================================
