------------------------- MODULE KeyShardingProofs -------------------------
(***************************************************************************)
(* Interpolation: for every prime, every threshold and every key, any      *)
(* quorum of the shares gives back the key that was split, and anything    *)
(* less raises.                                                            *)
(*                                                                         *)
(* The weights of Combine are products of ratios x / (x - y) modulo the    *)
(* prime.  Two identities of three such ratios give by induction on the    *)
(* number of points that the weights come to one; then, by induction on    *)
(* the degree, dividing a polynomial by x minus the last point, that the   *)
(* weighted values come to its last coefficient.  The rest ties this to    *)
(* the folds Evaluate and Combine are written with.                        *)
(***************************************************************************)
EXTENDS KeySharding, SumProofs, SequenceTheorems

-----------------------------------------------------------------------------
(* Arithmetic modulo Prime. *)
Same(a, b) == \E k \in Int : a = b + k * Prime

LEMMA PrimeTyped ==
    /\ Prime \in Nat /\ Prime >= 2
    /\ Total \in Nat /\ Total < Prime /\ Threshold \in Nat /\ 1 <= Threshold /\ Threshold <= Total
    /\ Element \subseteq Int /\ 0 \in Element /\ 1 \in Element
<1>1. Prime \in Nat /\ Threshold \in 1 .. Total /\ Total \in 1 .. (Prime - 1)
  BY KeyShardingAssumption DEF KeyShardingAssumption
<1>2. Total \in Nat /\ 1 <= Total /\ Total < Prime
  BY <1>1
<1> QED
  BY <1>1, <1>2 DEF Element

LEMMA SameEqual == ASSUME NEW a \in Int PROVE Same(a, a)
<1>1. a = a + 0 * Prime
  BY PrimeTyped
<1> QED
  BY <1>1 DEF Same

LEMMA SameTurns ==
    ASSUME NEW a \in Int, NEW b \in Int, Same(a, b)
    PROVE  Same(b, a)
<1>1. PICK k \in Int : a = b + k * Prime
  BY DEF Same
<1>2. k * Prime \in Int /\ (-k) * Prime = -(k * Prime) /\ -k \in Int
  BY PrimeTyped
<1>3. b = a + (-k) * Prime
  BY <1>1, <1>2
<1> QED
  BY <1>2, <1>3 DEF Same

LEMMA SameChains ==
    ASSUME NEW a \in Int, NEW b \in Int, NEW c \in Int, Same(a, b), Same(b, c)
    PROVE  Same(a, c)
<1>1. PICK k \in Int, l \in Int : a = b + k * Prime /\ b = c + l * Prime
  BY DEF Same
<1>2. k * Prime \in Int /\ l * Prime \in Int /\ (k + l) * Prime = k * Prime + l * Prime
  BY PrimeTyped
<1>3. a = c + (k + l) * Prime
  BY <1>1, <1>2
<1> QED
  BY <1>3 DEF Same

LEMMA SameSum ==
    ASSUME NEW a \in Int, NEW b \in Int, NEW c \in Int, NEW d \in Int, Same(a, b), Same(c, d)
    PROVE  Same(a + c, b + d) /\ Same(a - c, b - d)
<1>1. PICK k \in Int, l \in Int : a = b + k * Prime /\ c = d + l * Prime
  BY DEF Same
<1>2. /\ k * Prime \in Int /\ l * Prime \in Int
      /\ (k + l) * Prime = k * Prime + l * Prime /\ (k - l) * Prime = k * Prime - l * Prime
  BY PrimeTyped
<1>3. a + c = (b + d) + (k + l) * Prime /\ a - c = (b - d) + (k - l) * Prime
  BY <1>1, <1>2
<1>4. k + l \in Int /\ k - l \in Int
  OBVIOUS
<1> QED
  BY <1>3, <1>4 DEF Same

LEMMA SameProduct ==
    ASSUME NEW a \in Int, NEW b \in Int, NEW c \in Int, NEW d \in Int, Same(a, b), Same(c, d)
    PROVE  Same(a * c, b * d)
<1>1. PICK k \in Int, l \in Int : a = b + k * Prime /\ c = d + l * Prime
  BY DEF Same
<1>2. PICK p \in Int : p = Prime
  BY PrimeTyped
<1> DEFINE m == b * l + k * d + k * l * p
<1>3. (b + k * p) * (d + l * p) = b * d + m * p
  OBVIOUS
<1>4. m \in Int
  OBVIOUS
<1> QED
  BY <1>1, <1>2, <1>3, <1>4 DEF Same

LEMMA SameRest ==
    ASSUME NEW a \in Int
    PROVE  a % Prime \in Element /\ Same(a % Prime, a)
<1>1. PICK p \in Nat : p = Prime /\ p >= 2
  BY PrimeTyped
<1>2. a % p \in 0 .. (p - 1) /\ a = p * (a \div p) + (a % p) /\ a \div p \in Int
  BY <1>1
<1>3. PICK q \in Int, r \in Int : q = a \div p /\ r = a % p /\ a = p * q + r
  BY <1>2
<1>4. r = a + (-q) * p
  BY <1>3
<1>5. -q \in Int
  OBVIOUS
<1>6. a % Prime = r
  BY <1>1, <1>3
<1>7. Same(r, a)
  BY <1>1, <1>4, <1>5 DEF Same
<1>8. r \in Element
  BY <1>1, <1>2, <1>3 DEF Element
<1> QED
  BY <1>6, <1>7, <1>8

LEMMA SameElement ==
    ASSUME NEW a \in Element, NEW b \in Element, Same(a, b)
    PROVE  a = b
<1>1. PICK p \in Nat : p = Prime /\ p >= 2
  BY PrimeTyped
<1>2. PICK k \in Int : a = b + k * p
  BY <1>1 DEF Same
<1>3. a \in 0 .. (p - 1) /\ b \in 0 .. (p - 1)
  BY <1>1 DEF Element
<1>4. k >= 1 => k * p >= p
  BY <1>1
<1>5. k <= -1 => k * p <= -p
  BY <1>1
<1>6. k = 0
  BY <1>1, <1>2, <1>3, <1>4, <1>5
<1> QED
  BY <1>1, <1>2, <1>3, <1>6

(* A number that is not a multiple of the prime has an inverse: the least positive number
   congruent to one of its multiples divides the prime. *)
LEMMA InverseExists ==
    ASSUME NEW a \in Int, a \in 1 .. (Prime - 1)
    PROVE  InverseOf(a) \in Element /\ Same(a * InverseOf(a), 1)
<1>p. PICK p \in Nat : p = Prime /\ p >= 2
  BY PrimeTyped
<1> DEFINE D == {d \in 1 .. (p - 1) : \E b \in Int : Same(a * b, d)}
<1>1. a \in D
  <2>1. Same(a * 1, a) /\ 1 \in Int /\ a \in 1 .. (p - 1)
    BY <1>p, SameEqual
  <2> QED
    BY <2>1
<1>2. PICK d \in D : \A e \in D : d <= e
  <2>0. 1 .. (p - 1) \subseteq Nat /\ D \subseteq 1 .. (p - 1)
    OBVIOUS
  <2>1. D \in SUBSET Nat /\ D # {}
    <3>1. D # {}
      BY <1>1
    <3> HIDE DEF D
    <3> QED
      BY <2>0, <3>1
  <2> HIDE DEF D
  <2> QED
    BY <2>1, LeastNumber
<1>3. PICK b \in Int : Same(a * b, d)
  BY <1>2
<1>4. d \in 1 .. (p - 1)
  BY <1>2
<1>5. d = 1
  <2> SUFFICES ASSUME d # 1 PROVE FALSE
    OBVIOUS
  <2>1. d \in 2 .. (Prime - 1)
    BY <1>4, <1>p
  <2>2. p % d # 0
    BY <2>1, <1>p, KeyShardingAssumption DEF KeyShardingAssumption
  <2>3. PICK q \in Nat, r \in Nat : r = p % d /\ r < d /\ p = d * q + r
    <3>1. d \in Nat /\ d >= 1
      BY <2>1
    <3>2. p % d \in Nat /\ p % d < d /\ p \div d \in Nat /\ p = d * (p \div d) + (p % d)
      BY <3>1
    <3> QED
      BY <3>2
  <2>4. Same(a * (b * (-q)), r)
    <3>1. a * b \in Int /\ -q \in Int /\ d \in Int
      BY <1>4
    <3>2. Same((a * b) * (-q), d * (-q))
      BY <1>3, <3>1, SameEqual, SameProduct
    <3>3. (a * b) * (-q) = a * (b * (-q)) /\ a * (b * (-q)) \in Int /\ d * (-q) \in Int
      BY <3>1
    <3>4. Same(d * (-q), r)
      <4>1. d * (-q) = -(d * q) /\ d * q \in Int
        BY <3>1
      <4>2. d * (-q) = r + (-1) * p
        BY <2>3, <4>1
      <4>3. -1 \in Int
        OBVIOUS
      <4> QED
        BY <1>p, <4>2, <4>3 DEF Same
    <3>5. r \in Int
      OBVIOUS
    <3> QED
      BY <3>2, <3>3, <3>4, <3>5, SameChains
  <2>5. r \in 1 .. (p - 1) /\ b * (-q) \in Int
    BY <1>4, <2>2, <2>3
  <2>6. r \in D
    BY <2>4, <2>5
  <2> QED
    BY <1>2, <1>4, <2>3, <2>6
<1>6. \E c \in Element : (a * c) % Prime = 1
  <2>1. b % Prime \in Element /\ Same(b % Prime, b) /\ b % Prime \in Int
    BY SameRest, PrimeTyped
  <2>2. PICK c \in Element : c = b % Prime
    BY <2>1
  <2>3. c \in Int /\ a * c \in Int /\ a * b \in Int
    BY PrimeTyped
  <2>4. Same(a * c, a * b)
    BY <2>1, <2>2, <2>3, SameEqual, SameProduct
  <2>5. Same(a * c, 1)
    BY <1>3, <1>5, <2>3, <2>4, SameChains
  <2>6. (a * c) % Prime \in Element /\ Same((a * c) % Prime, a * c)
    BY <2>3, SameRest
  <2>7. (a * c) % Prime \in Int /\ 1 \in Element
    BY <2>6, PrimeTyped
  <2>8. Same((a * c) % Prime, 1)
    BY <2>3, <2>5, <2>6, <2>7, SameChains
  <2> QED
    BY <2>6, <2>7, <2>8, SameElement
<1>7. InverseOf(a) \in Element /\ (a * InverseOf(a)) % Prime = 1
  BY <1>6 DEF InverseOf
<1>8. InverseOf(a) \in Int /\ a * InverseOf(a) \in Int
  <2>1. PICK c \in Int : c = InverseOf(a)
    BY <1>7, PrimeTyped
  <2>2. a * c \in Int
    OBVIOUS
  <2> QED
    BY <2>1, <2>2
<1>9. Same((a * InverseOf(a)) % Prime, a * InverseOf(a))
  BY <1>8, SameRest
<1> QED
  BY <1>7, <1>8, <1>9, SameTurns

-----------------------------------------------------------------------------
(* Sums of the first elements of a sequence of numbers. *)
Plus(f) == [p \in Int \X Nat |-> p[1] + (IF f[p[2]] \in Int THEN f[p[2]] ELSE 0)]
Series(f) == CHOOSE g \in [Nat -> Int] : Obeys(g, 0, Plus(f))

LEMMA SeriesSteps ==
    ASSUME NEW f
    PROVE  /\ Series(f) \in [Nat -> Int] /\ Series(f)[0] = 0
           /\ \A k \in Nat : k # 0 /\ f[k] \in Int => Series(f)[k] = Series(f)[k - 1] + f[k]
<1>1. \A v \in Int : \A k \in Nat :
        Plus(f)[<<v, k>>] = v + (IF f[k] \in Int THEN f[k] ELSE 0)
  BY DEF Plus
<1>2. Closed(Int, Plus(f)) /\ 0 \in Int
  BY <1>1 DEF Closed
<1>3. \E g \in [Nat -> Int] : Obeys(g, 0, Plus(f))
  BY <1>2, NumberRecursion
<1>4. PICK g \in [Nat -> Int] : g = Series(f) /\ Obeys(g, 0, Plus(f))
  BY <1>3 DEF Series
<1>5. ASSUME NEW k \in Nat, k # 0, f[k] \in Int
      PROVE  g[k] = g[k - 1] + f[k]
  <2>1. k - 1 \in Nat /\ g[k - 1] \in Int /\ g[k] = Plus(f)[<<g[k - 1], k>>]
    BY <1>4, <1>5 DEF Obeys
  <2> QED
    BY <1>1, <1>5, <2>1
<1>6. g[0] = 0
  BY <1>4 DEF Obeys
<1> QED
  BY <1>4, <1>5, <1>6

(* The sum is linear. *)
LEMMA SeriesLinear ==
    ASSUME NEW n \in Nat, NEW f, NEW g, NEW h, NEW a \in Int, NEW b \in Int,
           \A k \in 1 .. n : /\ f[k] \in Int /\ g[k] \in Int /\ h[k] \in Int
                             /\ Same(h[k], a * f[k] + b * g[k])
    PROVE  Same(Series(h)[n], a * Series(f)[n] + b * Series(g)[n])
<1> DEFINE Good == {m \in Nat : m <= n =>
                        Same(Series(h)[m], a * Series(f)[m] + b * Series(g)[m])}
<1>1. Good \in SUBSET Nat
  OBVIOUS
<1>2. 0 \in Good
  <2>1. Series(h)[0] = 0 /\ Series(f)[0] = 0 /\ Series(g)[0] = 0
    BY SeriesSteps
  <2>2. a * 0 + b * 0 = 0
    OBVIOUS
  <2> QED
    BY <2>1, <2>2, SameEqual
<1>3. ASSUME NEW m \in Good PROVE m + 1 \in Good
  <2> SUFFICES ASSUME m + 1 <= n
               PROVE  Same(Series(h)[m + 1], a * Series(f)[m + 1] + b * Series(g)[m + 1])
    OBVIOUS
  <2>1. m + 1 \in 1 .. n /\ m + 1 \in Nat /\ m + 1 # 0 /\ (m + 1) - 1 = m /\ m <= n
    OBVIOUS
  <2>2. PICK x \in Int, y \in Int, z \in Int : x = f[m + 1] /\ y = g[m + 1] /\ z = h[m + 1]
    BY <2>1
  <2>3. PICK s \in Int, t \in Int, u \in Int :
            s = Series(f)[m] /\ t = Series(g)[m] /\ u = Series(h)[m]
    BY SeriesSteps
  <2>4. /\ Series(f)[m + 1] = s + x /\ Series(g)[m + 1] = t + y /\ Series(h)[m + 1] = u + z
    BY <2>1, <2>2, <2>3, SeriesSteps
  <2>5. Same(u, a * s + b * t)
    BY <1>3, <2>1, <2>3
  <2>6. Same(z, a * x + b * y)
    BY <2>1, <2>2
  <2>7. Same(u + z, (a * s + b * t) + (a * x + b * y))
    BY <2>5, <2>6, SameSum
  <2>8. (a * s + b * t) + (a * x + b * y) = a * (s + x) + b * (t + y)
    OBVIOUS
  <2> QED
    BY <2>4, <2>7, <2>8
<1>4. Good = Nat
  <2> HIDE DEF Good
  <2> QED
    BY <1>1, <1>2, <1>3, NumberInduction
<1> QED
  BY <1>4

-----------------------------------------------------------------------------
(* Horner's scheme, without the modulus. *)
Scheme(c, x) == [p \in Int \X Nat |-> x * p[1] + (IF c[p[2]] \in Int THEN c[p[2]] ELSE 0)]
Horner(c, x) == CHOOSE g \in [Nat -> Int] : Obeys(g, 0, Scheme(c, x))

LEMMA HornerSteps ==
    ASSUME NEW c, NEW x \in Int
    PROVE  /\ Horner(c, x) \in [Nat -> Int] /\ Horner(c, x)[0] = 0
           /\ \A k \in Nat : k # 0 /\ c[k] \in Int =>
                    Horner(c, x)[k] = x * Horner(c, x)[k - 1] + c[k]
<1>1. \A v \in Int : \A k \in Nat :
        Scheme(c, x)[<<v, k>>] = x * v + (IF c[k] \in Int THEN c[k] ELSE 0)
  BY DEF Scheme
<1>2. Closed(Int, Scheme(c, x)) /\ 0 \in Int
  BY <1>1 DEF Closed
<1>3. \E g \in [Nat -> Int] : Obeys(g, 0, Scheme(c, x))
  BY <1>2, NumberRecursion
<1>4. PICK g \in [Nat -> Int] : g = Horner(c, x) /\ Obeys(g, 0, Scheme(c, x))
  BY <1>3 DEF Horner
<1>5. ASSUME NEW k \in Nat, k # 0, c[k] \in Int
      PROVE  g[k] = x * g[k - 1] + c[k]
  <2>1. k - 1 \in Nat /\ g[k - 1] \in Int /\ g[k] = Scheme(c, x)[<<g[k - 1], k>>]
    BY <1>4, <1>5 DEF Obeys
  <2> QED
    BY <1>1, <1>5, <2>1
<1>6. g[0] = 0
  BY <1>4 DEF Obeys
<1> QED
  BY <1>4, <1>5, <1>6

(* Division by x - z: the quotient has the coefficients of the scheme at z. *)
LEMMA HornerDivides ==
    ASSUME NEW n \in Nat, NEW c, \A k \in 1 .. (n + 1) : c[k] \in Int,
           NEW x \in Int, NEW z \in Int
    PROVE  Horner(c, x)[n + 1] = Horner(c, z)[n + 1] + (x - z) * Horner(Horner(c, z), x)[n]
<1> DEFINE b == Horner(c, z)
           Good == {m \in Nat : m <= n =>
                        Horner(c, x)[m + 1] = b[m + 1] + (x - z) * Horner(b, x)[m]}
<1>b. /\ b \in [Nat -> Int] /\ b[0] = 0
      /\ \A k \in 1 .. (n + 1) : b[k] = z * b[k - 1] + c[k]
  BY HornerSteps
<1> HIDE DEF b
<1>1. Good \in SUBSET Nat
  OBVIOUS
<1>2. 0 \in Good
  <2>1. 0 + 1 = 1 /\ 1 \in 1 .. (n + 1) /\ 1 - 1 = 0
    OBVIOUS
  <2>2. Horner(c, x)[1] = x * 0 + c[1] /\ b[1] = z * 0 + c[1] /\ c[1] \in Int
    BY <1>b, <2>1, HornerSteps
  <2>3. Horner(b, x)[0] = 0
    BY HornerSteps
  <2>4. Horner(c, x)[1] = b[1] + (x - z) * 0
    BY <2>2
  <2> QED
    BY <2>1, <2>3, <2>4
<1>3. ASSUME NEW m \in Good PROVE m + 1 \in Good
  <2> SUFFICES ASSUME m + 1 <= n
               PROVE  Horner(c, x)[(m + 1) + 1]
                        = b[(m + 1) + 1] + (x - z) * Horner(b, x)[m + 1]
    OBVIOUS
  <2>1. /\ (m + 1) + 1 \in 1 .. (n + 1) /\ (m + 1) + 1 \in Nat /\ (m + 1) + 1 # 0
        /\ ((m + 1) + 1) - 1 = m + 1
        /\ m + 1 \in Nat /\ m + 1 # 0 /\ (m + 1) - 1 = m /\ m <= n
    OBVIOUS
  <2>2. PICK u \in Int, v \in Int, w \in Int :
            u = Horner(b, x)[m] /\ v = b[m + 1] /\ w = c[(m + 1) + 1]
    <3>1. Horner(b, x)[m] \in Int
      <4>1. Horner(b, x) \in [Nat -> Int]
        BY HornerSteps
      <4> QED
        BY <4>1
    <3>2. b[m + 1] \in Int /\ c[(m + 1) + 1] \in Int
      BY <1>b, <2>1
    <3> QED
      BY <3>1, <3>2
  <2>3. Horner(c, x)[m + 1] = v + (x - z) * u
    BY <1>3, <2>1, <2>2
  <2>4. Horner(c, x)[(m + 1) + 1] = x * (v + (x - z) * u) + w
    BY <2>1, <2>2, <2>3, HornerSteps
  <2>5. b[(m + 1) + 1] = z * v + w
    BY <1>b, <2>1, <2>2
  <2>6. Horner(b, x)[m + 1] = x * u + v
    BY <1>b, <2>1, <2>2, HornerSteps
  <2>7. x * (v + (x - z) * u) + w = (z * v + w) + (x - z) * (x * u + v)
    OBVIOUS
  <2> QED
    BY <2>4, <2>5, <2>6, <2>7
<1>4. Good = Nat
  <2> HIDE DEF Good
  <2> QED
    BY <1>1, <1>2, <1>3, NumberInduction
<1> QED
  BY <1>4 DEF b

(* The same of a polynomial with coefficients at every place. *)
Quotient(c, z) == Horner(c, z)

LEMMA PolynomialDivides ==
    ASSUME NEW c \in [Nat -> Int], NEW z \in Int, NEW x \in Int, NEW m \in Nat, m # 0
    PROVE  Horner(c, x)[m] = Quotient(c, z)[m] + (x - z) * Horner(Quotient(c, z), x)[m - 1]
<1>1. PICK n \in Nat : m = n + 1 /\ n = m - 1
  OBVIOUS
<1>2. \A k \in 1 .. (n + 1) : c[k] \in Int
  OBVIOUS
<1>3. Horner(c, x)[n + 1] = Horner(c, z)[n + 1] + (x - z) * Horner(Horner(c, z), x)[n]
  BY <1>2, HornerDivides
<1> QED
  BY <1>1, <1>3 DEF Quotient

-----------------------------------------------------------------------------
(* The factors of the weights. *)
Ratio(x, y) == x * InverseOf((x - y) % Prime)

(* What InverseOf is called with: the difference of two share numbers. *)
LEMMA Difference ==
    ASSUME NEW x \in 1 .. Total, NEW y \in 1 .. Total, x # y
    PROVE  \E q \in Int : /\ q = InverseOf((x - y) % Prime)
                          /\ \E k \in Int : (x - y) * q = 1 + k * Prime
<1>1. PICK p \in Nat : p = Prime /\ p >= 2 /\ Total < p /\ Total \in Nat
  BY PrimeTyped
<1>2. PICK r \in Element : r = (x - y) % Prime /\ Same(r, x - y) /\ r \in Int
  BY SameRest, PrimeTyped
<1>3. r # 0
  <2> SUFFICES ASSUME r = 0 PROVE FALSE
    OBVIOUS
  <2>1. PICK k \in Int : 0 = (x - y) + k * p
    BY <1>1, <1>2 DEF Same
  <2>2. x - y \in Int /\ x - y < p /\ x - y > -p /\ x - y # 0
    BY <1>1
  <2>3. k >= 1 => k * p >= p
    BY <1>1
  <2>4. k <= -1 => k * p <= -p
    BY <1>1
  <2>5. k = 0 => k * p = 0
    BY <1>1
  <2>6. k * p \in Int
    BY <1>1
  <2> QED
    BY <2>1, <2>2, <2>3, <2>4, <2>5, <2>6
<1>4. r \in 1 .. (Prime - 1)
  BY <1>1, <1>2, <1>3 DEF Element
<1>5. InverseOf(r) \in Element /\ Same(r * InverseOf(r), 1)
  BY <1>2, <1>4, InverseExists
<1>6. PICK q \in Int : q = InverseOf(r)
  BY <1>5, PrimeTyped
<1>7. Same((x - y) * q, 1)
  <2>1. PICK e \in Int : e = x - y
    OBVIOUS
  <2>2. PICK i \in Int : i = r
    BY <1>2
  <2>3. Same(e, i)
    BY <1>2, <2>1, <2>2, SameTurns
  <2>4. Same(q, q)
    BY SameEqual
  <2>5. Same(e * q, i * q) /\ e * q \in Int /\ i * q \in Int
    BY <2>3, <2>4, SameProduct
  <2>6. Same(i * q, 1)
    BY <1>5, <1>6, <2>2
  <2>7. Same(e * q, 1)
    BY <2>5, <2>6, SameChains
  <2> QED
    BY <2>1, <2>7
<1> QED
  BY <1>2, <1>6, <1>7 DEF Same

LEMMA RatioTyped ==
    ASSUME NEW x \in 1 .. Total, NEW y \in 1 .. Total, x # y
    PROVE  Ratio(x, y) \in Int
<1>1. PICK q \in Int : q = InverseOf((x - y) % Prime)
  BY Difference
<1> QED
  BY <1>1 DEF Ratio

LEMMA RatioSum ==
    ASSUME NEW x \in 1 .. Total, NEW y \in 1 .. Total, x # y
    PROVE  Same(Ratio(x, y) + Ratio(y, x), 1)
<1>p. PICK p \in Int : p = Prime
  BY PrimeTyped
<1>1. PICK q \in Int, k \in Int : q = InverseOf((x - y) % Prime) /\ (x - y) * q = 1 + k * p
  BY <1>p, Difference
<1>2. PICK r \in Int, l \in Int : r = InverseOf((y - x) % Prime) /\ (y - x) * r = 1 + l * p
  BY <1>p, Difference
<1> DEFINE m == k - y * l * q - y * r * k
<1>3. PICK s \in Int, t \in Int : s = x /\ t = y
  OBVIOUS
<1>4. r = -((1 + l * p) * q) - r * k * p
  <2>1. r = r * ((s - t) * q - k * p)
    BY <1>1, <1>3
  <2>2. r * ((s - t) * q - k * p) = -(((t - s) * r) * q) - r * k * p
    BY <1>3
  <2> QED
    BY <1>2, <1>3, <2>1, <2>2
<1>5. s * q + t * r = s * q + t * (-((1 + l * p) * q) - r * k * p)
  BY <1>4
<1>6. s * q + t * (-((1 + l * p) * q) - r * k * p) = (s - t) * q - (t * l * q + t * r * k) * p
  OBVIOUS
<1>7. (1 + k * p) - (t * l * q + t * r * k) * p = 1 + (k - (t * l * q + t * r * k)) * p
  OBVIOUS
<1>8. k - (t * l * q + t * r * k) \in Int
  OBVIOUS
<1>9. s * q + t * r = 1 + (k - (t * l * q + t * r * k)) * p
  BY <1>1, <1>3, <1>5, <1>6, <1>7
<1> QED
  BY <1>p, <1>1, <1>2, <1>3, <1>8, <1>9 DEF Ratio, Same

LEMMA RatioDifference ==
    ASSUME NEW x \in 1 .. Total, NEW y \in 1 .. Total, x # y
    PROVE  Same(Ratio(x, y) * (y - x), -x)
<1>p. PICK p \in Int : p = Prime
  BY PrimeTyped
<1>1. PICK q \in Int, k \in Int : q = InverseOf((x - y) % Prime) /\ (x - y) * q = 1 + k * p
  BY <1>p, Difference
<1>3. PICK s \in Int, t \in Int : s = x /\ t = y
  OBVIOUS
<1>4. (s * q) * (t - s) = -(s * ((s - t) * q))
  OBVIOUS
<1>5. -(s * (1 + k * p)) = -s + (-(s * k)) * p
  OBVIOUS
<1>6. (s * q) * (t - s) = -s + (-(s * k)) * p /\ -(s * k) \in Int
  BY <1>1, <1>3, <1>4, <1>5
<1> QED
  BY <1>p, <1>1, <1>3, <1>6 DEF Ratio, Same

(* x/(x-z) * y/(y-z) = y/(y-x) * x/(x-z) + x/(x-y) * y/(y-z) *)
LEMMA RatioProduct ==
    ASSUME NEW x \in 1 .. Total, NEW y \in 1 .. Total, NEW z \in 1 .. Total,
           x # y, x # z, y # z
    PROVE  Same(Ratio(x, z) * Ratio(y, z),
                Ratio(y, x) * Ratio(x, z) + Ratio(x, y) * Ratio(y, z))
<1>p. PICK p \in Int : p = Prime
  BY PrimeTyped
<1>1. PICK a \in Int, k \in Int : a = InverseOf((x - z) % Prime) /\ (x - z) * a = 1 + k * p
  <2>1. \E q \in Int : /\ q = InverseOf((x - z) % Prime)
                       /\ \E i \in Int : (x - z) * q = 1 + i * Prime
    BY Difference
  <2> QED
    BY <1>p, <2>1
<1>2. PICK b \in Int, l \in Int : b = InverseOf((y - z) % Prime) /\ (y - z) * b = 1 + l * p
  BY <1>p, Difference
<1>3. PICK d \in Int, m \in Int : d = InverseOf((y - x) % Prime) /\ (y - x) * d = 1 + m * p
  BY <1>p, Difference
<1>4. PICK e \in Int, n \in Int : e = InverseOf((x - y) % Prime) /\ (x - y) * e = 1 + n * p
  BY <1>p, Difference
<1>5. PICK s \in Int, t \in Int, u \in Int : s = x /\ t = y /\ u = z
  OBVIOUS
<1>6. PICK i \in Int : e = -d + i * p
  <2>1. e = e * ((t - s) * d - m * p)
    BY <1>3, <1>5
  <2>2. e * ((t - s) * d - m * p) = -(((s - t) * e) * d) - e * m * p
    OBVIOUS
  <2>3. -((1 + n * p) * d) - e * m * p = -d + (-(n * d) - e * m) * p
    OBVIOUS
  <2>4. e = -d + (-(n * d) - e * m) * p /\ -(n * d) - e * m \in Int
    BY <1>4, <1>5, <2>1, <2>2, <2>3
  <2> QED
    BY <2>4
<1>7. PICK j \in Int : d * a - d * b = a * b + j * p
  <2>1. d * a = (d * a) * ((t - u) * b - l * p)
    BY <1>2, <1>5
  <2>2. d * b = (d * b) * ((s - u) * a - k * p)
    BY <1>1, <1>5
  <2>3. (d * a) * ((t - u) * b - l * p) - (d * b) * ((s - u) * a - k * p)
            = ((t - s) * d) * (a * b) + (d * b * k - d * a * l) * p
    OBVIOUS
  <2>4. (1 + m * p) * (a * b) + (d * b * k - d * a * l) * p
            = a * b + (m * a * b + d * b * k - d * a * l) * p
    OBVIOUS
  <2>5. /\ d * a - d * b = a * b + (m * a * b + d * b * k - d * a * l) * p
        /\ m * a * b + d * b * k - d * a * l \in Int
    BY <1>3, <1>5, <2>1, <2>2, <2>3, <2>4
  <2> QED
    BY <2>5
<1>8. (t * d) * (s * a) + (s * e) * (t * b) = (s * t) * (d * a + e * b)
  OBVIOUS
<1>9. d * a + e * b = a * b + (j + i * b) * p
  <2>1. d * a + (-d + i * p) * b = (d * a - d * b) + (i * b) * p
    OBVIOUS
  <2>2. (a * b + j * p) + (i * b) * p = a * b + (j + i * b) * p
    OBVIOUS
  <2> QED
    BY <1>6, <1>7, <2>1, <2>2
<1>10. (s * t) * (a * b + (j + i * b) * p) = (s * a) * (t * b) + ((s * t) * (j + i * b)) * p
  OBVIOUS
<1>11. (s * t) * (j + i * b) \in Int
  OBVIOUS
<1>12. PICK f \in Int : f = (s * t) * (j + i * b)
  BY <1>11
<1>13. (t * d) * (s * a) + (s * e) * (t * b) = (s * a) * (t * b) + f * p
  BY <1>8, <1>9, <1>10, <1>12
<1>14. Same((t * d) * (s * a) + (s * e) * (t * b), (s * a) * (t * b))
  BY <1>p, <1>13 DEF Same
<1>15. (t * d) * (s * a) + (s * e) * (t * b) \in Int /\ (s * a) * (t * b) \in Int
  OBVIOUS
<1>16. Same((s * a) * (t * b), (t * d) * (s * a) + (s * e) * (t * b))
  BY <1>14, <1>15, SameTurns
<1> QED
  BY <1>1, <1>2, <1>3, <1>4, <1>5, <1>16 DEF Ratio

-----------------------------------------------------------------------------
(* Consequences for products and sums. *)
LEMMA SameFactor ==
    ASSUME NEW a \in Int, NEW b \in Int, NEW c \in Int, Same(a, b)
    PROVE  Same(c * a, c * b) /\ Same(a * c, b * c)
BY SameEqual, SameProduct

LEMMA SeriesScaled ==
    ASSUME NEW n \in Nat, NEW f, NEW h, NEW a \in Int,
           \A k \in 1 .. n : f[k] \in Int /\ h[k] \in Int /\ Same(h[k], a * f[k])
    PROVE  Same(Series(h)[n], a * Series(f)[n])
<1>1. ASSUME NEW k \in 1 .. n
      PROVE  f[k] \in Int /\ h[k] \in Int /\ Same(h[k], a * f[k] + 0 * f[k])
  <2>1. PICK x \in Int : x = f[k]
    OBVIOUS
  <2>2. a * x = a * x + 0 * x
    OBVIOUS
  <2> QED
    BY <2>1, <2>2
<1>2. Same(Series(h)[n], a * Series(f)[n] + 0 * Series(f)[n])
  <2>1. 0 \in Int
    OBVIOUS
  <2>2. \A k \in 1 .. n : f[k] \in Int /\ f[k] \in Int /\ h[k] \in Int
                            /\ Same(h[k], a * f[k] + 0 * f[k])
    BY <1>1
  <2> QED
    BY <2>1, <2>2, SeriesLinear
<1>3. PICK s \in Int : s = Series(f)[n]
  BY SeriesSteps
<1>4. a * s + 0 * s = a * s
  OBVIOUS
<1> QED
  BY <1>2, <1>3, <1>4

(* Weights: share numbers X[1], X[2], ..., each once, and for every j the product W[j] of
   the ratios of the others, as far as it has got. *)
Numbers(X, n) ==
    /\ \A i \in 1 .. n : X[i] \in 1 .. Total
    /\ \A i \in 1 .. n : \A j \in 1 .. n : i # j => X[i] # X[j]

Weighted(W, X, n) ==
    \A j \in 1 .. n :
        /\ \A m \in 0 .. n : W[j][m] \in Int
        /\ W[j][0] = 1
        /\ \A m \in 1 .. n :
            /\ m = j => W[j][m] = W[j][m - 1]
            /\ m # j => Same(W[j][m], W[j][m - 1] * Ratio(X[m], X[j]))

(* Weighted values, to be summed. *)
Terms(W, n, f) == [j \in Nat |-> W[j][n] * f[j]]
Ratios(X, i) == [j \in Nat |-> Ratio(X[i], X[j])]
Ones == [j \in Nat |-> 1]

LEMMA TermsTyped ==
    ASSUME NEW N \in Nat, NEW X, NEW W, Weighted(W, X, N), NEW n \in 0 .. N, NEW f,
           NEW j \in 1 .. N, f[j] \in Int
    PROVE  Terms(W, n, f)[j] = W[j][n] * f[j] /\ Terms(W, n, f)[j] \in Int
<1>1. PICK w \in Int, x \in Int : w = W[j][n] /\ x = f[j]
  BY DEF Weighted
<1>2. w * x \in Int /\ j \in Nat
  OBVIOUS
<1> QED
  BY <1>1, <1>2 DEF Terms

LEMMA RatiosTyped ==
    ASSUME NEW N \in Nat, NEW X, Numbers(X, N), NEW i \in 1 .. N, NEW j \in 1 .. N, i # j
    PROVE  Ratios(X, i)[j] = Ratio(X[i], X[j]) /\ Ratio(X[i], X[j]) \in Int
BY RatioTyped DEF Numbers, Ratios

(* The weight that the next number takes from a term. *)
LEMMA TermSplits ==
    ASSUME NEW w \in Int, NEW y \in Int, NEW u \in Int, NEW v \in Int,
           NEW a \in Int, NEW b \in Int,
           Same(y, w * u), Same(u * v, a * u + b * v)
    PROVE  Same(y * v, a * (w * u) + b * (w * v))
<1>1. /\ w * u \in Int /\ u * v \in Int /\ a * u + b * v \in Int
      /\ y * v \in Int /\ (w * u) * v \in Int /\ w * (u * v) \in Int
      /\ w * (a * u + b * v) \in Int
  OBVIOUS
<1>2. Same(y * v, (w * u) * v)
  BY <1>1, SameFactor
<1>3. Same(w * (u * v), w * (a * u + b * v))
  BY <1>1, SameFactor
<1>4. (w * u) * v = w * (u * v) /\ w * (a * u + b * v) = a * (w * u) + b * (w * v)
  OBVIOUS
<1>5. Same(y * v, w * (u * v)) /\ Same(w * (u * v), a * (w * u) + b * (w * v))
  BY <1>2, <1>3, <1>4
<1>6. a * (w * u) + b * (w * v) \in Int
  OBVIOUS
<1> QED
  BY <1>1, <1>5, <1>6, SameChains

(* What the weights of the first numbers and the weight of a later one come to. *)
LEMMA WeightsBalance ==
    ASSUME NEW N \in Nat, NEW X, Numbers(X, N), NEW W, Weighted(W, X, N)
    PROVE  \A n \in Nat : \A i \in 1 .. N :
                n < i => Same(Series(Terms(W, n, Ratios(X, i)))[n], 1 - W[i][n])
<1> DEFINE Good == {n \in Nat : \A i \in 1 .. N :
                        n < i => Same(Series(Terms(W, n, Ratios(X, i)))[n], 1 - W[i][n])}
<1>1. Good \in SUBSET Nat
  OBVIOUS
<1>2. 0 \in Good
  <2>1. ASSUME NEW i \in 1 .. N
        PROVE  Same(Series(Terms(W, 0, Ratios(X, i)))[0], 1 - W[i][0])
    <3>1. Series(Terms(W, 0, Ratios(X, i)))[0] = 0
      BY SeriesSteps
    <3>2. 1 - W[i][0] = 0
      BY DEF Weighted
    <3> QED
      BY <3>1, <3>2, SameEqual
  <2> QED
    BY <2>1
<1>3. ASSUME NEW n \in Good PROVE n + 1 \in Good
  <2> DEFINE m == n + 1
  <2> SUFFICES ASSUME NEW i \in 1 .. N, m < i
               PROVE  Same(Series(Terms(W, m, Ratios(X, i)))[m], 1 - W[i][m])
    OBVIOUS
  <2> DEFINE f == Terms(W, n, Ratios(X, m))
             g == Terms(W, n, Ratios(X, i))
             h == Terms(W, m, Ratios(X, i))
  <2>1. /\ n \in Nat /\ m \in 1 .. N /\ m \in Nat /\ m # 0 /\ m - 1 = n /\ i # m /\ n < i /\ n < m
        /\ n \in 0 .. N /\ m \in 0 .. N
    OBVIOUS
  <2>2. PICK a \in Int, b \in Int : a = Ratio(X[i], X[m]) /\ b = Ratio(X[m], X[i])
    BY <2>1, RatiosTyped
  <2>3. ASSUME NEW k \in 1 .. n
        PROVE  /\ f[k] \in Int /\ g[k] \in Int /\ h[k] \in Int
               /\ Same(h[k], a * f[k] + b * g[k])
    <3>1. k \in 1 .. N /\ k # m /\ k # i
      BY <2>1
    <3>2. PICK u \in Int, v \in Int : u = Ratio(X[m], X[k]) /\ v = Ratio(X[i], X[k])
      BY <2>1, <3>1, RatiosTyped
    <3>3. PICK w \in Int, y \in Int : w = W[k][n] /\ y = W[k][m]
      BY <2>1, <3>1 DEF Weighted
    <3>4. Ratios(X, m)[k] = u /\ Ratios(X, i)[k] = v
      BY <2>1, <3>1, <3>2, RatiosTyped
    <3>5. f[k] = w * u /\ g[k] = w * v /\ h[k] = y * v
      BY <2>1, <3>1, <3>3, <3>4, TermsTyped
    <3>6. Same(y, w * u)
      BY <2>1, <3>1, <3>2, <3>3 DEF Weighted
    <3>7. Same(u * v, a * u + b * v)
      <4>1. /\ X[m] \in 1 .. Total /\ X[i] \in 1 .. Total /\ X[k] \in 1 .. Total
            /\ X[m] # X[i] /\ X[m] # X[k] /\ X[i] # X[k]
        BY <2>1, <3>1 DEF Numbers
      <4> QED
        BY <2>2, <3>2, <4>1, RatioProduct
    <3>8. Same(y * v, a * (w * u) + b * (w * v))
      BY <3>6, <3>7, TermSplits
    <3>9. w * u \in Int /\ w * v \in Int /\ y * v \in Int
      OBVIOUS
    <3> QED
      BY <3>5, <3>8, <3>9
  <2>4. PICK p \in Int, q \in Int, r \in Int :
            p = Series(f)[n] /\ q = Series(g)[n] /\ r = Series(h)[n]
    <3>1. Series(f) \in [Nat -> Int] /\ Series(g) \in [Nat -> Int] /\ Series(h) \in [Nat -> Int]
      BY SeriesSteps
    <3> QED
      BY <2>1, <3>1
  <2>5. Same(r, a * p + b * q)
    <3> HIDE DEF f, g, h
    <3> QED
      BY <2>1, <2>3, <2>4, SeriesLinear
  <2>6. PICK s \in Int, t \in Int, z \in Int : s = W[m][n] /\ t = W[i][n] /\ z = W[i][m]
    BY <2>1 DEF Weighted
  <2>7. Same(p, 1 - s) /\ Same(q, 1 - t)
    BY <1>3, <2>1, <2>4, <2>6
  <2>8. h[m] = s * a
    <3>1. Ratios(X, i)[m] = a
      BY <2>1, <2>2, RatiosTyped
    <3>2. W[m][m] = s
      BY <2>1, <2>6 DEF Weighted
    <3> QED
      BY <2>1, <3>1, <3>2, TermsTyped
  <2>9. Series(h)[m] = r + s * a
    <3>1. s * a \in Int
      OBVIOUS
    <3>2. h[m] \in Int /\ m \in Nat /\ m # 0 /\ m - 1 = n
      BY <2>1, <2>8, <3>1
    <3> HIDE DEF f, g, h
    <3>3. Series(h)[m] = Series(h)[m - 1] + h[m]
      BY <3>2, SeriesSteps
    <3> QED
      BY <2>4, <2>8, <3>2, <3>3
  <2>10. Same(z, t * b)
    BY <2>1, <2>2, <2>6 DEF Weighted
  <2>11. Same(a + b, 1)
    <3>1. X[m] \in 1 .. Total /\ X[i] \in 1 .. Total /\ X[m] # X[i]
      BY <2>1 DEF Numbers
    <3> QED
      BY <2>2, <3>1, RatioSum
  <2>12. Same(r + s * a, 1 - z)
    <3>1. 1 - s \in Int /\ 1 - t \in Int
      OBVIOUS
    <3>2. Same(a * p, a * (1 - s)) /\ Same(b * q, b * (1 - t))
      BY <2>7, <3>1, SameFactor
    <3>3. a * p \in Int /\ b * q \in Int /\ a * (1 - s) \in Int /\ b * (1 - t) \in Int
      OBVIOUS
    <3>4. Same(a * p + b * q, a * (1 - s) + b * (1 - t))
      BY <3>2, <3>3, SameSum
    <3>5. a * p + b * q \in Int /\ a * (1 - s) + b * (1 - t) \in Int
      OBVIOUS
    <3>6. Same(r, a * (1 - s) + b * (1 - t))
      BY <2>5, <3>4, <3>5, SameChains
    <3>7. s * a \in Int /\ t * b \in Int /\ Same(s * a, s * a)
      BY SameEqual
    <3>8. Same(r + s * a, (a * (1 - s) + b * (1 - t)) + s * a)
      BY <3>5, <3>6, <3>7, SameSum
    <3>9. (a * (1 - s) + b * (1 - t)) + s * a = (a + b) - t * b
      OBVIOUS
    <3>10. Same(t * b, z)
      BY <2>10, <3>7, SameTurns
    <3>11. a + b \in Int
      OBVIOUS
    <3>12. Same((a + b) - t * b, 1 - z)
      BY <2>11, <3>7, <3>10, <3>11, SameSum
    <3>13. r + s * a \in Int /\ (a + b) - t * b \in Int /\ 1 - z \in Int
      BY <3>7, <3>11
    <3> QED
      BY <3>8, <3>9, <3>12, <3>13, SameChains
  <2> QED
    BY <2>6, <2>9, <2>12
<1>4. Good = Nat
  <2> HIDE DEF Good
  <2> QED
    BY <1>1, <1>2, <1>3, NumberInduction
<1> QED
  BY <1>4

(* The weights come to one. *)
LEMMA WeightsSum ==
    ASSUME NEW N \in Nat, NEW X, Numbers(X, N), NEW W, Weighted(W, X, N), NEW n \in 1 .. N
    PROVE  Same(Series(Terms(W, n, Ones))[n], 1)
<1> DEFINE m == n - 1
           f == Terms(W, m, Ratios(X, n))
           h == Terms(W, n, Ones)
<1>1. /\ m \in Nat /\ n \in Nat /\ n # 0 /\ m \in 0 .. N /\ n \in 0 .. N /\ m < n
  OBVIOUS
<1>2. \A k \in Nat : Ones[k] = 1
  BY DEF Ones
<1>3. ASSUME NEW k \in 1 .. m
      PROVE  f[k] \in Int /\ h[k] \in Int /\ Same(h[k], 1 * f[k])
  <2>1. k \in 1 .. N /\ k # n /\ k \in Nat
    BY <1>1
  <2>2. PICK u \in Int : u = Ratio(X[n], X[k]) /\ Ratios(X, n)[k] = u
    BY <2>1, RatiosTyped
  <2>3. PICK w \in Int, y \in Int : w = W[k][m] /\ y = W[k][n]
    BY <1>1, <2>1 DEF Weighted
  <2>4. f[k] = w * u /\ h[k] = y * 1
    BY <1>1, <1>2, <2>1, <2>2, <2>3, TermsTyped
  <2>5. Same(y, w * u)
    BY <1>1, <2>1, <2>2, <2>3 DEF Weighted
  <2>6. y * 1 = y /\ 1 * (w * u) = w * u /\ w * u \in Int
    OBVIOUS
  <2> QED
    BY <2>4, <2>5, <2>6
<1>4. PICK s \in Int : s = W[n][m] /\ s = W[n][n]
  BY <1>1 DEF Weighted
<1>5. h[n] = s /\ h[n] \in Int
  <2>1. h[n] = s * 1
    BY <1>1, <1>2, <1>4, TermsTyped
  <2> QED
    BY <2>1
<1>6. Same(Series(f)[m], 1 - s)
  BY <1>1, <1>4, WeightsBalance
<1> HIDE DEF f, h
<1>7. PICK p \in Int, r \in Int : p = Series(f)[m] /\ r = Series(h)[m]
  <2>1. Series(f) \in [Nat -> Int] /\ Series(h) \in [Nat -> Int]
    BY SeriesSteps
  <2> QED
    BY <1>1, <2>1
<1>8. Same(r, 1 * p)
  BY <1>1, <1>3, <1>7, SeriesScaled
<1>9. Same(r, 1 - s)
  <2>1. 1 * p = p /\ 1 - s \in Int
    OBVIOUS
  <2> QED
    BY <1>6, <1>7, <1>8, <2>1, SameChains
<1>10. Same(r + s, 1)
  <2>1. 1 - s \in Int /\ (1 - s) + s = 1 /\ Same(s, s)
    BY SameEqual
  <2>2. Same(r + s, (1 - s) + s)
    BY <1>9, <2>1, SameSum
  <2> QED
    BY <2>1, <2>2
<1>11. Series(h)[n] = r + s
  BY <1>1, <1>5, <1>7, SeriesSteps
<1> QED
  BY <1>10, <1>11 DEF h

(* The values of a polynomial at the numbers. *)
Values(c, X, d) == [j \in Nat |-> Horner(c, X[j])[d]]

LEMMA ValuesTyped ==
    ASSUME NEW N \in Nat, NEW X, Numbers(X, N), NEW j \in 1 .. N, NEW c, NEW d \in Nat
    PROVE  Values(c, X, d)[j] = Horner(c, X[j])[d] /\ Horner(c, X[j])[d] \in Int
<1>1. X[j] \in Int /\ j \in Nat
  BY DEF Numbers
<1>2. Horner(c, X[j]) \in [Nat -> Int]
  BY <1>1, HornerSteps
<1> QED
  BY <1>1, <1>2 DEF Values

(* The value of a polynomial at a number, in terms of its quotient by x - z. *)
LEMMA DividedValue ==
    ASSUME NEW N \in Nat, NEW X, Numbers(X, N), NEW c \in [Nat -> Int], NEW z \in Int,
           NEW m \in Nat, m # 0, NEW k \in 1 .. N
    PROVE  /\ X[k] \in Int /\ Horner(Quotient(c, z), X[k])[m - 1] \in Int
           /\ Values(Quotient(c, z), X, m - 1)[k] = Horner(Quotient(c, z), X[k])[m - 1]
           /\ Values(c, X, m)[k] =
                Quotient(c, z)[m] + (X[k] - z) * Horner(Quotient(c, z), X[k])[m - 1]
<1>1. X[k] \in Int /\ m - 1 \in Nat
  BY DEF Numbers
<1>2. Horner(c, X[k])[m] =
            Quotient(c, z)[m] + (X[k] - z) * Horner(Quotient(c, z), X[k])[m - 1]
  BY <1>1, PolynomialDivides
<1> QED
  BY <1>1, <1>2, ValuesTyped

(* The values of a polynomial at the numbers, weighted, come to its last coefficient as
   soon as there are as many numbers as coefficients. *)
Interpolates(W, X, N, d) ==
    \A c \in [Nat -> Int] : \A n \in 1 .. N :
        d < n => Same(Series(Terms(W, n, Values(c, X, d + 1)))[n], c[d + 1])

LEMMA WeightsInterpolate ==
    ASSUME NEW N \in Nat, NEW X, Numbers(X, N), NEW W, Weighted(W, X, N)
    PROVE  \A d \in Nat : \A c \in [Nat -> Int] : \A n \in 1 .. N :
                d < n => Same(Series(Terms(W, n, Values(c, X, d + 1)))[n], c[d + 1])
<1>o. \A k \in Nat : Ones[k] = 1
  BY DEF Ones
<1>2. Interpolates(W, X, N, 0)
  <2> SUFFICES ASSUME NEW c \in [Nat -> Int], NEW n \in 1 .. N
               PROVE  Same(Series(Terms(W, n, Values(c, X, 1)))[n], c[1])
    BY DEF Interpolates
  <2> DEFINE f == Terms(W, n, Ones)
             h == Terms(W, n, Values(c, X, 1))
  <2>1. PICK e \in Int : e = c[1]
    OBVIOUS
  <2>2. n \in 0 .. N /\ n \in Nat
    OBVIOUS
  <2>3. ASSUME NEW k \in 1 .. n
        PROVE  f[k] \in Int /\ h[k] \in Int /\ Same(h[k], e * f[k])
    <3>1. k \in 1 .. N /\ k \in Nat
      OBVIOUS
    <3>2. PICK w \in Int : w = W[k][n]
      BY <2>2, <3>1 DEF Weighted
    <3>3. f[k] = w * 1
      BY <1>o, <2>2, <3>1, <3>2, TermsTyped
    <3>4. Values(c, X, 1)[k] = e
      <4>1. PICK x \in Int : x = X[k]
        BY <3>1 DEF Numbers
      <4>2. 1 \in Nat /\ 1 # 0 /\ 1 - 1 = 0 /\ c[1] \in Int
        OBVIOUS
      <4>3. Horner(c, x)[0] = 0 /\ Horner(c, x)[1] = x * Horner(c, x)[1 - 1] + c[1]
        BY <4>2, HornerSteps
      <4>4. Horner(c, x)[1] = e
        BY <2>1, <4>2, <4>3
      <4> QED
        BY <3>1, <4>1, <4>2, <4>4, ValuesTyped
    <3>5. h[k] = w * e
      BY <2>2, <3>1, <3>2, <3>4, TermsTyped
    <3>6. w * e = e * (w * 1) /\ w * 1 \in Int /\ w * e \in Int /\ Same(w * e, w * e)
      BY SameEqual
    <3> QED
      BY <3>3, <3>5, <3>6
  <2>4. Same(Series(f)[n], 1)
    BY WeightsSum
  <2> HIDE DEF f, h
  <2>5. PICK p \in Int, r \in Int : p = Series(f)[n] /\ r = Series(h)[n]
    <3>1. Series(f) \in [Nat -> Int] /\ Series(h) \in [Nat -> Int]
      BY SeriesSteps
    <3> QED
      BY <2>2, <3>1
  <2>6. Same(r, e * p)
    BY <2>2, <2>3, <2>5, SeriesScaled
  <2>7. Same(e * p, e * 1) /\ e * 1 = e /\ e * p \in Int
    <3>1. Same(p, 1) /\ 1 \in Int
      BY <2>4, <2>5
    <3>2. Same(e * p, e * 1)
      BY <3>1, SameFactor
    <3> QED
      BY <3>2
  <2>8. Same(r, e)
    BY <2>6, <2>7, SameChains
  <2> QED
    BY <2>1, <2>5, <2>8 DEF h
<1>3. ASSUME NEW d \in Nat, Interpolates(W, X, N, d) PROVE Interpolates(W, X, N, d + 1)
  <2> SUFFICES ASSUME NEW c \in [Nat -> Int], NEW n \in 1 .. N, d + 1 < n
               PROVE  Same(Series(Terms(W, n, Values(c, X, (d + 1) + 1)))[n], c[(d + 1) + 1])
    BY DEF Interpolates
  <2>1. PICK m \in Nat : n = m + 1 /\ m \in 1 .. N /\ m \in 0 .. N /\ n \in 0 .. N /\ d < m
    <3>1. n - 1 \in Nat /\ n = (n - 1) + 1 /\ n - 1 \in 1 .. N /\ n - 1 \in 0 .. N
          /\ n \in 0 .. N /\ d < n - 1
      OBVIOUS
    <3> QED
      BY <3>1
  <2>2. PICK z \in Int : z = X[n]
    BY DEF Numbers
  <2>3. PICK b \in [Nat -> Int] : b = Quotient(c, z)
    BY HornerSteps DEF Quotient
  <2>4. PICK H \in Int, e \in Int, v \in Int :
            H = b[(d + 1) + 1] /\ e = c[(d + 1) + 1] /\ v = b[d + 1]
    OBVIOUS
  <2>5. H = z * v + e
    <3>1. (d + 1) + 1 \in Nat /\ (d + 1) + 1 # 0 /\ ((d + 1) + 1) - 1 = d + 1
          /\ c[(d + 1) + 1] \in Int
      OBVIOUS
    <3> QED
      BY <2>3, <2>4, <3>1, HornerSteps DEF Quotient
  <2> DEFINE f == Terms(W, n, Ones)
             g == Terms(W, m, Values(b, X, d + 1))
             h == Terms(W, n, Values(c, X, (d + 1) + 1))
  <2>6. ASSUME NEW k \in 1 .. N
        PROVE  \E x \in Int, y \in Int :
                  /\ x = X[k] /\ y = Horner(b, x)[d + 1]
                  /\ Values(b, X, d + 1)[k] = y
                  /\ Values(c, X, (d + 1) + 1)[k] = H + (x - z) * y
    <3>1. PICK j \in Nat : j # 0 /\ j = (d + 1) + 1 /\ j - 1 = d + 1
      OBVIOUS
    <3>2. /\ X[k] \in Int /\ Horner(Quotient(c, z), X[k])[j - 1] \in Int
          /\ Values(Quotient(c, z), X, j - 1)[k] = Horner(Quotient(c, z), X[k])[j - 1]
          /\ Values(c, X, j)[k] =
                Quotient(c, z)[j] + (X[k] - z) * Horner(Quotient(c, z), X[k])[j - 1]
      BY <3>1, DividedValue
    <3> QED
      BY <2>3, <2>4, <3>1, <3>2
  <2>7. ASSUME NEW k \in 1 .. m
        PROVE  /\ f[k] \in Int /\ g[k] \in Int /\ h[k] \in Int
               /\ Same(h[k], H * f[k] + (-z) * g[k])
    <3>1. k \in 1 .. N /\ k # n /\ k \in Nat
      BY <2>1
    <3>2. PICK x \in Int, y \in Int :
              /\ x = X[k]
              /\ Values(b, X, d + 1)[k] = y
              /\ Values(c, X, (d + 1) + 1)[k] = H + (x - z) * y
      BY <2>6, <3>1
    <3>3. PICK w \in Int, s \in Int : w = W[k][n] /\ s = W[k][m]
      BY <2>1, <3>1 DEF Weighted
    <3>4. PICK u \in Int : u = Ratio(z, x)
      BY <2>2, <3>1, <3>2, RatiosTyped
    <3>5. Same(w, s * u)
      <4>1. n \in 1 .. N /\ n # k /\ n - 1 = m
        BY <2>1, <3>1
      <4> QED
        BY <2>2, <3>1, <3>2, <3>3, <3>4, <4>1 DEF Weighted
    <3>6. Same(u * (x - z), -z)
      <4>1. z \in 1 .. Total /\ x \in 1 .. Total /\ z # x
        BY <2>2, <3>1, <3>2 DEF Numbers
      <4> QED
        BY <3>4, <4>1, RatioDifference
    <3>7. H + (x - z) * y \in Int
      OBVIOUS
    <3>8. f[k] = w * 1 /\ g[k] = s * y /\ h[k] = w * (H + (x - z) * y)
      <4>1. f[k] = w * 1
        <5>1. Ones[k] = 1 /\ Ones[k] \in Int
          BY <1>o, <3>1
        <5> QED
          BY <2>1, <3>1, <3>3, <5>1, TermsTyped
      <4>2. g[k] = s * y
        BY <2>1, <3>1, <3>2, <3>3, TermsTyped
      <4>3. h[k] = w * (H + (x - z) * y)
        BY <2>1, <3>1, <3>2, <3>3, <3>7, TermsTyped
      <4> QED
        BY <4>1, <4>2, <4>3
    <3>9. Same(w * (x - z), s * (-z))
      <4>1. PICK t \in Int : t = x - z
        OBVIOUS
      <4>2. s * u \in Int /\ w * t \in Int /\ (s * u) * t \in Int /\ u * t \in Int
            /\ s * (u * t) \in Int /\ -z \in Int
        OBVIOUS
      <4>3. Same(w * t, (s * u) * t)
        BY <3>5, <4>2, SameFactor
      <4>4. Same(s * (u * t), s * (-z))
        BY <3>6, <4>1, <4>2, SameFactor
      <4>5. (s * u) * t = s * (u * t) /\ s * (-z) \in Int
        OBVIOUS
      <4> QED
        BY <4>1, <4>2, <4>3, <4>4, <4>5, SameChains
    <3>10. Same(w * (H + (x - z) * y), H * (w * 1) + (-z) * (s * y))
      <4>1. PICK i \in Int, j \in Int : i = w * (x - z) /\ j = s * (-z)
        OBVIOUS
      <4>2. Same(i * y, j * y)
        BY <3>9, <4>1, SameFactor
      <4>3. H * w \in Int /\ i * y \in Int /\ j * y \in Int /\ Same(H * w, H * w)
        BY SameEqual
      <4>4. Same(H * w + i * y, H * w + j * y)
        BY <4>2, <4>3, SameSum
      <4>5. w * (H + (x - z) * y) = H * w + (w * (x - z)) * y
        OBVIOUS
      <4>6. H * (w * 1) + (-z) * (s * y) = H * w + (s * (-z)) * y
        OBVIOUS
      <4> QED
        BY <4>1, <4>4, <4>5, <4>6
    <3>11. w * 1 \in Int /\ s * y \in Int /\ w * (H + (x - z) * y) \in Int
      BY <3>7
    <3> QED
      BY <3>8, <3>10, <3>11
  <2>8. PICK s \in Int : s = W[n][n]
    BY <2>1 DEF Weighted
  <2>9. f[n] = s /\ h[n] = s * H
    <3>1. PICK x \in Int, y \in Int :
              x = X[n] /\ Values(c, X, (d + 1) + 1)[n] = H + (x - z) * y
      BY <2>6
    <3>2. H + (x - z) * y = H
      <4>1. x - z = 0
        BY <2>2, <3>1
      <4>2. 0 * y = 0
        OBVIOUS
      <4> QED
        BY <4>1, <4>2
    <3>3. f[n] = s * 1
      BY <1>o, <2>1, <2>8, TermsTyped
    <3>4. h[n] = s * H
      BY <2>1, <2>8, <3>1, <3>2, TermsTyped
    <3> QED
      BY <3>3, <3>4
  <2>10. Same(Series(f)[n], 1)
    BY WeightsSum
  <2>11. Same(Series(g)[m], v)
    BY <1>3, <2>1, <2>4 DEF Interpolates
  <2> HIDE DEF f, g, h
  <2>12. PICK p \in Int, q \in Int, r \in Int :
            p = Series(f)[m] /\ q = Series(g)[m] /\ r = Series(h)[m]
    <3>1. Series(f) \in [Nat -> Int] /\ Series(g) \in [Nat -> Int] /\ Series(h) \in [Nat -> Int]
      BY SeriesSteps
    <3> QED
      BY <2>1, <3>1
  <2>13. Same(r, H * p + (-z) * q)
    <3>1. -z \in Int
      OBVIOUS
    <3> QED
      BY <2>7, <2>12, <3>1, SeriesLinear
  <2>14. Series(f)[n] = p + s /\ Series(h)[n] = r + s * H
    <3>1. n \in Nat /\ n # 0 /\ n - 1 = m /\ s * H \in Int
      BY <2>1
    <3> QED
      BY <2>9, <2>12, <3>1, SeriesSteps
  <2>15. Same(r + s * H, e)
    <3>1. /\ H * p + (-z) * q \in Int /\ s * H \in Int /\ p + s \in Int /\ (-z) * q \in Int
          /\ (-z) * v \in Int /\ -z \in Int /\ H * (p + s) \in Int /\ H * 1 \in Int
      OBVIOUS
    <3>2. Same(r + s * H, (H * p + (-z) * q) + s * H)
      BY <2>13, <3>1, SameEqual, SameSum
    <3>3. (H * p + (-z) * q) + s * H = H * (p + s) + (-z) * q
      OBVIOUS
    <3>4. Same(H * (p + s), H * 1)
      <4>1. Same(p + s, 1) /\ 1 \in Int
        BY <2>10, <2>14
      <4> QED
        BY <3>1, <4>1, SameFactor
    <3>5. Same((-z) * q, (-z) * v)
      BY <2>11, <2>12, <3>1, SameFactor
    <3>6. Same(H * (p + s) + (-z) * q, H * 1 + (-z) * v)
      BY <3>1, <3>4, <3>5, SameSum
    <3>7. H * 1 + (-z) * v = e
      BY <2>5
    <3>8. r + s * H \in Int /\ H * (p + s) + (-z) * q \in Int
      BY <3>1
    <3> QED
      BY <3>2, <3>3, <3>6, <3>7, <3>8, SameChains
  <2> QED
    BY <2>4, <2>14, <2>15 DEF h
<1>4. \A d \in Nat : Interpolates(W, X, N, d)
  <2> DEFINE Good == {d \in Nat : Interpolates(W, X, N, d)}
  <2>1. Good \in SUBSET Nat /\ 0 \in Good /\ \A d \in Good : d + 1 \in Good
    BY <1>2, <1>3
  <2> HIDE DEF Good
  <2>2. Good = Nat
    BY <2>1, NumberInduction
  <2> QED
    BY <2>2 DEF Good
<1> QED
  BY <1>4 DEF Interpolates

-----------------------------------------------------------------------------
(* FoldLeft of the community modules is a recursive function over sets of indices, which
   takes the largest index out. *)
Folded(g, start, f, n) ==
    \A s \in SUBSET (1 .. n) :
        g[s] = IF s = {} THEN start ELSE f[<<g[s \ {Max(s)}], Max(s)>>]

LEMMA MaxLast ==
    ASSUME NEW k \in Nat, NEW s \in SUBSET (1 .. (k + 1)), k + 1 \in s
    PROVE  Max(s) = k + 1
<1>1. \A y \in s : k + 1 >= y
  OBVIOUS
<1>2. Max(s) \in s /\ \A y \in s : Max(s) >= y
  BY <1>1 DEF Max
<1>3. PICK m \in Nat : m = Max(s)
  <2>1. s \subseteq Nat
    OBVIOUS
  <2> QED
    BY <1>2, <2>1
<1>4. m >= k + 1 /\ k + 1 >= m
  BY <1>1, <1>2, <1>3
<1> QED
  BY <1>3, <1>4

LEMMA MaxTaken ==
    ASSUME NEW n \in Nat
    PROVE  \A s \in SUBSET (1 .. n) : s # {} => Max(s) \in s
<1> DEFINE Good == {k \in Nat : \A s \in SUBSET (1 .. k) : s # {} => Max(s) \in s}
<1>1. Good \in SUBSET Nat
  OBVIOUS
<1>2. 0 \in Good
  <2>1. 1 .. 0 = {}
    OBVIOUS
  <2> QED
    BY <2>1
<1>3. ASSUME NEW k \in Good PROVE k + 1 \in Good
  <2> SUFFICES ASSUME NEW s \in SUBSET (1 .. (k + 1)), s # {} PROVE Max(s) \in s
    OBVIOUS
  <2>1. CASE k + 1 \in s
    BY <2>1, MaxLast
  <2>2. CASE k + 1 \notin s
    <3>1. s \in SUBSET (1 .. k)
      BY <2>2
    <3> QED
      BY <1>3, <3>1
  <2> QED
    BY <2>1, <2>2
<1>4. Good = Nat
  <2> HIDE DEF Good
  <2> QED
    BY <1>1, <1>2, <1>3, NumberInduction
<1> QED
  BY <1>4

LEMMA MaxPrefix ==
    ASSUME NEW k \in Nat, k # 0
    PROVE  1 .. k # {} /\ Max(1 .. k) = k /\ (1 .. k) \ {k} = 1 .. (k - 1)
<1>1. k - 1 \in Nat /\ (k - 1) + 1 = k /\ k \in 1 .. k
  OBVIOUS
<1>2. Max(1 .. k) = k
  BY <1>1, MaxLast
<1>3. (1 .. k) \ {k} = 1 .. (k - 1)
  OBVIOUS
<1> QED
  BY <1>1, <1>2, <1>3

LEMMA FoldExists ==
    ASSUME NEW n \in Nat, NEW Val, NEW start \in Val, NEW f, Closed(Val, f)
    PROVE  \E g \in [SUBSET (1 .. n) -> Val] : Folded(g, start, f, n)
<1> DEFINE S(k) == SUBSET (1 .. k)
           Good == {k \in Nat : \E g \in [S(k) -> Val] : Folded(g, start, f, k)}
<1>1. Good \in SUBSET Nat
  OBVIOUS
<1>2. 0 \in Good
  <2> DEFINE g == [s \in S(0) |-> start]
  <2>1. g \in [S(0) -> Val] /\ \A s \in S(0) : s = {} /\ g[s] = start
    OBVIOUS
  <2>2. Folded(g, start, f, 0)
    BY <2>1 DEF Folded
  <2> QED
    BY <2>1, <2>2
<1>3. ASSUME NEW k \in Good PROVE k + 1 \in Good
  <2>1. PICK g \in [S(k) -> Val] : Folded(g, start, f, k)
    BY <1>3
  <2> DEFINE Value(s) == IF k + 1 \in s THEN f[<<g[s \ {k + 1}], k + 1>>] ELSE g[s]
             h == [s \in S(k + 1) |-> Value(s)]
  <2>2. ASSUME NEW s \in S(k + 1)
        PROVE  /\ k + 1 \notin s => s \in S(k)
               /\ s \ {k + 1} \in S(k)
    OBVIOUS
  <2>3. h \in [S(k + 1) -> Val]
    <3>1. ASSUME NEW s \in S(k + 1) PROVE Value(s) \in Val
      <4>1. CASE k + 1 \in s
        <5>1. g[s \ {k + 1}] \in Val /\ k + 1 \in Nat /\ k + 1 # 0
          BY <2>1, <2>2
        <5> QED
          BY <4>1, <5>1 DEF Closed
      <4>2. CASE k + 1 \notin s
        BY <2>1, <2>2, <4>2
      <4> QED
        BY <4>1, <4>2
    <3> QED
      BY <3>1
  <2>4. \A s \in S(k) : s \in S(k + 1) /\ k + 1 \notin s /\ h[s] = g[s]
    OBVIOUS
  <2>5. ASSUME NEW s \in S(k + 1)
        PROVE  h[s] = IF s = {} THEN start ELSE f[<<h[s \ {Max(s)}], Max(s)>>]
    <3>1. CASE k + 1 \in s
      <4>1. Max(s) = k + 1 /\ s # {}
        BY <3>1, MaxLast
      <4>2. h[s \ {k + 1}] = g[s \ {k + 1}]
        BY <2>2, <2>4
      <4> QED
        BY <3>1, <4>1, <4>2
    <3>2. CASE k + 1 \notin s
      <4>1. s \in S(k) /\ h[s] = g[s]
        BY <2>2, <2>4, <3>2
      <4>2. s \ {Max(s)} \in S(k)
        BY <4>1
      <4>3. h[s \ {Max(s)}] = g[s \ {Max(s)}]
        BY <2>4, <4>2
      <4>4. g[s] = IF s = {} THEN start ELSE f[<<g[s \ {Max(s)}], Max(s)>>]
        BY <2>1, <4>1 DEF Folded
      <4> QED
        BY <4>1, <4>3, <4>4
    <3> QED
      BY <3>1, <3>2
  <2>6. Folded(h, start, f, k + 1)
    <3> HIDE DEF h
    <3> QED
      BY <2>5 DEF Folded
  <2> HIDE DEF h
  <2>7. \E G \in [S(k + 1) -> Val] : Folded(G, start, f, k + 1)
    BY <2>3, <2>6
  <2> QED
    BY <2>7
<1>4. Good = Nat
  <2> HIDE DEF Good
  <2> QED
    BY <1>1, <1>2, <1>3, NumberInduction
<1> QED
  BY <1>4

(* What every step keeps, all of them do. *)
LEMMA StepsTyped ==
    ASSUME NEW n \in Nat, NEW Val, NEW e, e[0] \in Val,
           \A k \in 1 .. n : e[k - 1] \in Val => e[k] \in Val
    PROVE  \A k \in 0 .. n : e[k] \in Val
<1> DEFINE Good == {k \in Nat : k <= n => e[k] \in Val}
<1>1. Good \in SUBSET Nat /\ 0 \in Good
  OBVIOUS
<1>2. ASSUME NEW k \in Good PROVE k + 1 \in Good
  <2> SUFFICES ASSUME k + 1 <= n PROVE e[k + 1] \in Val
    OBVIOUS
  <2>1. k + 1 \in 1 .. n /\ (k + 1) - 1 = k /\ k <= n
    OBVIOUS
  <2> QED
    BY <2>1
<1>3. Good = Nat
  <2> HIDE DEF Good
  <2> QED
    BY <1>1, <1>2, NumberInduction
<1> QED
  BY <1>3

LEMMA EvaluateSteps ==
    ASSUME NEW n \in Nat, NEW c \in [1 .. n -> Int], NEW x \in Int
    PROVE  \E e : /\ e[0] = 0
                  /\ \A k \in 1 .. n : e[k] = (x * e[k - 1] + c[k]) % Prime
                  /\ \A k \in 0 .. n : e[k] \in Int
                  /\ Evaluate(c, x) = e[n]
<1> DEFINE Step(v, k) == (x * v + c[k]) % Prime
           Is(g) == g = [s \in SUBSET (1 .. n) |->
                            IF s = {} THEN 0 ELSE Step(g[s \ {Max(s)}], Max(s))]
           h == CHOOSE g : Is(g)
           f == [p \in Int \X Nat |-> IF p[2] \in 1 .. n THEN Step(p[1], p[2]) ELSE 0]
           e == [k \in 0 .. n |-> h[1 .. k]]
<1>1. Evaluate(c, x) = h[1 .. n]
  <2>1. DOMAIN c = 1 .. n
    OBVIOUS
  <2> QED
    BY <2>1 DEF Evaluate, FoldLeft, MapThenFoldSet
<1>2. \A v \in Int : \A k \in 1 .. n : Step(v, k) \in Int /\ f[<<v, k>>] = Step(v, k)
  <2> SUFFICES ASSUME NEW v \in Int, NEW k \in 1 .. n
               PROVE  Step(v, k) \in Int /\ f[<<v, k>>] = Step(v, k)
    OBVIOUS
  <2>1. x * v + c[k] \in Int
    <3>1. x * v \in Int /\ c[k] \in Int
      OBVIOUS
    <3> QED
      BY <3>1
  <2>2. Step(v, k) \in Int
    BY <2>1, SameRest, PrimeTyped
  <2> QED
    BY <2>2
<1>3. Closed(Int, f) /\ 0 \in Int
  <2>1. \A v \in Int : \A k \in Nat : k \notin 1 .. n => f[<<v, k>>] = 0
    OBVIOUS
  <2> HIDE DEF f, Step
  <2>2. ASSUME NEW v \in Int, NEW k \in Nat PROVE f[<<v, k>>] \in Int
    <3>1. CASE k \in 1 .. n
      BY <1>2, <3>1
    <3>2. CASE k \notin 1 .. n
      BY <2>1, <3>2
    <3> QED
      BY <3>1, <3>2
  <2> QED
    BY <2>2 DEF Closed
<1>4. PICK g \in [SUBSET (1 .. n) -> Int] : Folded(g, 0, f, n)
  <2> HIDE DEF f
  <2> QED
    BY <1>3, FoldExists
<1>5. Is(g)
  <2>1. ASSUME NEW s \in SUBSET (1 .. n)
        PROVE  g[s] = IF s = {} THEN 0 ELSE Step(g[s \ {Max(s)}], Max(s))
    <3>1. CASE s = {}
      BY <1>4, <3>1 DEF Folded
    <3>2. CASE s # {}
      <4>1. Max(s) \in 1 .. n
        BY <3>2, MaxTaken
      <4>2. g[s \ {Max(s)}] \in Int
        BY <1>4
      <4>3. g[s] = f[<<g[s \ {Max(s)}], Max(s)>>]
        BY <1>4, <3>2 DEF Folded
      <4> HIDE DEF f, Step
      <4> QED
        BY <1>2, <3>2, <4>1, <4>2, <4>3
    <3> QED
      BY <3>1, <3>2
  <2>2. g = [s \in SUBSET (1 .. n) |-> g[s]]
    OBVIOUS
  <2> HIDE DEF Step
  <2> QED
    BY <2>1, <2>2
<1>6. Is(h)
  <2> HIDE DEF Is
  <2> QED
    BY <1>5
<1>7. e[0] = 0
  <2>1. 1 .. 0 = {} /\ 1 .. 0 \in SUBSET (1 .. n) /\ 0 \in 0 .. n
    OBVIOUS
  <2>2. h[1 .. 0] = 0
    <3> HIDE DEF h, Step
    <3> QED
      BY <1>6, <2>1
  <2> HIDE DEF h
  <2> QED
    BY <2>1, <2>2
<1>8. ASSUME NEW k \in 1 .. n PROVE e[k] = Step(e[k - 1], k)
  <2>1. /\ 1 .. k \in SUBSET (1 .. n) /\ k \in 0 .. n /\ k - 1 \in 0 .. n
        /\ 1 .. k # {} /\ Max(1 .. k) = k /\ (1 .. k) \ {k} = 1 .. (k - 1)
    <3>1. k \in Nat /\ k # 0
      OBVIOUS
    <3>2. 1 .. k \in SUBSET (1 .. n) /\ k \in 0 .. n /\ k - 1 \in 0 .. n
      OBVIOUS
    <3> QED
      BY <3>1, <3>2, MaxPrefix
  <2>2. h[1 .. k] = Step(h[1 .. (k - 1)], k)
    <3> HIDE DEF h, Step
    <3> QED
      BY <1>6, <2>1
  <2> HIDE DEF h, Step
  <2> QED
    BY <2>1, <2>2
<1>9. \A k \in 0 .. n : e[k] \in Int
  <2> HIDE DEF e, f, Step
  <2>1. \A k \in 1 .. n : e[k - 1] \in Int => e[k] \in Int
    BY <1>2, <1>8
  <2>2. e[0] \in Int
    BY <1>7
  <2> QED
    BY <2>1, <2>2, StepsTyped
<1>10. Evaluate(c, x) = e[n]
  BY <1>1
<1> HIDE DEF e
<1> QED
  BY <1>7, <1>8, <1>9, <1>10

(* The two folds of Combine, over the indices of the points. *)
Indices(points) == [i \in DOMAIN points |-> i]

WeightOf(points, j) ==
    FoldLeft(
        LAMBDA acc, m : IF m = j THEN acc
            ELSE (acc * points[m][1] * InverseOf((points[m][1] - points[j][1]) % Prime)) % Prime,
        1, Indices(points))

LEMMA CombineFolds ==
    ASSUME NEW points
    PROVE  Combine(points) =
                FoldLeft(LAMBDA acc, j : (acc + points[j][2] * WeightOf(points, j)) % Prime,
                         0, Indices(points))
BY DEF Combine, WeightOf, Indices

Weights(e, points, n, j) ==
    /\ e[0] = 1
    /\ \A k \in 0 .. n : e[k] \in Int
    /\ \A k \in 1 .. n :
        /\ k = j => e[k] = e[k - 1]
        /\ k # j => Same(e[k], e[k - 1] * Ratio(points[k][1], points[j][1]))
    /\ WeightOf(points, j) = e[n]

LEMMA WeightSteps ==
    ASSUME NEW n \in Nat, NEW points, DOMAIN points = 1 .. n,
           Numbers([i \in 1 .. n |-> points[i][1]], n), NEW j \in 1 .. n
    PROVE  \E e : Weights(e, points, n, j)
<1> DEFINE q == Indices(points)
           Step(v, k) == IF k = j THEN v ELSE
                (v * points[k][1] * InverseOf((points[k][1] - points[j][1]) % Prime)) % Prime
           Is(g) == g = [s \in SUBSET (1 .. n) |->
                            IF s = {} THEN 1 ELSE Step(g[s \ {Max(s)}], q[Max(s)])]
           h == CHOOSE g : Is(g)
           f == [p \in Int \X Nat |-> IF p[2] \in 1 .. n THEN Step(p[1], p[2]) ELSE 0]
           e == [k \in 0 .. n |-> h[1 .. k]]
<1>1. WeightOf(points, j) = h[1 .. n]
  <2>1. DOMAIN q = 1 .. n
    BY DEF Indices
  <2> HIDE DEF q
  <2> QED
    BY <2>1 DEF WeightOf, FoldLeft, MapThenFoldSet, q
<1>2. \A v \in Int : \A k \in 1 .. n :
        /\ Step(v, k) \in Int /\ f[<<v, k>>] = Step(v, k)
        /\ k # j => Same(Step(v, k), v * Ratio(points[k][1], points[j][1]))
  <2> SUFFICES ASSUME NEW v \in Int, NEW k \in 1 .. n
               PROVE  /\ Step(v, k) \in Int /\ f[<<v, k>>] = Step(v, k)
                      /\ k # j => Same(Step(v, k), v * Ratio(points[k][1], points[j][1]))
    OBVIOUS
  <2>1. f[<<v, k>>] = Step(v, k)
    <3> HIDE DEF Step
    <3> QED
      OBVIOUS
  <2>2. CASE k = j
    BY <2>1, <2>2
  <2>3. CASE k # j
    <3>1. /\ points[k][1] \in 1 .. Total /\ points[j][1] \in 1 .. Total
          /\ points[k][1] # points[j][1]
      BY <2>3 DEF Numbers
    <3>2. PICK x \in Int, y \in Int, i \in Int :
              /\ x = points[k][1] /\ y = points[j][1] /\ i = InverseOf((x - y) % Prime)
      <4>1. PICK x \in 1 .. Total, y \in 1 .. Total : x = points[k][1] /\ y = points[j][1]
        BY <3>1
      <4>2. \E i \in Int : i = InverseOf((x - y) % Prime)
        BY <3>1, <4>1, Difference
      <4> HIDE DEF Step, f
      <4> QED
        BY <4>1, <4>2
    <3>3. Step(v, k) = (v * x * i) % Prime
      BY <2>3, <3>2
    <3>4. v * x * i \in Int /\ v * x * i = v * (x * i)
      OBVIOUS
    <3>5. (v * x * i) % Prime \in Int /\ Same((v * x * i) % Prime, v * x * i)
      BY <3>4, SameRest, PrimeTyped
    <3>6. Ratio(x, y) = x * i
      BY <3>2 DEF Ratio
    <3> HIDE DEF Step, f
    <3> QED
      BY <2>1, <3>2, <3>3, <3>4, <3>5, <3>6
  <2> QED
    BY <2>2, <2>3
<1>q. DOMAIN q = 1 .. n /\ \A k \in 1 .. n : q[k] = k
  BY DEF Indices
<1>3. Closed(Int, f) /\ 1 \in Int
  <2>1. \A v \in Int : \A k \in Nat : k \notin 1 .. n => f[<<v, k>>] = 0
    OBVIOUS
  <2> HIDE DEF f, Step
  <2>2. ASSUME NEW v \in Int, NEW k \in Nat PROVE f[<<v, k>>] \in Int
    <3>1. CASE k \in 1 .. n
      BY <1>2, <3>1
    <3>2. CASE k \notin 1 .. n
      BY <2>1, <3>2
    <3> QED
      BY <3>1, <3>2
  <2> QED
    BY <2>2 DEF Closed
<1>4. PICK g \in [SUBSET (1 .. n) -> Int] : Folded(g, 1, f, n)
  <2> HIDE DEF f
  <2> QED
    BY <1>3, FoldExists
<1>5. Is(g)
  <2>1. ASSUME NEW s \in SUBSET (1 .. n)
        PROVE  g[s] = IF s = {} THEN 1 ELSE Step(g[s \ {Max(s)}], q[Max(s)])
    <3>1. CASE s = {}
      BY <1>4, <3>1 DEF Folded
    <3>2. CASE s # {}
      <4>1. Max(s) \in 1 .. n /\ q[Max(s)] = Max(s)
        BY <1>q, <3>2, MaxTaken
      <4>2. g[s \ {Max(s)}] \in Int
        BY <1>4
      <4>3. g[s] = f[<<g[s \ {Max(s)}], Max(s)>>]
        BY <1>4, <3>2 DEF Folded
      <4> HIDE DEF f, q, Step
      <4> QED
        BY <1>2, <3>2, <4>1, <4>2, <4>3
    <3> QED
      BY <3>1, <3>2
  <2>2. g = [s \in SUBSET (1 .. n) |-> g[s]]
    OBVIOUS
  <2> HIDE DEF q, Step
  <2> QED
    BY <2>1, <2>2
<1>6. Is(h)
  <2> HIDE DEF Is
  <2> QED
    BY <1>5
<1>7. e[0] = 1
  <2>1. 1 .. 0 = {} /\ 1 .. 0 \in SUBSET (1 .. n) /\ 0 \in 0 .. n
    OBVIOUS
  <2>2. h[1 .. 0] = 1
    <3> HIDE DEF h, q, Step
    <3> QED
      BY <1>6, <2>1
  <2> HIDE DEF h
  <2> QED
    BY <2>1, <2>2
<1>8. ASSUME NEW k \in 1 .. n PROVE e[k] = Step(e[k - 1], k)
  <2>1. /\ 1 .. k \in SUBSET (1 .. n) /\ k \in 0 .. n /\ k - 1 \in 0 .. n
        /\ 1 .. k # {} /\ Max(1 .. k) = k /\ (1 .. k) \ {k} = 1 .. (k - 1)
    <3>1. k \in Nat /\ k # 0
      OBVIOUS
    <3>2. 1 .. k \in SUBSET (1 .. n) /\ k \in 0 .. n /\ k - 1 \in 0 .. n
      OBVIOUS
    <3> QED
      BY <3>1, <3>2, MaxPrefix
  <2>2. h[1 .. k] = Step(h[1 .. (k - 1)], q[k])
    <3> HIDE DEF h, q, Step
    <3> QED
      BY <1>6, <2>1
  <2> HIDE DEF h, q, Step
  <2> QED
    BY <1>q, <2>1, <2>2
<1>9. \A k \in 0 .. n : e[k] \in Int
  <2> HIDE DEF e, f, Step
  <2>1. \A k \in 1 .. n : e[k - 1] \in Int => e[k] \in Int
    BY <1>2, <1>8
  <2>2. e[0] \in Int
    BY <1>7
  <2> QED
    BY <2>1, <2>2, StepsTyped
<1>10. WeightOf(points, j) = e[n]
  <2>1. n \in 0 .. n
    OBVIOUS
  <2>2. e[n] = h[1 .. n]
    <3> HIDE DEF h, f, q, Step, Is
    <3> QED
      BY <2>1
  <2> HIDE DEF h, e, f, q, Step, Is
  <2> QED
    BY <1>1, <2>2
<1>11. \A k \in 1 .. n : k = j => Step(e[k - 1], k) = e[k - 1]
  OBVIOUS
<1>12. \A k \in 1 .. n : e[k - 1] \in Int
  <2> HIDE DEF e
  <2> QED
    BY <1>9
<1> HIDE DEF e, f, Step
<1> QED
  BY <1>2, <1>7, <1>8, <1>9, <1>10, <1>11, <1>12 DEF Weights

(* The values and the weights of the points. *)
Weighs(points, Y, V, n) ==
    /\ DOMAIN points = 1 .. n
    /\ \A j \in 1 .. n :
        Y[j] \in Int /\ points[j][2] = Y[j] /\ V[j] \in Int /\ WeightOf(points, j) = V[j]

LEMMA CombineSteps ==
    ASSUME NEW n \in Nat, NEW points, NEW Y, NEW V, Weighs(points, Y, V, n)
    PROVE  \E e : /\ e[0] = 0
                  /\ \A k \in 0 .. n : e[k] \in Int
                  /\ \A k \in 1 .. n : e[k] = (e[k - 1] + Y[k] * V[k]) % Prime
                  /\ Combine(points) = e[n]
<1> DEFINE q == Indices(points)
           Step(v, k) == (v + points[k][2] * WeightOf(points, k)) % Prime
           Is(g) == g = [s \in SUBSET (1 .. n) |->
                            IF s = {} THEN 0 ELSE Step(g[s \ {Max(s)}], q[Max(s)])]
           h == CHOOSE g : Is(g)
           f == [p \in Int \X Nat |-> IF p[2] \in 1 .. n THEN Step(p[1], p[2]) ELSE 0]
           e == [k \in 0 .. n |-> h[1 .. k]]
<1>1. Combine(points) = h[1 .. n]
  <2>1. DOMAIN q = 1 .. n
    BY DEF Indices, Weighs
  <2> HIDE DEF q
  <2> QED
    BY <2>1, CombineFolds DEF FoldLeft, MapThenFoldSet, q
<1>2. \A v \in Int : \A k \in 1 .. n :
        Step(v, k) \in Int /\ f[<<v, k>>] = Step(v, k)
  <2> SUFFICES ASSUME NEW v \in Int, NEW k \in 1 .. n
               PROVE  Step(v, k) \in Int /\ f[<<v, k>>] = Step(v, k)
    OBVIOUS
  <2>1. f[<<v, k>>] = Step(v, k)
    <3> HIDE DEF Step
    <3> QED
      OBVIOUS
  <2>2. PICK x \in Int, y \in Int : x = V[k] /\ y = Y[k]
    BY DEF Weighs
  <2>3. Step(v, k) = (v + y * x) % Prime
    BY <2>2 DEF Weighs
  <2>4. v + y * x \in Int
    OBVIOUS
  <2>5. (v + y * x) % Prime \in Int
    BY <2>4, SameRest, PrimeTyped
  <2> HIDE DEF Step, f
  <2> QED
    BY <2>1, <2>2, <2>3, <2>5
<1>q. DOMAIN q = 1 .. n /\ \A k \in 1 .. n : q[k] = k
  BY DEF Indices, Weighs
<1>3. Closed(Int, f) /\ 0 \in Int
  <2>1. \A v \in Int : \A k \in Nat : k \notin 1 .. n => f[<<v, k>>] = 0
    OBVIOUS
  <2> HIDE DEF f, Step
  <2>2. ASSUME NEW v \in Int, NEW k \in Nat PROVE f[<<v, k>>] \in Int
    <3>1. CASE k \in 1 .. n
      BY <1>2, <3>1
    <3>2. CASE k \notin 1 .. n
      BY <2>1, <3>2
    <3> QED
      BY <3>1, <3>2
  <2> QED
    BY <2>2 DEF Closed
<1>4. PICK g \in [SUBSET (1 .. n) -> Int] : Folded(g, 0, f, n)
  <2> HIDE DEF f
  <2> QED
    BY <1>3, FoldExists
<1>5. Is(g)
  <2>1. ASSUME NEW s \in SUBSET (1 .. n)
        PROVE  g[s] = IF s = {} THEN 0 ELSE Step(g[s \ {Max(s)}], q[Max(s)])
    <3>1. CASE s = {}
      BY <1>4, <3>1 DEF Folded
    <3>2. CASE s # {}
      <4>1. Max(s) \in 1 .. n /\ q[Max(s)] = Max(s)
        BY <1>q, <3>2, MaxTaken
      <4>2. g[s \ {Max(s)}] \in Int
        BY <1>4
      <4>3. g[s] = f[<<g[s \ {Max(s)}], Max(s)>>]
        BY <1>4, <3>2 DEF Folded
      <4> HIDE DEF f, q, Step
      <4> QED
        BY <1>2, <3>2, <4>1, <4>2, <4>3
    <3> QED
      BY <3>1, <3>2
  <2>2. g = [s \in SUBSET (1 .. n) |-> g[s]]
    OBVIOUS
  <2> HIDE DEF q, Step
  <2> QED
    BY <2>1, <2>2
<1>6. Is(h)
  <2> HIDE DEF Is
  <2> QED
    BY <1>5
<1>7. e[0] = 0
  <2>1. 1 .. 0 = {} /\ 1 .. 0 \in SUBSET (1 .. n) /\ 0 \in 0 .. n
    OBVIOUS
  <2>2. h[1 .. 0] = 0
    <3> HIDE DEF h, q, Step
    <3> QED
      BY <1>6, <2>1
  <2> HIDE DEF h
  <2> QED
    BY <2>1, <2>2
<1>8. ASSUME NEW k \in 1 .. n PROVE e[k] = Step(e[k - 1], k)
  <2>1. /\ 1 .. k \in SUBSET (1 .. n) /\ k \in 0 .. n /\ k - 1 \in 0 .. n
        /\ 1 .. k # {} /\ Max(1 .. k) = k /\ (1 .. k) \ {k} = 1 .. (k - 1)
    <3>1. k \in Nat /\ k # 0
      OBVIOUS
    <3>2. 1 .. k \in SUBSET (1 .. n) /\ k \in 0 .. n /\ k - 1 \in 0 .. n
      OBVIOUS
    <3> QED
      BY <3>1, <3>2, MaxPrefix
  <2>2. h[1 .. k] = Step(h[1 .. (k - 1)], q[k])
    <3> HIDE DEF h, q, Step
    <3> QED
      BY <1>6, <2>1
  <2> HIDE DEF h, q, Step
  <2> QED
    BY <1>q, <2>1, <2>2
<1>9. \A k \in 0 .. n : e[k] \in Int
  <2> HIDE DEF e, f, Step
  <2>1. \A k \in 1 .. n : e[k - 1] \in Int => e[k] \in Int
    BY <1>2, <1>8
  <2>2. e[0] \in Int
    BY <1>7
  <2> QED
    BY <2>1, <2>2, StepsTyped
<1>10. Combine(points) = e[n]
  BY <1>1
<1>13. \A k \in 1 .. n : e[k] = (e[k - 1] + Y[k] * V[k]) % Prime
  <2>1. ASSUME NEW v, NEW k \in 1 .. n
        PROVE  Step(v, k) = (v + Y[k] * V[k]) % Prime
    BY DEF Weighs
  <2> HIDE DEF e, Step
  <2> QED
    BY <1>8, <2>1
<1> HIDE DEF e, f, Step
<1> QED
  BY <1>7, <1>9, <1>10, <1>13

-----------------------------------------------------------------------------
(* The key. *)
LEMMA EvaluateIsHorner ==
    ASSUME NEW n \in Nat, NEW c \in [1 .. n -> Int], NEW x \in Int,
           NEW C \in [Nat -> Int], \A k \in 1 .. n : C[k] = c[k]
    PROVE  Evaluate(c, x) \in Int /\ Same(Evaluate(c, x), Horner(C, x)[n])
<1>1. PICK e : /\ e[0] = 0
               /\ \A k \in 1 .. n : e[k] = (x * e[k - 1] + c[k]) % Prime
               /\ \A k \in 0 .. n : e[k] \in Int
               /\ Evaluate(c, x) = e[n]
  BY EvaluateSteps
<1> DEFINE Good == {k \in Nat : k <= n => Same(e[k], Horner(C, x)[k])}
<1>2. Good \in SUBSET Nat
  OBVIOUS
<1>3. 0 \in Good
  BY <1>1, HornerSteps, SameEqual
<1>4. ASSUME NEW k \in Good PROVE k + 1 \in Good
  <2> SUFFICES ASSUME k + 1 <= n PROVE Same(e[k + 1], Horner(C, x)[k + 1])
    OBVIOUS
  <2>1. k + 1 \in 1 .. n /\ (k + 1) - 1 = k /\ k + 1 \in Nat /\ k + 1 # 0 /\ k <= n /\ k \in 0 .. n
    OBVIOUS
  <2>2. PICK u \in Int, v \in Int, a \in Int :
            u = e[k] /\ v = Horner(C, x)[k] /\ a = c[k + 1] /\ a = C[k + 1]
    <3>1. Horner(C, x) \in [Nat -> Int]
      BY HornerSteps
    <3> QED
      BY <1>1, <2>1, <3>1
  <2>3. e[k + 1] = (x * u + a) % Prime
    BY <1>1, <2>1, <2>2
  <2>4. Horner(C, x)[k + 1] = x * v + a
    <3>1. C[k + 1] \in Int /\ k + 1 \in Nat /\ k + 1 # 0 /\ (k + 1) - 1 = k
      BY <2>1
    <3>2. Horner(C, x)[k + 1] = x * Horner(C, x)[(k + 1) - 1] + C[k + 1]
      BY <3>1, HornerSteps
    <3> QED
      BY <2>2, <3>1, <3>2
  <2>5. Same(u, v)
    BY <1>4, <2>1, <2>2
  <2>6. x * u \in Int /\ x * v \in Int /\ x * u + a \in Int /\ x * v + a \in Int
    OBVIOUS
  <2>7. Same(x * u, x * v)
    BY <2>5, SameFactor
  <2>8. Same(x * u + a, x * v + a)
    BY <2>6, <2>7, SameEqual, SameSum
  <2>9. (x * u + a) % Prime \in Int /\ Same((x * u + a) % Prime, x * u + a)
    BY <2>6, SameRest, PrimeTyped
  <2> QED
    BY <2>3, <2>4, <2>6, <2>8, <2>9, SameChains
<1>5. Good = Nat
  <2> HIDE DEF Good
  <2> QED
    BY <1>2, <1>3, <1>4, NumberInduction
<1>6. Same(e[n], Horner(C, x)[n]) /\ e[n] \in Int
  <2>1. n \in Good /\ n \in 0 .. n
    BY <1>5
  <2> QED
    BY <1>1, <2>1
<1> QED
  BY <1>1, <1>6

(* The points of a polynomial, as many as it has coefficients or more, give back its last
   coefficient. *)
LEMMA CombineRecovers ==
    ASSUME NEW N \in Nat, NEW d \in Nat, d < N, NEW c \in [1 .. (d + 1) -> Int],
           c[d + 1] \in Element, NEW points, DOMAIN points = 1 .. N,
           NEW X, Numbers(X, N),
           \A i \in 1 .. N : points[i][1] = X[i] /\ points[i][2] = Evaluate(c, X[i])
    PROVE  Combine(points) = c[d + 1]
<1> DEFINE C == [k \in Nat |-> IF k \in 1 .. (d + 1) THEN c[k] ELSE 0]
           W == [j \in 1 .. N |-> CHOOSE e : Weights(e, points, N, j)]
           V == [j \in 1 .. N |-> W[j][N]]
           Y == [j \in 1 .. N |-> points[j][2]]
           h == Terms(W, N, Values(C, X, d + 1))
<1>1. C \in [Nat -> Int] /\ \A k \in 1 .. (d + 1) : C[k] = c[k]
  OBVIOUS
<1>2. ASSUME NEW j \in 1 .. N
      PROVE  Weights(W[j], points, N, j)
  <2> DEFINE Z == [i \in 1 .. N |-> points[i][1]]
  <2>1. Numbers(Z, N)
    BY DEF Numbers
  <2>2. \E e : Weights(e, points, N, j)
    BY <2>1, WeightSteps
  <2> QED
    BY <2>2
<1> HIDE DEF C, W
<1>3. Weighted(W, X, N)
  BY <1>2 DEF Weights, Weighted
<1>4. ASSUME NEW j \in 1 .. N
      PROVE  Y[j] \in Int /\ Same(Y[j], Horner(C, X[j])[d + 1])
  <2>1. X[j] \in Int /\ d + 1 \in Nat
    BY DEF Numbers
  <2>2. Y[j] = Evaluate(c, X[j])
    OBVIOUS
  <2> HIDE DEF Y
  <2> QED
    BY <1>1, <2>1, <2>2, EvaluateIsHorner
<1>5. Weighs(points, Y, V, N)
  <2>1. \A j \in 1 .. N : V[j] = WeightOf(points, j) /\ V[j] \in Int
    BY <1>2 DEF Weights
  <2>2. \A j \in 1 .. N : Y[j] = points[j][2]
    OBVIOUS
  <2> HIDE DEF V, Y
  <2> QED
    BY <1>4, <2>1, <2>2 DEF Weighs
<1>6. ASSUME NEW j \in 1 .. N
      PROVE  h[j] \in Int /\ Same(Y[j] * V[j], h[j]) /\ Y[j] \in Int /\ V[j] \in Int
  <2>1. PICK w \in Int, y \in Int : w = V[j] /\ y = Y[j] /\ w = W[j][N]
    BY <1>5 DEF Weighs
  <2>2. N \in 0 .. N /\ d + 1 \in Nat
    OBVIOUS
  <2>3. PICK v \in Int : v = Horner(C, X[j])[d + 1] /\ Values(C, X, d + 1)[j] = v
    BY <2>2, ValuesTyped
  <2>4. h[j] = w * v
    BY <1>3, <2>1, <2>2, <2>3, TermsTyped
  <2>5. Same(y, v)
    BY <1>4, <2>1, <2>3
  <2>6. Same(y * w, v * w)
    BY <2>5, SameFactor
  <2>7. v * w = w * v /\ w * v \in Int
    OBVIOUS
  <2> HIDE DEF h, V, Y
  <2> QED
    BY <2>1, <2>4, <2>6, <2>7
<1> HIDE DEF V, Y
<1>7. Same(Series(h)[N], c[d + 1])
  <2>1. N \in 1 .. N /\ d + 1 \in 1 .. (d + 1)
    OBVIOUS
  <2> HIDE DEF h
  <2>2. Same(Series(Terms(W, N, Values(C, X, d + 1)))[N], C[d + 1])
    BY <1>1, <1>3, <2>1, WeightsInterpolate
  <2> QED
    BY <1>1, <2>1, <2>2 DEF h
<1> HIDE DEF h
<1>8. PICK e : /\ e[0] = 0
               /\ \A k \in 0 .. N : e[k] \in Int
               /\ \A k \in 1 .. N : e[k] = (e[k - 1] + Y[k] * V[k]) % Prime
               /\ Combine(points) = e[N]
  BY <1>5, CombineSteps
<1> DEFINE Good == {k \in Nat : k <= N => Same(e[k], Series(h)[k])}
<1>9. Good \in SUBSET Nat
  OBVIOUS
<1>10. 0 \in Good
  BY <1>8, SeriesSteps, SameEqual
<1>11. ASSUME NEW k \in Good PROVE k + 1 \in Good
  <2> SUFFICES ASSUME k + 1 <= N PROVE Same(e[k + 1], Series(h)[k + 1])
    OBVIOUS
  <2>1. k + 1 \in 1 .. N /\ (k + 1) - 1 = k /\ k + 1 \in Nat /\ k + 1 # 0 /\ k <= N /\ k \in 0 .. N
    OBVIOUS
  <2>2. PICK u \in Int, v \in Int, a \in Int, b \in Int :
            u = e[k] /\ v = Series(h)[k] /\ a = Y[k + 1] * V[k + 1] /\ b = h[k + 1]
    <3>1. Series(h) \in [Nat -> Int]
      BY SeriesSteps
    <3>2. Y[k + 1] \in Int /\ V[k + 1] \in Int /\ h[k + 1] \in Int
      BY <1>6, <2>1
    <3>3. Y[k + 1] * V[k + 1] \in Int
      BY <3>2
    <3> QED
      BY <1>8, <2>1, <3>1, <3>2, <3>3
  <2>3. e[k + 1] = (u + a) % Prime
    BY <1>8, <2>1, <2>2
  <2>4. Series(h)[k + 1] = v + b
    BY <2>1, <2>2, SeriesSteps
  <2>5. Same(u, v) /\ Same(a, b)
    BY <1>6, <1>11, <2>1, <2>2
  <2>6. Same(u + a, v + b) /\ u + a \in Int /\ v + b \in Int
    BY <2>5, SameSum
  <2>7. (u + a) % Prime \in Int /\ Same((u + a) % Prime, u + a)
    BY <2>6, SameRest, PrimeTyped
  <2> QED
    BY <2>3, <2>4, <2>6, <2>7, SameChains
<1>12. Good = Nat
  <2> HIDE DEF Good
  <2> QED
    BY <1>9, <1>10, <1>11, NumberInduction
<1>13. Same(e[N], c[d + 1])
  <2>1. Same(e[N], Series(h)[N])
    BY <1>12
  <2>2. Series(h)[N] \in Int /\ e[N] \in Int /\ c[d + 1] \in Int
    <3>1. Series(h) \in [Nat -> Int]
      BY SeriesSteps
    <3> QED
      BY <1>8, <3>1
  <2> QED
    BY <1>7, <2>1, <2>2, SameChains
<1>14. e[N] \in Element
  <2>1. N \in 1 .. N
    OBVIOUS
  <2>2. PICK u \in Int, y \in Int, v \in Int : u = e[N - 1] /\ y = Y[N] /\ v = V[N]
    <3>1. N - 1 \in 0 .. N
      OBVIOUS
    <3>2. e[N - 1] \in Int
      BY <1>8, <3>1
    <3> QED
      BY <1>6, <2>1, <3>2
  <2>3. u + y * v \in Int
    OBVIOUS
  <2>4. e[N] = (u + y * v) % Prime
    BY <1>8, <2>1, <2>2
  <2> QED
    BY <2>3, <2>4, SameRest
<1> QED
  BY <1>8, <1>13, <1>14, SameElement

(* What is in the shares is a split of the key. *)
IsSplit(s, coefficients) ==
    /\ \E length \in 0 .. MaxSecretSize : s \in [1 .. length -> Element]
    /\ coefficients \in [1 .. MaxSecretSize -> [1 .. (Threshold - 1) -> Element]]

LEMMA BlockRecovered ==
    ASSUME NEW s, NEW coefficients, IsSplit(s, coefficients), shares = SplitSecret(s, coefficients),
           NEW number \in Nat, Threshold <= number, NEW indices \in [1 .. number -> 1 .. Total],
           IsInjective(indices), NEW b \in 1 .. MaxSecretSize
    PROVE  Combine(Points(indices, b)) = IF b <= Len(s) THEN s[b] ELSE 0
<1>1. PICK length \in 0 .. MaxSecretSize : s \in [1 .. length -> Element]
  BY DEF IsSplit
<1>2. length \in Nat /\ Len(s) = length
  BY <1>1, KeyShardingAssumption DEF KeyShardingAssumption
<1> DEFINE block == IF b <= Len(s) THEN s[b] ELSE 0
           c == Append(coefficients[b], block)
           d == Threshold - 1
           points == Points(indices, b)
<1>3. block \in Element
  BY <1>1, <1>2, PrimeTyped
<1>4. d \in Nat /\ d + 1 = Threshold /\ d < number
  BY PrimeTyped
<1>5. c \in [1 .. (d + 1) -> Int] /\ c[d + 1] = block
  <2>1. PICK a \in [1 .. d -> Element] : a = coefficients[b]
    BY DEF IsSplit
  <2> HIDE DEF block, d, points
  <2>2. a \in Seq(Element) /\ Len(a) = d
    BY <1>4
  <2>3. /\ Append(a, block) \in Seq(Element) /\ Len(Append(a, block)) = d + 1
        /\ Append(a, block)[d + 1] = block
    BY <1>3, <2>2
  <2>4. Append(a, block) \in [1 .. (d + 1) -> Element]
    BY <2>3, LenProperties
  <2>5. c = Append(a, block)
    BY <2>1
  <2> HIDE DEF c
  <2> QED
    BY <2>3, <2>4, <2>5, PrimeTyped
<1>6. DOMAIN points = 1 .. number
  BY DEF Points
<1>7. Numbers(indices, number)
  BY DEF Numbers, IsInjective
<1>8. ASSUME NEW i \in 1 .. number
      PROVE  points[i][1] = indices[i] /\ points[i][2] = Evaluate(c, indices[i])
  <2>1. points[i] = <<indices[i], shares[indices[i]].blocks[b]>> /\ indices[i] \in 1 .. Total
    BY DEF Points
  <2>2. shares[indices[i]].blocks[b] = Evaluate(c, indices[i])
    <3>1. (IF b <= Len(s) THEN s[b] ELSE 0) = block
      OBVIOUS
    <3> QED
      BY <2>1 DEF SplitSecret
  <2> HIDE DEF points, c
  <2> QED
    BY <2>1, <2>2
<1>9. c[d + 1] \in Element
  BY <1>3, <1>5
<1>10. Combine(points) = c[d + 1]
  <2> HIDE DEF points, c, d
  <2> QED
    BY <1>4, <1>5, <1>6, <1>7, <1>8, <1>9, CombineRecovers
<1> HIDE DEF c
<1> QED
  BY <1>5, <1>10

(* Interpolation at 0: for every prime, threshold and key, whatever the coefficients, any
   quorum of the shares gives back the key that was split. *)
THEOREM QuorumRecovers ==
    ASSUME NEW s, NEW coefficients, IsSplit(s, coefficients), shares = SplitSecret(s, coefficients),
           NEW indices \in Presentable, Quorum(indices)
    PROVE  ReconstructSecret(indices) = Key(s)
<1>1. PICK number \in 0 .. Total : indices \in [1 .. number -> 1 .. Total]
  BY DEF Presentable
<1>2. number \in Nat /\ Len(indices) = number /\ DOMAIN indices = 1 .. number /\ IsInjective(indices)
  BY <1>1, PrimeTyped DEF Quorum
<1>3. Threshold <= number
  <2>1. indices \in Bijection(1 .. number, Range(indices))
    BY <1>1, <1>2 DEF Bijection, Injection, Surjection, IsInjective, Range
  <2>2. Cardinality(Range(indices)) = number
    BY <1>2, <2>1, FS_CountingElements, FS_Interval DEF ExistsBijection
  <2> QED
    BY <2>2, PrimeTyped DEF Quorum
<1>4. ~DuplicateShare(Points(indices, 1))
  BY <1>1, <1>2 DEF DuplicateShare, Points, IsInjective
<1>5. PICK length \in 0 .. MaxSecretSize : s \in [1 .. length -> Element]
  BY DEF IsSplit
<1>6. length \in Nat /\ Len(s) = length /\ length <= MaxSecretSize /\ MaxSecretSize \in Nat
  BY <1>5, KeyShardingAssumption DEF KeyShardingAssumption
<1>7. shares[indices[1]].length = length
  <2>1. indices[1] \in 1 .. Total
    BY <1>1, <1>2, <1>3, PrimeTyped
  <2> QED
    BY <1>6, <2>1 DEF SplitSecret
<1>8. Blocks(indices) \in [1 .. MaxSecretSize -> Element]
      /\ \A b \in 1 .. length : Blocks(indices)[b] = s[b]
  <2>1. ASSUME NEW b \in 1 .. MaxSecretSize
        PROVE  Combine(Points(indices, b)) = IF b <= length THEN s[b] ELSE 0
    BY <1>1, <1>2, <1>3, <1>6, BlockRecovered
  <2>2. ASSUME NEW b \in 1 .. MaxSecretSize
        PROVE  Combine(Points(indices, b)) \in Element
    <3>1. b <= length => s[b] \in Element
      BY <1>5
    <3> QED
      BY <2>1, <3>1, PrimeTyped
  <2> QED
    BY <1>6, <2>1, <2>2 DEF Blocks
<1>9. SubSeq(Blocks(indices), 1, length) = s
  <2>1. PICK B \in [1 .. MaxSecretSize -> Element] : B = Blocks(indices)
    BY <1>8
  <2>2. B \in Seq(Element) /\ Len(B) = MaxSecretSize
    BY <1>6, <2>1
  <2>3. SubSeq(B, 1, length) = [b \in 1 .. length |-> B[b]]
    BY <1>6, <2>2
  <2>4. s = [b \in 1 .. length |-> s[b]]
    BY <1>5
  <2> QED
    BY <1>8, <2>1, <2>3, <2>4
<1>10. ~(Len(indices) < Threshold)
  BY <1>2, <1>3, PrimeTyped
<1> QED
  BY <1>4, <1>7, <1>9, <1>10 DEF ReconstructSecret

(* A quorum is what reconstruct_secret accepts: no fewer shares than the threshold, each
   of them once; anything else raises. *)
THEOREM FewerRaise ==
    ASSUME NEW indices \in Presentable, ~Quorum(indices)
    PROVE  ReconstructSecret(indices) = Raised
<1>1. PICK number \in 0 .. Total : indices \in [1 .. number -> 1 .. Total]
  BY DEF Presentable
<1>2. number \in Nat /\ Len(indices) = number
  BY <1>1, KeyShardingAssumption DEF KeyShardingAssumption
<1>3. CASE ~IsInjective(indices)
  <2>1. PICK i \in DOMAIN indices, j \in DOMAIN indices : indices[i] = indices[j] /\ i # j
    BY <1>3 DEF IsInjective
  <2>2. DuplicateShare(Points(indices, 1))
    BY <2>1 DEF DuplicateShare, Points
  <2> QED
    BY <2>2 DEF ReconstructSecret
<1>4. CASE IsInjective(indices)
  <2>1. indices \in Bijection(1 .. number, Range(indices))
    BY <1>1, <1>4 DEF Bijection, Injection, Surjection, IsInjective, Range
  <2>2. Cardinality(Range(indices)) = number
    BY <2>1, <1>2, FS_CountingElements, FS_Interval DEF ExistsBijection
  <2>3. Len(indices) < Threshold
    BY <1>2, <1>4, <2>2, KeyShardingAssumption DEF Quorum, KeyShardingAssumption
  <2> QED
    BY <2>3 DEF ReconstructSecret
<1> QED
  BY <1>3, <1>4

=============================================================================
