--------------------------- MODULE ApronBox_proofs ---------------------------
(***************************************************************************)
(* The library under the boxes, and the boxes, for any numbers,            *)
(* expressions, constraints and dimensions: arithmetic on bounds and       *)
(* intervals, rounding, the evaluation of an expression over an            *)
(* environment, linearisation, the deduction of bounds from constraints,   *)
(* and the operations, each of which gives a proper box.                   *)
(***************************************************************************)
EXTENDS ApronBox, FiniteSetTheorems, SequenceTheorems, WellFoundedInduction, TLAPS

-----------------------------------------------------------------------------
(***************************************************************************)
(* Induction.                                                              *)
(***************************************************************************)
(* Induction up to n, over a set.                                          *)
LEMMA UpTo ==
  ASSUME NEW n \in Nat, NEW S, 0 \in S, \A i \in 0 .. n - 1 : i \in S => i + 1 \in S
  PROVE  0 .. n \subseteq S
<1> DEFINE T == {i \in 0 .. n : i \notin S}
<1> SUFFICES ASSUME T # {} PROVE FALSE
  OBVIOUS
<1>1. \E i \in T : \A j \in T : ~ (<<j, i>> \in OpToRel(<, Nat))
  <2>1. T \subseteq Nat
    OBVIOUS
  <2> HIDE DEF T
  <2> QED BY <2>1, WFMin, NatLessThanWellFounded
<1>2. PICK i \in T : \A j \in T : ~ (<<j, i>> \in OpToRel(<, Nat))
  BY <1>1
<1>3. i \in Nat /\ i # 0 /\ i <= n
  OBVIOUS
<1>4. i - 1 \in 0 .. n - 1 /\ i - 1 < i /\ (i - 1) + 1 = i
  BY <1>3
<1>5. <<i - 1, i>> \in OpToRel(<, Nat)
  BY <1>3, <1>4 DEF OpToRel
<1>6. i - 1 \notin T
  <2> HIDE DEF T
  <2> QED BY <1>2, <1>5
<1>7. i - 1 \in S
  <2>1. i - 1 \in 0 .. n
    BY <1>3, <1>4
  <2> QED BY <1>6, <2>1
<1> QED BY <1>2, <1>4, <1>7

(* Induction over the numbers, from all smaller ones.                      *)
LEMMA FromSmaller ==
  ASSUME NEW S, \A n \in Nat : (\A m \in Nat : m < n => m \in S) => n \in S
  PROVE  Nat \subseteq S
<1> DEFINE T == {i \in Nat : i \notin S}
<1> SUFFICES ASSUME T # {} PROVE FALSE
  OBVIOUS
<1>1. PICK i \in T : \A j \in T : ~ (<<j, i>> \in OpToRel(<, Nat))
  <2>1. T \subseteq Nat
    OBVIOUS
  <2> HIDE DEF T
  <2> QED BY <2>1, WFMin, NatLessThanWellFounded
<1>2. ASSUME NEW m \in Nat, m < i
      PROVE  m \in S
  <2>1. <<m, i>> \in OpToRel(<, Nat)
    BY <1>2 DEF OpToRel
  <2> QED BY <1>1, <2>1
<1> QED BY <1>2

-----------------------------------------------------------------------------
(***************************************************************************)
(* The greatest common divisor.                                            *)
(***************************************************************************)
Divides(g, n) == \E k \in Int : n = k * g
CommonDivisors(a, b) == {g \in Nat : g > 0 /\ Divides(g, a) /\ Divides(g, b)}

LEMMA DividesSum ==
  ASSUME NEW g \in Int, NEW m \in Int, NEW n \in Int, Divides(g, m), Divides(g, n)
  PROVE  Divides(g, m + n) /\ Divides(g, m - n)
<1>1. PICK i \in Int : m = i * g
  BY DEF Divides
<1>2. PICK j \in Int : n = j * g
  BY DEF Divides
<1>3. i + j \in Int /\ m + n = (i + j) * g
  BY <1>1, <1>2
<1>4. i - j \in Int /\ m - n = (i - j) * g
  BY <1>1, <1>2
<1> QED BY <1>3, <1>4 DEF Divides

LEMMA DividesProduct ==
  ASSUME NEW g \in Int, NEW m \in Int, NEW k \in Int, Divides(g, m)
  PROVE  Divides(g, k * m)
<1>1. PICK i \in Int : m = i * g
  BY DEF Divides
<1>2. k * i \in Int /\ k * m = (k * i) * g
  BY <1>1
<1> QED BY <1>2 DEF Divides

LEMMA DivisorsOfRemainder ==
  ASSUME NEW a \in Nat, NEW b \in Nat, b > 0
  PROVE  /\ a % b \in Nat /\ a % b < b
         /\ CommonDivisors(a, b) = CommonDivisors(b, a % b)
<1>1. a % b \in Int /\ a \div b \in Int /\ a = (a \div b) * b + (a % b)
  OBVIOUS
<1>a. 0 <= a % b /\ a % b < b
  OBVIOUS
<1>2. ASSUME NEW g \in Nat, Divides(g, b)
      PROVE  Divides(g, a) <=> Divides(g, a % b)
  <2>1. Divides(g, (a \div b) * b)
    BY ONLY <1>1, <1>2, b \in Int, g \in Int, DividesProduct
  <2>2. (a \div b) * b \in Int /\ a - (a \div b) * b = a % b
    BY <1>1
  <2> DEFINE q == (a \div b) * b
             r == a % b
  <2>3. q \in Int /\ r \in Int /\ a - q = r /\ q + r = a /\ Divides(g, q) /\ g \in Int
    BY <1>1, <2>1, <2>2
  <2> HIDE DEF q, r
  <2>4. Divides(g, a) => Divides(g, r)
    BY <2>3, DividesSum
  <2>5. Divides(g, r) => Divides(g, a)
    BY <2>3, DividesSum
  <2> QED BY <2>4, <2>5 DEF r
<1>3. a % b \in Nat /\ a % b < b
  BY <1>1, <1>a
<1> QED BY <1>2, <1>3 DEF CommonDivisors

(* The equation has a solution, so that it is one.                         *)
LEMMA GcdUnfolds ==
  ASSUME NEW a \in Nat, NEW b \in Nat
  PROVE  Gcd[<<a, b>>] = IF b = 0 THEN a ELSE Gcd[<<b, a % b>>]
<1> DEFINE F(f) == [p \in Nat \X Nat |-> IF p[2] = 0 THEN p[1] ELSE f[<<p[2], p[1] % p[2]>>]]
           greatest(S) == CHOOSE x \in S : \A y \in S : y <= x
           G == [p \in Nat \X Nat |-> IF p[2] = 0 THEN p[1] ELSE greatest(CommonDivisors(p[1], p[2]))]
<1>1. ASSUME NEW p \in Nat \X Nat
      PROVE  G[p] = F(G)[p]
  <2> DEFINE m == p[1]  n == p[2]
  <2>0. m \in Nat /\ n \in Nat
    OBVIOUS
  <2>1. CASE n = 0
    BY <2>1
  <2>2. CASE n # 0
    <3> DEFINE r == m % n
    <3>3. F(G)[p] = G[<<n, r>>]
      BY <2>2
    <3>4. G[p] = greatest(CommonDivisors(m, n))
      BY <2>2
    <3>1. r \in Nat /\ CommonDivisors(m, n) = CommonDivisors(n, r)
      <4> HIDE DEF m, n
      <4>1. n > 0
        BY <2>0, <2>2
      <4> QED BY <2>0, <4>1, DivisorsOfRemainder
    <3> HIDE DEF m, n, r
    <3>2. <<n, r>> \in Nat \X Nat
      BY <2>0, <3>1
    <3>5. G[<<n, r>>] = IF r = 0 THEN n ELSE greatest(CommonDivisors(n, r))
      <4> DEFINE q == <<n, r>>
      <4>1. q \in Nat \X Nat /\ q[1] = n /\ q[2] = r
        BY <3>2
      <4> HIDE DEF q
      <4>2. G[q] = IF q[2] = 0 THEN q[1] ELSE greatest(CommonDivisors(q[1], q[2]))
        BY <4>1 DEF G
      <4> HIDE DEF G, greatest
      <4> QED BY <4>1, <4>2 DEF q
    <3>6. CASE r # 0
      BY <3>1, <3>3, <3>4, <3>5, <3>6
    <3>7. CASE r = 0
      <4>1. n \in CommonDivisors(n, r)
        <5>1. n = 1 * n /\ r = 0 * n
          BY <2>0, <3>7
        <5> QED BY <5>1, <2>0, <2>2 DEF CommonDivisors, Divides
      <4>2. \A y \in CommonDivisors(n, r) : y \in Nat /\ y <= n
        <5> SUFFICES ASSUME NEW y \in CommonDivisors(n, r) PROVE y \in Nat /\ y <= n
          OBVIOUS
        <5>1. y \in Nat /\ y > 0
          BY DEF CommonDivisors
        <5>2. PICK k \in Int : n = k * y
          BY DEF CommonDivisors, Divides
        <5>3. k >= 1
          BY <2>0, <2>2, <5>1, <5>2
        <5> QED BY <5>1, <5>2, <5>3, <2>0
      <4>3. greatest(CommonDivisors(n, r)) = n
        <5> DEFINE x == greatest(CommonDivisors(n, r))
        <5>1. x \in CommonDivisors(n, r) /\ n <= x
          BY <4>1, <4>2
        <5>2. x \in Nat /\ x <= n
          BY <5>1, <4>2
        <5> QED BY <5>1, <5>2, <2>0
      <4> QED BY <3>1, <3>3, <3>4, <3>5, <3>7, <4>3
    <3> QED BY <3>6, <3>7
  <2> QED BY <2>1, <2>2
<1>2. G = F(G)
  <2>1. G = [p \in Nat \X Nat |-> G[p]] /\ F(G) = [p \in Nat \X Nat |-> F(G)[p]]
    OBVIOUS
  <2> HIDE DEF G, F
  <2> QED BY <1>1, <2>1
<1> HIDE DEF G
<1>3. Gcd = F(Gcd)
  BY <1>2 DEF Gcd
<1> QED BY <1>3

LEMMA GcdDivides ==
  ASSUME NEW a \in Nat, NEW b \in Nat, a > 0 \/ b > 0
  PROVE  /\ Gcd[<<a, b>>] \in Nat /\ Gcd[<<a, b>>] > 0
         /\ Divides(Gcd[<<a, b>>], a) /\ Divides(Gcd[<<a, b>>], b)
<1> DEFINE Right(m, n) == m > 0 \/ n > 0 => Gcd[<<m, n>>] \in CommonDivisors(m, n)
           S == {n \in Nat : \A m \in Nat : Right(m, n)}
<1>1. ASSUME NEW n \in Nat, \A m \in Nat : m < n => m \in S
      PROVE  n \in S
  <2> SUFFICES ASSUME NEW m \in Nat, m > 0 \/ n > 0
               PROVE  Gcd[<<m, n>>] \in CommonDivisors(m, n)
    OBVIOUS
  <2>1. CASE n = 0
    <3>1. Gcd[<<m, n>>] = m
      BY <2>1, GcdUnfolds
    <3>2. m = 1 * m /\ n = 0 * m
      BY <2>1
    <3> QED BY <2>1, <3>1, <3>2 DEF CommonDivisors, Divides
  <2>2. CASE n # 0
    <3>0. n > 0
      BY <2>2
    <3>1. /\ m % n \in Nat /\ m % n < n
          /\ CommonDivisors(m, n) = CommonDivisors(n, m % n)
      BY <3>0, DivisorsOfRemainder
    <3>2. Gcd[<<m, n>>] = Gcd[<<n, m % n>>]
      BY <2>2, GcdUnfolds
    <3> DEFINE r == m % n
    <3> HIDE DEF r
    <3>3. r \in Nat /\ r < n /\ Right(n, r)
      BY <1>1, <3>1 DEF r
    <3> QED BY <3>0, <3>1, <3>2, <3>3 DEF r
  <2> QED BY <2>1, <2>2
<1>2. Nat \subseteq S
  <2> HIDE DEF S
  <2> QED BY <1>1, FromSmaller
<1>3. Right(a, b)
  BY <1>2
<1> QED BY <1>3 DEF CommonDivisors

-----------------------------------------------------------------------------
(***************************************************************************)
(* Fractions and bounds.                                                   *)
(***************************************************************************)
(* A fraction is at most a bound.                                          *)
AtMost(q, b) == q[1] * b[2] <= b[1] * q[2]

LEMMA GcdIs ==
  ASSUME NEW n \in Int, NEW d \in Int, d > 0
  PROVE  \E g \in Nat, k \in Int, l \in Int :
            g = Gcd[<<Abs(n), d>>] /\ g > 0 /\ n = k * g /\ d = l * g /\ l > 0
<1> DEFINE m == Abs(n)
           g == Gcd[<<m, d>>]
<1>1. m \in Nat /\ (m = n \/ n = -m) /\ d \in Nat
  BY DEF Abs
<1> HIDE DEF m
<1>2. g \in Nat /\ g > 0 /\ Divides(g, m) /\ Divides(g, d)
  BY <1>1, GcdDivides
<1>3. PICK k \in Int : m = k * g
  BY <1>2 DEF Divides
<1>4. PICK l \in Int : d = l * g
  BY <1>2 DEF Divides
<1> HIDE DEF g
<1>5. l > 0
  BY <1>2, <1>4
<1>6. n = k * g \/ n = (-k) * g
  BY <1>1, <1>2, <1>3
<1>7. -k \in Int
  OBVIOUS
<1> QED BY <1>2, <1>4, <1>5, <1>6, <1>7 DEF g, m

LEMMA ExactQuotient ==
  ASSUME NEW k \in Int, NEW g \in Nat, g > 0
  PROVE  (k * g) \div g = k
OBVIOUS

LEMMA GcdScales ==
  ASSUME NEW k \in Nat, k > 0, NEW a \in Nat, NEW b \in Nat
  PROVE  Gcd[<<k * a, k * b>>] = k * Gcd[<<a, b>>]
<1> DEFINE Scales(m, n) == Gcd[<<k * m, k * n>>] = k * Gcd[<<m, n>>]
           S == {n \in Nat : \A m \in Nat : Scales(m, n)}
<1>1. ASSUME NEW n \in Nat, \A m \in Nat : m < n => m \in S
      PROVE  n \in S
  <2> SUFFICES ASSUME NEW m \in Nat
               PROVE  Scales(m, n)
    OBVIOUS
  <2>0. k * m \in Nat /\ k * n \in Nat
    OBVIOUS
  <2>1. CASE n = 0
    <3>1. Gcd[<<m, n>>] = m
      BY <2>1, GcdUnfolds
    <3>2. k * n = 0
      BY <2>1
    <3>3. Gcd[<<k * m, k * n>>] = k * m
      BY <2>0, <3>2, GcdUnfolds
    <3> QED BY <3>1, <3>3
  <2>2. CASE n # 0
    <3>0. n > 0 /\ k * n > 0
      BY <2>2
    <3> DEFINE r == m % n
    <3>1. r \in Nat /\ r < n /\ m \div n \in Int /\ m = (m \div n) * n + r
      BY <3>0
    <3>2. (k * m) % (k * n) = k * r
      <4> DEFINE u == m \div n
      <4> HIDE DEF u, r
      <4>1. u \in Int /\ m = u * n + r /\ r \in Nat /\ r < n
        BY <3>1 DEF u, r
      <4>2. k * (u * n) = u * (k * n)
        BY <4>1
      <4>3. k * m = k * (u * n) + k * r
        BY <4>1
      <4>4. k * r >= 0 /\ k * r < k * n
        BY <4>1
      <4> DEFINE K == k * n  R == k * r
      <4>5. K \in Nat /\ K > 0 /\ R \in Nat /\ R < K /\ k * m = u * K + R
        BY <3>0, <4>1, <4>2, <4>3, <4>4
      <4> HIDE DEF K, R
      <4>6. (u * K + R) % K = R
        BY <4>1, <4>5
      <4> QED BY <4>5, <4>6 DEF K, R
    <3>3. Gcd[<<m, n>>] = Gcd[<<n, r>>]
      BY <2>2, GcdUnfolds
    <3>4. Gcd[<<k * m, k * n>>] = Gcd[<<k * n, k * r>>]
      BY <2>0, <3>0, <3>2, GcdUnfolds
    <3> HIDE DEF r
    <3>5. Scales(n, r)
      BY <1>1, <3>1
    <3> QED BY <3>3, <3>4, <3>5
  <2> QED BY <2>1, <2>2
<1>2. Nat \subseteq S
  <2> HIDE DEF S
  <2> QED BY <1>1, FromSmaller
<1> QED BY <1>2

(* Num is the fraction that it is given, in lowest terms.                  *)
LEMMA NumLowest ==
  ASSUME NEW n \in Int, NEW d \in Int, d > 0
  PROVE  \E g \in Nat, k \in Int, l \in Int :
            /\ g > 0 /\ n = k * g /\ d = l * g /\ l > 0
            /\ Num(n, d) = <<k, l>> /\ Num(k, l) = <<k, l>>
<1>1. PICK g \in Nat, k \in Int, l \in Int :
         g = Gcd[<<Abs(n), d>>] /\ g > 0 /\ n = k * g /\ d = l * g /\ l > 0
  BY GcdIs
<1>2. Num(n, d) = <<k, l>>
  <2>1. SgnOf(d) = 1 /\ Abs(d) = d /\ n * 1 = n
    BY DEF SgnOf, Abs
  <2>2. n \div g = k /\ d \div g = l
    BY <1>1, ExactQuotient
  <2> QED BY <1>1, <2>1, <2>2 DEF Num
<1>3. Gcd[<<Abs(k), l>>] = 1
  <2>1. Abs(k) \in Nat /\ Abs(n) = g * Abs(k) /\ d = g * l /\ l \in Nat
    <3>1. k >= 0 => k * g >= 0
      BY <1>1
    <3>2. k < 0 => k * g < 0 /\ -(k * g) = g * (-k)
      BY <1>1
    <3> QED BY <1>1, <3>1, <3>2 DEF Abs
  <2> DEFINE h == Gcd[<<Abs(k), l>>]  x == Abs(k)
  <2>2. Gcd[<<g * Abs(k), g * l>>] = g * h
    <3> HIDE DEF x
    <3>1. Gcd[<<g * x, g * l>>] = g * Gcd[<<x, l>>]
      BY <1>1, <2>1, GcdScales DEF x
    <3> QED BY <3>1 DEF x
  <2>3. h \in Nat
    BY <1>1, <2>1, GcdDivides
  <2>4. g = g * h
    BY <1>1, <2>1, <2>2
  <2> HIDE DEF h
  <2>5. h = 1
    BY <1>1, <2>3, <2>4
  <2> QED BY <2>5 DEF h
<1>4. Num(k, l) = <<k, l>>
  <2>1. SgnOf(l) = 1 /\ Abs(l) = l /\ k * 1 = k /\ k \div 1 = k /\ l \div 1 = l
    BY <1>1 DEF SgnOf, Abs
  <2> QED BY <1>3, <2>1 DEF Num
<1> QED BY <1>1, <1>2, <1>4

LEMMA NumIs ==
  ASSUME NEW n \in Int, NEW d \in Int, d > 0
  PROVE  IsFrac(Num(n, d)) /\ Num(n, d)[1] * d = n * Num(n, d)[2]
<1>1. PICK g \in Nat, k \in Int, l \in Int :
         /\ g > 0 /\ n = k * g /\ d = l * g /\ l > 0
         /\ Num(n, d) = <<k, l>> /\ Num(k, l) = <<k, l>>
  BY NumLowest
<1>3. k * (l * g) = (k * g) * l
  OBVIOUS
<1> QED BY <1>1, <1>3 DEF IsFrac

(* Fractions of the same value are the same.                               *)
LEMMA NumScales ==
  ASSUME NEW k \in Nat, k > 0, NEW n \in Int, NEW d \in Int, d > 0
  PROVE  Num(n * k, d * k) = Num(n, d)
<1> DEFINE a == Abs(n)  g == Gcd[<<a, d>>]
<1>0. PICK e \in Nat, i \in Int, j \in Int :
         e = g /\ e > 0 /\ n = i * e /\ d = j * e /\ j > 0
  BY GcdIs
<1>1. a \in Nat /\ d \in Nat /\ Abs(n * k) = k * a /\ d * k = k * d /\ d * k > 0
  <2>1. n >= 0 => n * k >= 0
    OBVIOUS
  <2>2. n < 0 => n * k < 0 /\ -(n * k) = k * (-n)
    OBVIOUS
  <2> QED BY <2>1, <2>2 DEF Abs
<1> HIDE DEF a
<1>2. Gcd[<<k * a, k * d>>] = k * g
  BY <1>1, GcdScales
<1> HIDE DEF g
<1>3. k * e \in Nat /\ k * e > 0
  BY <1>0
<1>4. n * k = i * (k * e) /\ d * k = j * (k * e)
  BY <1>0
<1>5. (n * k) \div (k * e) = i /\ (d * k) \div (k * e) = j /\ n \div e = i /\ d \div e = j
  BY <1>0, <1>3, <1>4, ExactQuotient
<1>6. SgnOf(d) = 1 /\ Abs(d) = d /\ SgnOf(d * k) = 1 /\ Abs(d * k) = d * k
  BY <1>1 DEF SgnOf, Abs
<1>7. n * k \in Int /\ d * k \in Int /\ n * 1 = n /\ (n * k) * 1 = n * k
  OBVIOUS
<1>8. Num(n, d) = <<i, j>>
  BY <1>0, <1>5, <1>6, <1>7 DEF Num, g, a
<1>9. Num(n * k, d * k) = <<i, j>>
  BY <1>0, <1>1, <1>2, <1>5, <1>6, <1>7 DEF Num
<1> QED BY <1>8, <1>9

LEMMA SameFrac ==
  ASSUME NEW p, NEW q, IsFrac(p), IsFrac(q), p[1] * q[2] = q[1] * p[2]
  PROVE  p = q
<1>1. /\ p[1] \in Int /\ p[2] \in Nat /\ p[2] > 0 /\ q[1] \in Int /\ q[2] \in Nat /\ q[2] > 0
      /\ Num(p[1], p[2]) = p /\ Num(q[1], q[2]) = q
  BY DEF IsFrac
<1> DEFINE a == p[1]  b == p[2]  c == q[1]  d == q[2]
<1>5. a \in Int /\ b \in Int /\ b \in Nat /\ b > 0 /\ c \in Int /\ d \in Int /\ d \in Nat /\ d > 0
  BY <1>1
<1> HIDE DEF a, b, c, d
<1>6. Num(a * d, b * d) = Num(a, b) /\ Num(c * b, d * b) = Num(c, d)
  BY <1>5, NumScales
<1>2. Num(p[1] * q[2], p[2] * q[2]) = Num(p[1], p[2])
  BY <1>6 DEF a, b, c, d
<1>3. Num(q[1] * p[2], q[2] * p[2]) = Num(q[1], q[2])
  BY <1>6 DEF a, b, c, d
<1>4. p[2] * q[2] = q[2] * p[2]
  BY <1>1
<1> QED BY <1>1, <1>2, <1>3, <1>4

LEMMA FracOfNeg ==
  ASSUME NEW n \in Int, NEW d \in Int, d > 0, Num(n, d) = <<n, d>>
  PROVE  Num(-n, d) = <<-n, d>>
<1>1. PICK g \in Nat, k \in Int, l \in Int :
         g = Gcd[<<Abs(n), d>>] /\ g > 0 /\ n = k * g /\ d = l * g /\ l > 0
  BY GcdIs
<1>2. SgnOf(d) = 1 /\ Abs(d) = d /\ n * 1 = n /\ (-n) * 1 = -n /\ Abs(-n) = Abs(n)
  BY DEF SgnOf, Abs
<1>3. d \div g = l /\ l = d
  BY <1>1, <1>2, ExactQuotient DEF Num
<1>4. g = 1
  <2>1. d = d * g
    BY <1>1, <1>3
  <2>2. \A x \in Int, y \in Nat : x > 0 /\ y > 0 /\ x = x * y => y = 1
    OBVIOUS
  <2>3. d \in Int /\ d > 0 /\ g \in Nat /\ g > 0
    BY <1>1
  <2> QED BY <2>1, <2>2, <2>3
<1>5. (-n) \div 1 = -n /\ d \div 1 = d
  OBVIOUS
<1> QED BY <1>1, <1>2, <1>4, <1>5 DEF Num

LEMMA NumOfNegative ==
  ASSUME NEW n \in Int, NEW d \in Int, d < 0
  PROVE  Num(n, d) = Num(-n, -d)
<1>1. /\ SgnOf(d) = -1 /\ SgnOf(-d) = 1 /\ Abs(d) = -d /\ Abs(-d) = -d /\ Abs(-n) = Abs(n)
      /\ n * (-1) = (-n) * 1
  BY DEF SgnOf, Abs
<1> QED BY <1>1 DEF Num

LEMMA NumOfInteger ==
  ASSUME NEW n \in Int
  PROVE  Num(n, 1) = IntBound(n)
<1>0. 1 \in Int /\ 1 > 0
  OBVIOUS
<1>1. PICK g \in Nat, k \in Int, l \in Int :
         g = Gcd[<<Abs(n), 1>>] /\ g > 0 /\ n = k * g /\ 1 = l * g /\ l > 0
  BY <1>0, GcdIs
<1>2. g = 1
  BY <1>1
<1>3. SgnOf(1) = 1 /\ Abs(1) = 1 /\ n * 1 = n /\ n \div 1 = n /\ 1 \div 1 = 1
  BY DEF SgnOf, Abs
<1> QED BY <1>1, <1>2, <1>3 DEF Num, IntBound

-----------------------------------------------------------------------------
LEMMA BoundCmpIs ==
  ASSUME NEW a, NEW b, IsBound(a), IsBound(b)
  PROVE  /\ IsFrac(a) => (BoundCmp(a, b) <= 0 <=> AtMost(a, b))
         /\ a = PlusOo => (BoundCmp(a, b) <= 0 <=> b = PlusOo)
         /\ BoundCmp(a, b) >= 0 <=> BoundCmp(b, a) <= 0
         /\ BoundCmp(a, b) <= 0 \/ BoundCmp(b, a) <= 0
         /\ BoundCmp(a, b) \in Int
<1>1. CASE a = PlusOo /\ b = PlusOo
  <2>1. a[1] = 1 /\ a[2] = 0 /\ b[1] = 1 /\ b[2] = 0 /\ ~IsFrac(a)
    BY <1>1 DEF PlusOo, Infty, IsFrac
  <2>2. (1 - 1) \div 2 = 0
    OBVIOUS
  <2> QED BY <1>1, <2>1, <2>2 DEF BoundCmp, IsInfty, BoundSgn, SgnOf
<1>2. CASE a = PlusOo /\ IsFrac(b)
  <2>1. a[1] = 1 /\ a[2] = 0 /\ b[1] \in Int /\ b[2] \in Int /\ b[2] > 0 /\ ~IsFrac(a) /\ b # PlusOo
    BY <1>2 DEF PlusOo, Infty, IsFrac
  <2> QED BY <1>2, <2>1 DEF BoundCmp, IsInfty, BoundSgn, SgnOf, AtMost
<1>3. CASE IsFrac(a) /\ b = PlusOo
  <2>1. a[1] \in Int /\ a[2] \in Int /\ a[2] > 0 /\ b[1] = 1 /\ b[2] = 0 /\ a # PlusOo
    BY <1>3 DEF PlusOo, Infty, IsFrac
  <2> QED BY <1>3, <2>1 DEF BoundCmp, IsInfty, BoundSgn, SgnOf, AtMost
<1>4. CASE IsFrac(a) /\ IsFrac(b)
  <2>1. /\ a[1] \in Int /\ a[2] \in Int /\ a[2] > 0 /\ a # PlusOo
        /\ b[1] \in Int /\ b[2] \in Int /\ b[2] > 0 /\ b # PlusOo
    BY <1>4 DEF PlusOo, Infty, IsFrac
  <2> DEFINE x == a[1] * b[2]
             y == b[1] * a[2]
  <2>2. x \in Int /\ y \in Int
    BY <2>1
  <2>3. BoundCmp(a, b) = SgnOf(x - y) /\ BoundCmp(b, a) = SgnOf(y - x)
    BY <2>1 DEF BoundCmp, IsInfty
  <2>4. AtMost(a, b) <=> x <= y
    BY DEF AtMost
  <2> HIDE DEF x, y
  <2> QED BY <1>4, <2>1, <2>2, <2>3, <2>4 DEF SgnOf
<1> QED BY <1>1, <1>2, <1>3, <1>4 DEF IsBound

LEMMA FracIs ==
  ASSUME NEW b, IsFrac(b)
  PROVE  /\ b = <<b[1], b[2]>> /\ b[1] \in Int /\ b[2] \in Int /\ b[2] > 0
         /\ IsBound(b) /\ b # PlusOo /\ ~IsInfty(b)
         /\ IsFrac(BoundNeg(b)) /\ BoundNeg(BoundNeg(b)) = b
<1>1. b = <<b[1], b[2]>> /\ b[1] \in Int /\ b[2] \in Int /\ b[2] > 0 /\ Num(b[1], b[2]) = b
  BY DEF IsFrac
<1>2. IsBound(b) /\ b # PlusOo /\ ~IsInfty(b)
  BY <1>1 DEF IsBound, PlusOo, Infty, IsInfty
<1>3. Num(-b[1], b[2]) = <<-b[1], b[2]>>
  BY <1>1, FracOfNeg
<1>4. IsFrac(BoundNeg(b))
  BY <1>1, <1>3 DEF IsFrac, BoundNeg
<1>5. BoundNeg(BoundNeg(b)) = b
  BY <1>1 DEF BoundNeg
<1> QED BY <1>1, <1>2, <1>4, <1>5

LEMMA PlusOoIs ==
  /\ PlusOo[1] = 1 /\ PlusOo[2] = 0 /\ IsInfty(PlusOo) /\ BoundSgn(PlusOo) = 1 /\ IsBound(PlusOo)
  /\ \A q : IsFrac(q) => AtMost(q, PlusOo)
BY DEF PlusOo, Infty, IsInfty, BoundSgn, SgnOf, IsBound, IsFrac, AtMost

LEMMA IntBoundIs ==
  ASSUME NEW n \in Int
  PROVE  /\ IsFrac(IntBound(n)) /\ IsBound(IntBound(n))
         /\ IntBound(n)[1] = n /\ IntBound(n)[2] = 1 /\ BoundNeg(IntBound(n)) = IntBound(-n)
BY NumOfInteger DEF IntBound, IsFrac, IsBound, BoundNeg

(* Below a bound is below every larger one.                                *)
LEMMA AtMostTransitive ==
  ASSUME NEW q, NEW b, NEW c, IsFrac(q), IsBound(b), IsBound(c), AtMost(q, b), BoundCmp(b, c) <= 0
  PROVE  AtMost(q, c)
<1>1. CASE c = PlusOo
  BY <1>1, PlusOoIs
<1>2. CASE IsFrac(c) /\ b = PlusOo
  BY <1>2, BoundCmpIs, FracIs
<1>3. CASE IsFrac(c) /\ IsFrac(b)
  <2>1. AtMost(b, c)
    BY <1>3, BoundCmpIs
  <2>2. /\ q[1] \in Int /\ q[2] \in Int /\ q[2] > 0 /\ b[1] \in Int /\ b[2] \in Int /\ b[2] > 0
        /\ c[1] \in Int /\ c[2] \in Int /\ c[2] > 0
    BY <1>3 DEF IsFrac
  <2>3. \A q1, q2, b1, b2, c1, c2 \in Int :
           q2 > 0 /\ b2 > 0 /\ c2 > 0 /\ q1 * b2 <= b1 * q2 /\ b1 * c2 <= c1 * b2 => q1 * c2 <= c1 * q2
    OBVIOUS
  <2> QED BY <2>1, <2>2, <2>3 DEF AtMost
<1> QED BY <1>1, <1>2, <1>3 DEF IsBound

LEMMA MinMax ==
  ASSUME NEW b, NEW c, IsBound(b), IsBound(c)
  PROVE  /\ IsBound(BoundMin(b, c)) /\ IsBound(BoundMax(b, c))
         /\ BoundMin(b, c) \in {b, c} /\ BoundMax(b, c) \in {b, c}
         /\ \A q : IsFrac(q) => (AtMost(q, BoundMin(b, c)) <=> AtMost(q, b) /\ AtMost(q, c))
         /\ \A q : IsFrac(q) => (AtMost(q, BoundMax(b, c)) <=> AtMost(q, b) \/ AtMost(q, c))
<1>1. IsBound(BoundMin(b, c)) /\ IsBound(BoundMax(b, c)) /\ BoundMin(b, c) \in {b, c} /\ BoundMax(b, c) \in {b, c}
  BY DEF BoundMin, BoundMax
<1>2. BoundMin(b, c) = IF BoundCmp(b, c) <= 0 THEN b ELSE c
  BY DEF BoundMin
<1>3. BoundMax(b, c) = IF BoundCmp(b, c) >= 0 THEN b ELSE c
  BY DEF BoundMax
<1>4. /\ BoundCmp(b, c) <= 0 \/ BoundCmp(c, b) <= 0
      /\ BoundCmp(b, c) >= 0 <=> BoundCmp(c, b) <= 0
  BY BoundCmpIs
<1>5. ASSUME NEW q, IsFrac(q)
      PROVE  /\ BoundCmp(b, c) <= 0 /\ AtMost(q, b) => AtMost(q, c)
             /\ BoundCmp(c, b) <= 0 /\ AtMost(q, c) => AtMost(q, b)
  BY <1>5, AtMostTransitive
<1>6. ASSUME NEW q, IsFrac(q)
      PROVE  AtMost(q, BoundMin(b, c)) <=> AtMost(q, b) /\ AtMost(q, c)
  BY <1>2, <1>4, <1>5, <1>6
<1>7. ASSUME NEW q, IsFrac(q)
      PROVE  AtMost(q, BoundMax(b, c)) <=> AtMost(q, b) \/ AtMost(q, c)
  BY <1>3, <1>4, <1>5, <1>7
<1> QED BY <1>1, <1>6, <1>7

-----------------------------------------------------------------------------
(* Sums, products and quotients of fractions.                              *)
FracAdd(q, r) == Num(q[1] * r[2] + r[1] * q[2], q[2] * r[2])
FracMul(q, r) == Num(q[1] * r[1], q[2] * r[2])
FracDiv(q, r) == IF r[1] > 0 THEN Num(q[1] * r[2], q[2] * r[1])
                 ELSE Num(-(q[1] * r[2]), q[2] * (-r[1]))

LEMMA NumNeg ==
  ASSUME NEW n \in Int, NEW d \in Int, d > 0
  PROVE  Num(-n, d) = BoundNeg(Num(n, d))
<1>1. IsFrac(Num(n, d)) /\ Num(n, d)[1] * d = n * Num(n, d)[2]
  BY NumIs
<1>2. IsFrac(Num(-n, d)) /\ Num(-n, d)[1] * d = (-n) * Num(-n, d)[2]
  BY NumIs
<1>3. IsFrac(BoundNeg(Num(n, d)))
  BY <1>1, FracIs
<1> DEFINE p == Num(n, d)  m == Num(-n, d)
<1>4. p[1] \in Int /\ p[2] \in Int /\ p[2] > 0 /\ m[1] \in Int /\ m[2] \in Int /\ m[2] > 0
  BY <1>1, <1>2 DEF IsFrac
<1>5. BoundNeg(p)[1] = -p[1] /\ BoundNeg(p)[2] = p[2]
  BY DEF BoundNeg
<1> HIDE DEF p, m
<1>6. p[1] * d = n * p[2] /\ m[1] * d = (-n) * m[2]
  BY <1>1, <1>2 DEF p, m
<1>7. m[1] * p[2] = (-p[1]) * m[2]
  <2> DEFINE p1 == p[1]  p2 == p[2]  m1 == m[1]  m2 == m[2]
  <2>0. p1 \in Int /\ p2 \in Int /\ m1 \in Int /\ m2 \in Int /\ p1 * d = n * p2 /\ m1 * d = (-n) * m2
    BY <1>4, <1>6
  <2> HIDE DEF p1, p2, m1, m2
  <2>1. (m1 * p2) * d = (m1 * d) * p2
    BY <2>0
  <2>2. ((-p1) * m2) * d = (-(p1 * d)) * m2
    BY <2>0
  <2>3. ((-n) * m2) * p2 = (-(n * p2)) * m2
    BY <2>0
  <2>4. (m1 * p2) * d = ((-p1) * m2) * d
    BY <2>0, <2>1, <2>2, <2>3
  <2> DEFINE u == m1 * p2  v == (-p1) * m2
  <2>5. u \in Int /\ v \in Int /\ u * d = v * d
    BY <2>0, <2>4
  <2> HIDE DEF u, v
  <2>6. u = v
    BY <2>5
  <2> QED BY <2>6 DEF u, v, p1, p2, m1, m2
<1>9. m[1] * BoundNeg(p)[2] = BoundNeg(p)[1] * m[2]
  BY <1>5, <1>7
<1>10. m = BoundNeg(p)
  BY <1>2, <1>3, <1>9, SameFrac DEF p, m
<1> QED BY <1>10 DEF p, m

LEMMA FracOps ==
  ASSUME NEW q, NEW r, IsFrac(q), IsFrac(r)
  PROVE  /\ IsFrac(FracAdd(q, r)) /\ IsFrac(FracMul(q, r))
         /\ r[1] # 0 => IsFrac(FracDiv(q, r))
         /\ BoundNeg(FracAdd(q, r)) = FracAdd(BoundNeg(q), BoundNeg(r))
         /\ BoundNeg(FracMul(q, r)) = FracMul(BoundNeg(q), r)
         /\ BoundNeg(FracMul(q, r)) = FracMul(q, BoundNeg(r))
         /\ r[1] # 0 => BoundNeg(FracDiv(q, r)) = FracDiv(BoundNeg(q), r)
<1>1. /\ q[1] \in Int /\ q[2] \in Int /\ q[2] > 0 /\ r[1] \in Int /\ r[2] \in Int /\ r[2] > 0
  BY DEF IsFrac
<1>2. \A x, y \in Int : x > 0 /\ y > 0 => x * y > 0 /\ x * y \in Int
  OBVIOUS
<1>3. q[2] * r[2] > 0 /\ (r[1] > 0 => q[2] * r[1] > 0) /\ (r[1] < 0 => q[2] * (-r[1]) > 0)
  BY <1>1, <1>2
<1>4. IsFrac(FracAdd(q, r)) /\ IsFrac(FracMul(q, r))
  BY <1>1, <1>3, NumIs DEF FracAdd, FracMul
<1>5. r[1] # 0 => IsFrac(FracDiv(q, r))
  BY <1>1, <1>3, NumIs DEF FracDiv
<1>6. /\ BoundNeg(q)[1] = -q[1] /\ BoundNeg(q)[2] = q[2]
      /\ BoundNeg(r)[1] = -r[1] /\ BoundNeg(r)[2] = r[2]
  BY DEF BoundNeg
<1>7. \A x, y \in Int : (-x) * y = -(x * y) /\ x * (-y) = -(x * y)
  OBVIOUS
<1>a. /\ q[1] * r[2] + r[1] * q[2] \in Int /\ q[1] * r[1] \in Int /\ q[1] * r[2] \in Int
      /\ q[2] * r[2] \in Int /\ q[2] * r[1] \in Int /\ q[2] * (-r[1]) \in Int /\ -(q[1] * r[2]) \in Int
  BY <1>1
<1>8. BoundNeg(FracAdd(q, r)) = FracAdd(BoundNeg(q), BoundNeg(r))
  <2>1. (-q[1]) * r[2] + (-r[1]) * q[2] = -(q[1] * r[2] + r[1] * q[2])
    BY <1>1
  <2> QED BY <1>3, <1>6, <1>a, <2>1, NumNeg DEF FracAdd
<1>9. BoundNeg(FracMul(q, r)) = FracMul(BoundNeg(q), r) /\ BoundNeg(FracMul(q, r)) = FracMul(q, BoundNeg(r))
  <2>1. (-q[1]) * r[1] = -(q[1] * r[1]) /\ q[1] * (-r[1]) = -(q[1] * r[1])
    BY <1>1
  <2> QED BY <1>3, <1>6, <1>a, <2>1, NumNeg DEF FracMul
<1>10. r[1] # 0 => BoundNeg(FracDiv(q, r)) = FracDiv(BoundNeg(q), r)
  <2>1. (-q[1]) * r[2] = -(q[1] * r[2])
    BY <1>1
  <2>2. CASE r[1] > 0
    BY <1>3, <1>6, <1>a, <2>1, <2>2, NumNeg DEF FracDiv
  <2>3. CASE r[1] < 0
    BY <1>3, <1>6, <1>a, <2>1, <2>3, NumNeg DEF FracDiv
  <2> QED BY <1>1, <2>2, <2>3
<1> QED BY <1>4, <1>5, <1>8, <1>9, <1>10

(* Num does not change what is below a fraction.                           *)
LEMMA AtMostNum ==
  ASSUME NEW n \in Int, NEW d \in Int, d > 0
  PROVE  /\ IsFrac(Num(n, d))
         /\ \A q : IsFrac(q) => (AtMost(q, Num(n, d)) <=> q[1] * d <= n * q[2])
         /\ Num(n, d)[1] >= 0 <=> n >= 0
         /\ Num(n, d)[1] <= 0 <=> n <= 0
<1>1. IsFrac(Num(n, d)) /\ Num(n, d)[1] * d = n * Num(n, d)[2]
  BY NumIs
<1> DEFINE r1 == Num(n, d)[1]
           r2 == Num(n, d)[2]
<1>2. r1 \in Int /\ r2 \in Int /\ r2 > 0 /\ r1 * d = n * r2
  BY <1>1 DEF IsFrac
<1> HIDE DEF r1, r2
<1>3. \A q1, q2 \in Int : q2 > 0 => (q1 * r2 <= r1 * q2 <=> q1 * d <= n * q2)
  <2> SUFFICES ASSUME NEW q1 \in Int, NEW q2 \in Int, q2 > 0
               PROVE  q1 * r2 <= r1 * q2 <=> q1 * d <= n * q2
    OBVIOUS
  <2>1. (q1 * r2) * d <= (r1 * q2) * d <=> q1 * r2 <= r1 * q2
    BY <1>2
  <2>2. (q1 * d) * r2 <= (n * q2) * r2 <=> q1 * d <= n * q2
    BY <1>2
  <2>3. (q1 * r2) * d = (q1 * d) * r2 /\ (r1 * q2) * d = (n * q2) * r2
    BY <1>2
  <2> QED BY <2>1, <2>2, <2>3
<1>4. (r1 >= 0 <=> n >= 0) /\ (r1 <= 0 <=> n <= 0)
  BY <1>2
<1> QED BY <1>1, <1>3, <1>4 DEF r1, r2, AtMost, IsFrac

(* Below anything, it is what it was made from.                            *)
LEMMA NumAtMost ==
  ASSUME NEW n \in Int, NEW d \in Int, d > 0, NEW x \in Int, NEW y \in Int
  PROVE  Num(n, d)[1] * y <= x * Num(n, d)[2] <=> n * y <= x * d
<1>1. IsFrac(Num(n, d)) /\ Num(n, d)[1] * d = n * Num(n, d)[2]
  BY NumIs
<1> DEFINE r1 == Num(n, d)[1]
           r2 == Num(n, d)[2]
<1>2. r1 \in Int /\ r2 \in Int /\ r2 > 0 /\ r1 * d = n * r2
  BY <1>1 DEF IsFrac
<1> HIDE DEF r1, r2
<1>3. (r1 * y) * d <= (x * r2) * d <=> r1 * y <= x * r2
  BY <1>2
<1>4. (n * y) * r2 <= (x * d) * r2 <=> n * y <= x * d
  BY <1>2
<1>5. (r1 * y) * d = (r1 * d) * y /\ (n * r2) * y = (n * y) * r2 /\ (x * r2) * d = (x * d) * r2
  BY <1>2
<1>6. (r1 * y) * d = (n * y) * r2
  BY <1>2, <1>5
<1> QED BY <1>3, <1>4, <1>5, <1>6 DEF r1, r2

LEMMA FracParts ==
  ASSUME NEW q, NEW r, IsFrac(q), IsFrac(r)
  PROVE  /\ \A x, y \in Int : FracAdd(q, r)[1] * y <= x * FracAdd(q, r)[2]
                                <=> (q[1] * r[2] + r[1] * q[2]) * y <= x * (q[2] * r[2])
         /\ \A x, y \in Int : FracMul(q, r)[1] * y <= x * FracMul(q, r)[2]
                                <=> (q[1] * r[1]) * y <= x * (q[2] * r[2])
<1>1. /\ q[1] \in Int /\ q[2] \in Int /\ q[2] > 0 /\ r[1] \in Int /\ r[2] \in Int /\ r[2] > 0
  BY DEF IsFrac
<1> DEFINE n == q[1] * r[2] + r[1] * q[2]  m == q[1] * r[1]  d == q[2] * r[2]
<1>2. n \in Int /\ m \in Int /\ d \in Int /\ d > 0
  BY <1>1
<1>3. FracAdd(q, r) = Num(n, d) /\ FracMul(q, r) = Num(m, d)
  BY DEF FracAdd, FracMul
<1> HIDE DEF n, m, d
<1>4. \A x, y \in Int : FracAdd(q, r)[1] * y <= x * FracAdd(q, r)[2] <=> n * y <= x * d
  BY <1>2, <1>3, NumAtMost
<1>5. \A x, y \in Int : FracMul(q, r)[1] * y <= x * FracMul(q, r)[2] <=> m * y <= x * d
  BY <1>2, <1>3, NumAtMost
<1> QED BY <1>4, <1>5 DEF n, m, d

LEMMA FracDivParts ==
  ASSUME NEW q, NEW r, IsFrac(q), IsFrac(r), r[1] > 0
  PROVE  \A x, y \in Int : FracDiv(q, r)[1] * y <= x * FracDiv(q, r)[2]
                           <=> (q[1] * r[2]) * y <= x * (q[2] * r[1])
<1>1. /\ q[1] \in Int /\ q[2] \in Int /\ q[2] > 0 /\ r[1] \in Int /\ r[2] \in Int /\ r[2] > 0
  BY DEF IsFrac
<1> DEFINE n == q[1] * r[2]  d == q[2] * r[1]
<1>2. n \in Int /\ d \in Int /\ d > 0
  BY <1>1
<1>3. FracDiv(q, r) = Num(n, d)
  BY DEF FracDiv
<1> HIDE DEF n, d
<1>4. \A x, y \in Int : FracDiv(q, r)[1] * y <= x * FracDiv(q, r)[2] <=> n * y <= x * d
  BY <1>2, <1>3, NumAtMost
<1> QED BY <1>4 DEF n, d

(* Of integers, sums, differences and products are integers.               *)
LEMMA IntOps ==
  ASSUME NEW a \in Int, NEW b \in Int
  PROVE  /\ FracAdd(IntBound(a), IntBound(b)) = IntBound(a + b)
         /\ FracAdd(IntBound(a), BoundNeg(IntBound(b))) = IntBound(a - b)
         /\ FracMul(IntBound(a), IntBound(b)) = IntBound(a * b)
<1>1. a * 1 + b * 1 = a + b /\ a * 1 + (-b) * 1 = a - b /\ 1 * 1 = 1 /\ a * b \in Int
  OBVIOUS
<1> QED BY <1>1, NumOfInteger DEF FracAdd, FracMul, IntBound, BoundNeg

LEMMA NumOfZero ==
  ASSUME NEW d \in Int, d > 0
  PROVE  Num(0, d) = Zero
<1>1. IsFrac(Num(0, d)) /\ Num(0, d)[1] * d = 0 * Num(0, d)[2]
  BY NumIs
<1>2. Num(0, d)[1] \in Int /\ Num(0, d)[2] \in Int /\ Num(0, d)[1] = 0
  BY <1>1 DEF IsFrac
<1>3. IsFrac(Zero) /\ Zero[1] = 0 /\ Zero[2] = 1
  BY IntBoundIs DEF Zero
<1> QED BY <1>1, <1>2, <1>3, SameFrac

LEMMA NumQuotient ==
  ASSUME NEW n \in Int, NEW d \in Int, d > 0
  PROVE  Num(n, d)[1] \div Num(n, d)[2] = n \div d
<1>1. PICK g \in Nat, k \in Int, l \in Int :
         /\ g > 0 /\ n = k * g /\ d = l * g /\ l > 0
         /\ Num(n, d) = <<k, l>> /\ Num(k, l) = <<k, l>>
  BY NumLowest
<1> DEFINE u == k \div l  r == k % l
<1>2. u \in Int /\ r \in Int /\ 0 <= r /\ r < l /\ k = u * l + r
  BY <1>1
<1> HIDE DEF u, r
<1>3. k * g = u * (l * g) + r * g
  BY <1>1, <1>2
<1>4. 0 <= r * g /\ r * g < l * g
  BY <1>1, <1>2
<1> DEFINE R == r * g
<1>5. R \in Int /\ 0 <= R /\ R < d /\ n = u * d + R
  BY <1>1, <1>2, <1>3, <1>4
<1> HIDE DEF R
<1>6. (u * d + R) \div d = u
  BY <1>2, <1>5
<1> QED BY <1>1, <1>5, <1>6 DEF u

-----------------------------------------------------------------------------
(***************************************************************************)
(* Intervals.  In(q, a): the fraction q is in the interval a.              *)
(***************************************************************************)
In(q, a) == AtMost(q, a.sup) /\ AtMost(BoundNeg(q), a.inf)

LEMMA ItvIs ==
  ASSUME NEW inf, NEW sup, IsBound(inf), IsBound(sup)
  PROVE  IsItv(Itv(inf, sup)) /\ Itv(inf, sup).inf = inf /\ Itv(inf, sup).sup = sup
BY DEF IsItv, Itv

LEMMA BoundKinds ==
  ASSUME NEW b, IsBound(b)
  PROVE  /\ IsInfty(b) <=> b = PlusOo
         /\ ~IsInfty(b) <=> IsFrac(b)
         /\ b[1] \in Int /\ b[2] \in Int /\ b[2] >= 0
         /\ BoundSgn(b) < 0 => IsFrac(b)
         /\ BoundSgn(b) <= 0 => IsFrac(b)
         /\ BoundSgn(b) < 0 <=> b[1] < 0
         /\ BoundSgn(b) > 0 <=> b[1] > 0
         /\ BoundSgn(b) = 0 <=> b[1] = 0
         /\ BoundSgn(b) \in {-1, 0, 1}
<1>1. CASE b = PlusOo
  <2>1. b[1] = 1 /\ b[2] = 0 /\ ~IsFrac(b)
    BY <1>1 DEF PlusOo, Infty, IsFrac
  <2> QED BY <1>1, <2>1 DEF IsInfty, BoundSgn, SgnOf
<1>2. CASE IsFrac(b)
  <2>1. b[1] \in Int /\ b[2] \in Int /\ b[2] > 0 /\ b # PlusOo
    BY <1>2 DEF PlusOo, Infty, IsFrac
  <2> QED BY <1>2, <2>1 DEF IsInfty, BoundSgn, SgnOf
<1> QED BY <1>1, <1>2 DEF IsBound

(* An interval is not empty when a fraction is in it, and only then.       *)
LEMMA NonEmptyIs ==
  ASSUME NEW a, IsItv(a)
  PROVE  /\ \A q : IsFrac(q) /\ In(q, a) => ~IsEmptyItv(a)
         /\ ~IsEmptyItv(a) => \E q : IsFrac(q) /\ In(q, a)
<1>1. IsBound(a.inf) /\ IsBound(a.sup)
  BY DEF IsItv
<1>2. CASE IsFrac(a.inf) /\ IsFrac(a.sup)
  <2> DEFINE low == BoundNeg(a.inf)
             high == a.sup
  <2>1. IsFrac(low) /\ IsFrac(high) /\ IsBound(low) /\ IsBound(high)
    BY <1>2, FracIs
  <2>2. IsEmptyItv(a) <=> ~AtMost(low, high)
    <3>1. BoundCmp(high, low) \in Int /\ (BoundCmp(high, low) >= 0 <=> BoundCmp(low, high) <= 0)
      BY <2>1, BoundCmpIs
    <3>2. BoundCmp(low, high) <= 0 <=> AtMost(low, high)
      BY <2>1, BoundCmpIs
    <3>3. IsEmptyItv(a) <=> BoundCmp(high, low) < 0
      BY <1>2, FracIs DEF IsEmptyItv
    <3> HIDE DEF low, high
    <3> QED BY <3>1, <3>2, <3>3
  <2>3. /\ low[1] \in Int /\ low[2] \in Int /\ low[2] > 0 /\ high[1] \in Int /\ high[2] \in Int /\ high[2] > 0
        /\ a.inf[1] = -low[1] /\ a.inf[2] = low[2]
    BY <1>2 DEF IsFrac, BoundNeg
  <2>4. ASSUME NEW q, IsFrac(q)
        PROVE  In(q, a) <=> q[1] * high[2] <= high[1] * q[2] /\ low[1] * q[2] <= q[1] * low[2]
    <3>1. q[1] \in Int /\ q[2] \in Int /\ q[2] > 0
      BY <2>4 DEF IsFrac
    <3>2. BoundNeg(q)[1] = -q[1] /\ BoundNeg(q)[2] = q[2]
      BY DEF BoundNeg
    <3>3. \A x, y, u, v \in Int : (-x) * v <= (-u) * y <=> u * y <= x * v
      OBVIOUS
    <3>4. AtMost(BoundNeg(q), a.inf) <=> (-q[1]) * low[2] <= (-low[1]) * q[2]
      BY <2>3, <3>2 DEF AtMost
    <3>5. AtMost(q, a.sup) <=> q[1] * high[2] <= high[1] * q[2]
      BY DEF AtMost
    <3> HIDE DEF low, high
    <3> QED BY <3>1, <3>3, <3>4, <3>5, <2>3 DEF In
  <2>5. AtMost(low, high) <=> low[1] * high[2] <= high[1] * low[2]
    BY DEF AtMost
  <2> HIDE DEF low, high
  <2>6. ASSUME NEW q, IsFrac(q), In(q, a)
        PROVE  AtMost(low, high)
    <3>1. q[1] \in Int /\ q[2] \in Int /\ q[2] > 0
      BY <2>6 DEF IsFrac
    <3>2. q[1] * high[2] <= high[1] * q[2] /\ low[1] * q[2] <= q[1] * low[2]
      BY <2>4, <2>6
    <3>3. AtMost(low, q) /\ AtMost(q, high) /\ IsBound(q)
      BY <2>6, <3>2, FracIs DEF AtMost
    <3>4. BoundCmp(q, high) <= 0
      BY <2>1, <2>6, <3>3, BoundCmpIs
    <3> QED BY <2>1, <2>6, <3>3, <3>4, AtMostTransitive
  <2>7. AtMost(low, high) => In(high, a)
    BY <2>1, <2>3, <2>4, <2>5
  <2> QED BY <2>1, <2>2, <2>6, <2>7
<1>3. CASE ~(IsFrac(a.inf) /\ IsFrac(a.sup))
  <2>1. ~IsEmptyItv(a)
    BY <1>1, <1>3, BoundKinds DEF IsEmptyItv
  <2>2. CASE a.inf = PlusOo /\ a.sup = PlusOo
    <3>1. IsFrac(Zero) /\ IsFrac(BoundNeg(Zero))
      BY IntBoundIs, FracIs DEF Zero
    <3> QED BY <2>2, <2>1, <3>1, PlusOoIs DEF In
  <2>3. CASE a.inf = PlusOo /\ IsFrac(a.sup)
    <3>1. IsFrac(BoundNeg(a.sup)) /\ AtMost(BoundNeg(a.sup), a.inf)
      BY <2>3, FracIs, PlusOoIs
    <3>2. AtMost(a.sup, a.sup)
      BY <2>3 DEF AtMost, IsFrac
    <3> QED BY <2>3, <2>1, <3>1, <3>2 DEF In
  <2>4. CASE IsFrac(a.inf) /\ a.sup = PlusOo
    <3>1. IsFrac(BoundNeg(a.inf)) /\ AtMost(BoundNeg(a.inf), a.sup) /\ BoundNeg(BoundNeg(a.inf)) = a.inf
      BY <2>4, FracIs, PlusOoIs
    <3>2. AtMost(a.inf, a.inf)
      BY <2>4 DEF AtMost, IsFrac
    <3> QED BY <2>4, <2>1, <3>1, <3>2 DEF In
  <2> QED BY <1>1, <1>3, <2>2, <2>3, <2>4 DEF IsBound
<1> QED BY <1>2, <1>3

LEMMA NegIs ==
  ASSUME NEW q, IsFrac(q)
  PROVE  /\ IsFrac(BoundNeg(q)) /\ BoundNeg(BoundNeg(q)) = q
         /\ BoundNeg(q)[1] = -q[1] /\ BoundNeg(q)[2] = q[2]
         /\ q[1] \in Int /\ q[2] \in Int /\ q[2] > 0
BY FracIs DEF BoundNeg

(* The side of zero that a fraction below a bound is on.                   *)
LEMMA AtMostSign ==
  ASSUME NEW q, NEW b, IsFrac(q), IsBound(b), AtMost(q, b)
  PROVE  /\ b[1] <= 0 => q[1] <= 0
         /\ b[1] < 0 => q[1] < 0
         /\ q[1] >= 0 => b[1] >= 0
         /\ q[1] > 0 => b[1] > 0
<1>1. q[1] \in Int /\ q[2] \in Int /\ q[2] > 0
  BY DEF IsFrac
<1>2. CASE b = PlusOo
  BY <1>2, PlusOoIs
<1>3. CASE IsFrac(b)
  <2>1. b[1] \in Int /\ b[2] \in Int /\ b[2] > 0
    BY <1>3 DEF IsFrac
  <2>2. \A q1, q2, b1, b2 \in Int : q2 > 0 /\ b2 > 0 /\ q1 * b2 <= b1 * q2 =>
           (b1 <= 0 => q1 <= 0) /\ (b1 < 0 => q1 < 0) /\ (q1 >= 0 => b1 >= 0) /\ (q1 > 0 => b1 > 0)
    OBVIOUS
  <2>3. q[1] * b[2] <= b[1] * q[2]
    BY DEF AtMost
  <2> QED BY <1>1, <2>1, <2>2, <2>3
<1> QED BY <1>2, <1>3 DEF IsBound

LEMMA AddUp ==
  ASSUME NEW b, NEW c, IsBound(b), IsBound(c)
  PROVE  /\ IsBound(BoundAdd(b, c))
         /\ IsInfty(BoundAdd(b, c)) <=> IsInfty(b) \/ IsInfty(c)
         /\ \A q, r : IsFrac(q) /\ IsFrac(r) /\ AtMost(q, b) /\ AtMost(r, c) =>
                         AtMost(FracAdd(q, r), BoundAdd(b, c))
<1>1. CASE b = PlusOo \/ c = PlusOo
  <2>1. BoundAdd(b, c) = PlusOo
    <3>1. (IsInfty(b) => BoundSgn(b) = 1) /\ (IsInfty(c) => BoundSgn(c) = 1)
      BY BoundKinds, PlusOoIs
    <3>2. IsInfty(b) \/ IsInfty(c)
      BY <1>1, PlusOoIs
    <3> QED BY <3>1, <3>2 DEF BoundAdd, PlusOo
  <2> QED BY <1>1, <2>1, PlusOoIs, FracOps
<1>2. CASE IsFrac(b) /\ IsFrac(c)
  <2>1. /\ b[1] \in Int /\ b[2] \in Int /\ b[2] > 0 /\ ~IsInfty(b)
        /\ c[1] \in Int /\ c[2] \in Int /\ c[2] > 0 /\ ~IsInfty(c)
    BY <1>2, FracIs
  <2> DEFINE n == b[1] * c[2] + c[1] * b[2]
             d == b[2] * c[2]
  <2>2. n \in Int /\ d \in Int /\ d > 0
    BY <2>1
  <2>3. BoundAdd(b, c) = Num(n, d)
    BY <2>1 DEF BoundAdd
  <2>4. ASSUME NEW q, NEW r, IsFrac(q), IsFrac(r), AtMost(q, b), AtMost(r, c)
        PROVE  FracAdd(q, r)[1] * d <= n * FracAdd(q, r)[2]
    <3>1. q[1] \in Int /\ q[2] \in Int /\ q[2] > 0 /\ r[1] \in Int /\ r[2] \in Int /\ r[2] > 0
      BY <2>4 DEF IsFrac
    <3>2. q[1] * b[2] <= b[1] * q[2] /\ r[1] * c[2] <= c[1] * r[2]
      BY <2>4 DEF AtMost
    <3>4. \A q1, q2, r1, r2, b1, b2, c1, c2 \in Int :
             q2 > 0 /\ r2 > 0 /\ b2 > 0 /\ c2 > 0 /\ q1 * b2 <= b1 * q2 /\ r1 * c2 <= c1 * r2
               => (q1 * r2 + r1 * q2) * (b2 * c2) <= (b1 * c2 + c1 * b2) * (q2 * r2)
      <4> SUFFICES ASSUME NEW q1 \in Int, NEW q2 \in Int, NEW r1 \in Int, NEW r2 \in Int,
                          NEW b1 \in Int, NEW b2 \in Int, NEW c1 \in Int, NEW c2 \in Int,
                          q2 > 0, r2 > 0, b2 > 0, c2 > 0, q1 * b2 <= b1 * q2, r1 * c2 <= c1 * r2
                   PROVE  (q1 * r2 + r1 * q2) * (b2 * c2) <= (b1 * c2 + c1 * b2) * (q2 * r2)
        OBVIOUS
      <4>1. (q1 * b2) * (r2 * c2) <= (b1 * q2) * (r2 * c2)
        <5>1. r2 * c2 > 0
          OBVIOUS
        <5> QED BY <5>1
      <4>2. (r1 * c2) * (q2 * b2) <= (c1 * r2) * (q2 * b2)
        <5>1. q2 * b2 > 0
          OBVIOUS
        <5> QED BY <5>1
      <4>3. (q1 * r2 + r1 * q2) * (b2 * c2) = (q1 * b2) * (r2 * c2) + (r1 * c2) * (q2 * b2)
        OBVIOUS
      <4>4. (b1 * c2 + c1 * b2) * (q2 * r2) = (b1 * q2) * (r2 * c2) + (c1 * r2) * (q2 * b2)
        OBVIOUS
      <4> DEFINE A == (q1 * b2) * (r2 * c2)  B == (b1 * q2) * (r2 * c2)
                 U == (r1 * c2) * (q2 * b2)  V == (c1 * r2) * (q2 * b2)
      <4>5. A \in Int /\ B \in Int /\ U \in Int /\ V \in Int
        OBVIOUS
      <4> HIDE DEF A, B, U, V
      <4>6. A + U <= B + V
        BY <4>1, <4>2, <4>5 DEF A, B, U, V
      <4> QED BY <4>3, <4>4, <4>6 DEF A, B, U, V
    <3>5. (q[1] * r[2] + r[1] * q[2]) * d <= n * (q[2] * r[2])
      BY <2>1, <3>1, <3>2, <3>4
    <3> HIDE DEF n, d
    <3> QED BY <2>2, <2>4, <3>5, FracParts
  <2> HIDE DEF n, d
  <2>5. IsFrac(Num(n, d)) /\ ~IsInfty(Num(n, d)) /\ IsBound(Num(n, d))
    BY <2>2, AtMostNum, FracIs
  <2> QED BY <2>1, <2>2, <2>3, <2>4, <2>5, AtMostNum, FracOps
<1> QED BY <1>1, <1>2 DEF IsBound

(* Below a product of bounds that are not negative.                        *)
LEMMA MulUp ==
  ASSUME NEW b, NEW c, IsBound(b), IsBound(c), b[1] >= 0, c[1] >= 0
  PROVE  /\ IsBound(BoundMul(b, c))
         /\ \A q, r : IsFrac(q) /\ IsFrac(r) /\ r[1] >= 0 /\ AtMost(q, b) /\ AtMost(r, c) =>
                         AtMost(FracMul(q, r), BoundMul(b, c))
<1>1. CASE b[1] = 0 \/ c[1] = 0
  <2>1. BoundMul(b, c) = Zero
    BY <1>1, BoundKinds DEF BoundMul
  <2>2. IsBound(Zero) /\ Zero[1] = 0 /\ Zero[2] = 1
    BY IntBoundIs DEF Zero
  <2>3. ASSUME NEW q, NEW r, IsFrac(q), IsFrac(r), r[1] >= 0, AtMost(q, b), AtMost(r, c)
        PROVE  AtMost(FracMul(q, r), Zero)
    <3>1. q[1] \in Int /\ q[2] \in Int /\ q[2] > 0 /\ r[1] \in Int /\ r[2] \in Int /\ r[2] > 0
      BY <2>3 DEF IsFrac
    <3>2. q[1] <= 0 \/ r[1] = 0
      BY <1>1, <2>3, <3>1, AtMostSign
    <3>3. \A x, y \in Int : y >= 0 /\ (x <= 0 \/ y = 0) => x * y <= 0
      OBVIOUS
    <3>4. q[1] * r[1] <= 0 /\ q[1] * r[1] \in Int /\ q[2] * r[2] \in Int
      BY <2>3, <3>1, <3>2, <3>3
    <3>5. (q[1] * r[1]) * 1 <= 0 * (q[2] * r[2])
      BY <3>4
    <3> QED BY <2>2, <2>3, <3>5, FracParts DEF AtMost
  <2> QED BY <2>1, <2>2, <2>3
<1>2. CASE b[1] # 0 /\ c[1] # 0 /\ (b = PlusOo \/ c = PlusOo)
  <2>1. BoundSgn(b) = 1 /\ BoundSgn(c) = 1 /\ (IsInfty(b) \/ IsInfty(c))
    BY <1>2, BoundKinds
  <2>2. BoundMul(b, c) = PlusOo
    BY <2>1 DEF BoundMul, PlusOo
  <2> QED BY <2>2, PlusOoIs, FracOps
<1>3. CASE b[1] # 0 /\ c[1] # 0 /\ IsFrac(b) /\ IsFrac(c)
  <2>1. /\ b[1] \in Int /\ b[2] \in Int /\ b[2] > 0 /\ ~IsInfty(b) /\ b[1] > 0
        /\ c[1] \in Int /\ c[2] \in Int /\ c[2] > 0 /\ ~IsInfty(c) /\ c[1] > 0
        /\ BoundSgn(b) # 0 /\ BoundSgn(c) # 0
    BY <1>3, FracIs, BoundKinds
  <2> DEFINE n == b[1] * c[1]
             d == b[2] * c[2]
  <2>2. n \in Int /\ d \in Int /\ d > 0
    BY <2>1
  <2>3. BoundMul(b, c) = Num(n, d)
    BY <2>1 DEF BoundMul
  <2>4. ASSUME NEW q, NEW r, IsFrac(q), IsFrac(r), r[1] >= 0, AtMost(q, b), AtMost(r, c)
        PROVE  FracMul(q, r)[1] * d <= n * FracMul(q, r)[2]
    <3>1. q[1] \in Int /\ q[2] \in Int /\ q[2] > 0 /\ r[1] \in Int /\ r[2] \in Int /\ r[2] > 0
      BY <2>4 DEF IsFrac
    <3>2. q[1] * b[2] <= b[1] * q[2] /\ r[1] * c[2] <= c[1] * r[2]
      BY <2>4 DEF AtMost
    <3>4. \A q1, q2, r1, r2, b1, b2, c1, c2 \in Int :
             q2 > 0 /\ r2 > 0 /\ b2 > 0 /\ c2 > 0 /\ r1 >= 0 /\ b1 > 0
               /\ q1 * b2 <= b1 * q2 /\ r1 * c2 <= c1 * r2
               => (q1 * r1) * (b2 * c2) <= (b1 * c1) * (q2 * r2)
      <4> SUFFICES ASSUME NEW q1 \in Int, NEW q2 \in Int, NEW r1 \in Int, NEW r2 \in Int,
                          NEW b1 \in Int, NEW b2 \in Int, NEW c1 \in Int, NEW c2 \in Int,
                          q2 > 0, r2 > 0, b2 > 0, c2 > 0, r1 >= 0, b1 > 0,
                          q1 * b2 <= b1 * q2, r1 * c2 <= c1 * r2
                   PROVE  (q1 * r1) * (b2 * c2) <= (b1 * c1) * (q2 * r2)
        OBVIOUS
      <4>1. (q1 * b2) * (r1 * c2) <= (b1 * q2) * (r1 * c2)
        <5>1. r1 * c2 >= 0
          OBVIOUS
        <5> QED BY <5>1
      <4>2. (b1 * q2) * (r1 * c2) <= (b1 * q2) * (c1 * r2)
        <5>1. b1 * q2 > 0
          OBVIOUS
        <5> QED BY <5>1
      <4>3. (q1 * r1) * (b2 * c2) = (q1 * b2) * (r1 * c2)
        OBVIOUS
      <4>4. (b1 * c1) * (q2 * r2) = (b1 * q2) * (c1 * r2)
        OBVIOUS
      <4> QED BY <4>1, <4>2, <4>3, <4>4
    <3>5. (q[1] * r[1]) * d <= n * (q[2] * r[2])
      BY <2>1, <2>4, <3>1, <3>2, <3>4
    <3> HIDE DEF n, d
    <3> QED BY <2>2, <2>4, <3>5, FracParts
  <2> HIDE DEF n, d
  <2>5. IsFrac(Num(n, d)) /\ IsBound(Num(n, d))
    BY <2>2, AtMostNum, FracIs
  <2> QED BY <2>2, <2>3, <2>4, <2>5, AtMostNum, FracOps
<1> QED BY <1>1, <1>2, <1>3 DEF IsBound

(* Below a product of a bound that is not positive and one from below.     *)
LEMMA MulDown ==
  ASSUME NEW b, NEW c, IsBound(b), IsBound(c), b[1] <= 0, c[1] <= 0
  PROVE  /\ IsBound(BoundMul(b, BoundNeg(c)))
         /\ \A q, r : IsFrac(q) /\ IsFrac(r) /\ AtMost(q, b) /\ AtMost(BoundNeg(r), c) =>
                         AtMost(FracMul(q, r), BoundMul(b, BoundNeg(c)))
<1>1. IsFrac(b) /\ IsFrac(c)
  BY BoundKinds, PlusOoIs DEF IsBound
<1>2. /\ b[1] \in Int /\ b[2] \in Int /\ b[2] > 0 /\ ~IsInfty(b)
      /\ c[1] \in Int /\ c[2] \in Int /\ c[2] > 0
      /\ IsFrac(BoundNeg(c)) /\ IsBound(BoundNeg(c)) /\ ~IsInfty(BoundNeg(c))
      /\ BoundNeg(c)[1] = -c[1] /\ BoundNeg(c)[2] = c[2]
  BY <1>1, FracIs, NegIs
<1> DEFINE n == b[1] * (-c[1])
           d == b[2] * c[2]
<1>3. n \in Int /\ d \in Int /\ d > 0
  BY <1>2
<1>4. ASSUME NEW q, NEW r, IsFrac(q), IsFrac(r), AtMost(q, b), AtMost(BoundNeg(r), c)
      PROVE  FracMul(q, r)[1] * d <= n * FracMul(q, r)[2]
  <2>1. q[1] \in Int /\ q[2] \in Int /\ q[2] > 0 /\ r[1] \in Int /\ r[2] \in Int /\ r[2] > 0
    BY <1>4 DEF IsFrac
  <2>2. q[1] * b[2] <= b[1] * q[2] /\ (-r[1]) * c[2] <= c[1] * r[2]
    BY <1>4, NegIs DEF AtMost
  <2>4. \A q1, q2, r1, r2, b1, b2, c1, c2 \in Int :
           q2 > 0 /\ r2 > 0 /\ b2 > 0 /\ c2 > 0 /\ b1 <= 0 /\ c1 <= 0
             /\ q1 * b2 <= b1 * q2 /\ (-r1) * c2 <= c1 * r2
             => (q1 * r1) * (b2 * c2) <= (b1 * (-c1)) * (q2 * r2)
    <3> SUFFICES ASSUME NEW q1 \in Int, NEW q2 \in Int, NEW r1 \in Int, NEW r2 \in Int,
                        NEW b1 \in Int, NEW b2 \in Int, NEW c1 \in Int, NEW c2 \in Int,
                        q2 > 0, r2 > 0, b2 > 0, c2 > 0, b1 <= 0, c1 <= 0,
                        q1 * b2 <= b1 * q2, (-r1) * c2 <= c1 * r2
                 PROVE  (q1 * r1) * (b2 * c2) <= (b1 * (-c1)) * (q2 * r2)
      OBVIOUS
    <3>0. r1 >= 0
      OBVIOUS
    <3>1. (q1 * b2) * (r1 * c2) <= (b1 * q2) * (r1 * c2)
      <4>1. r1 * c2 >= 0
        BY <3>0
      <4> QED BY <4>1
    <3>2. (b1 * q2) * (r1 * c2) <= (b1 * q2) * ((-c1) * r2)
      <4>1. b1 * q2 <= 0 /\ (-c1) * r2 <= r1 * c2
        OBVIOUS
      <4> QED BY <4>1
    <3>3. (q1 * r1) * (b2 * c2) = (q1 * b2) * (r1 * c2)
      OBVIOUS
    <3>4. (b1 * (-c1)) * (q2 * r2) = (b1 * q2) * ((-c1) * r2)
      OBVIOUS
    <3> QED BY <3>1, <3>2, <3>3, <3>4
  <2>5. (q[1] * r[1]) * d <= n * (q[2] * r[2])
    BY <1>2, <2>1, <2>2, <2>4
  <2> HIDE DEF n, d
  <2> QED BY <1>3, <1>4, <2>5, FracParts
<1>5. CASE b[1] # 0 /\ c[1] # 0
  <2>1. BoundSgn(b) # 0 /\ BoundSgn(BoundNeg(c)) # 0
    BY <1>1, <1>2, <1>5, BoundKinds DEF BoundSgn, SgnOf
  <2>2. BoundMul(b, BoundNeg(c)) = Num(n, d)
    BY <1>2, <2>1 DEF BoundMul
  <2> HIDE DEF n, d
  <2>3. IsFrac(Num(n, d)) /\ IsBound(Num(n, d))
    BY <1>3, AtMostNum, FracIs
  <2> QED BY <1>3, <1>4, <2>2, <2>3, AtMostNum, FracOps
<1>6. CASE b[1] = 0 \/ c[1] = 0
  <2>1. BoundMul(b, BoundNeg(c)) = Zero
    BY <1>2, <1>6 DEF BoundMul, BoundSgn, SgnOf
  <2>2. IsBound(Zero) /\ Zero[1] = 0 /\ Zero[2] = 1 /\ n = 0
    BY <1>2, <1>6, IntBoundIs DEF Zero
  <2>3. ASSUME NEW q, NEW r, IsFrac(q), IsFrac(r), AtMost(q, b), AtMost(BoundNeg(r), c)
        PROVE  AtMost(FracMul(q, r), Zero)
    <3>1. IsFrac(FracMul(q, r)) /\ FracMul(q, r)[1] * d <= n * FracMul(q, r)[2]
      BY <1>4, <2>3, FracOps
    <3>2. FracMul(q, r)[1] \in Int /\ FracMul(q, r)[2] \in Int
      BY <3>1 DEF IsFrac
    <3> HIDE DEF n, d
    <3>3. FracMul(q, r)[1] <= 0
      BY <1>3, <2>2, <3>1, <3>2
    <3> QED BY <2>2, <3>2, <3>3 DEF AtMost
  <2> QED BY <2>1, <2>2, <2>3
<1> QED BY <1>5, <1>6

LEMMA ItvSides ==
  ASSUME NEW a, IsItv(a)
  PROVE  /\ IsBound(a.inf) /\ IsBound(a.sup)
         /\ Positive(a) <=> a.inf[1] <= 0
         /\ Negative(a) <=> a.sup[1] <= 0
         /\ IsItv(Swap(a)) /\ Swap(a).inf = a.sup /\ Swap(a).sup = a.inf
         /\ \A q : IsFrac(q) => (In(BoundNeg(q), Swap(a)) <=> In(q, a))
         /\ \A q : IsFrac(q) /\ In(q, a) =>
               /\ a.inf[1] <= 0 => q[1] >= 0 /\ a.sup[1] >= 0
               /\ a.sup[1] <= 0 => q[1] <= 0 /\ a.inf[1] >= 0
               /\ a.inf[1] < 0 => q[1] > 0 /\ a.sup[1] > 0
               /\ a.sup[1] < 0 => q[1] < 0 /\ a.inf[1] > 0
<1>1. IsBound(a.inf) /\ IsBound(a.sup)
  BY DEF IsItv
<1>2. (Positive(a) <=> a.inf[1] <= 0) /\ (Negative(a) <=> a.sup[1] <= 0)
  <2>1. a.inf[1] \in Int /\ a.sup[1] \in Int
    BY <1>1, BoundKinds
  <2> QED BY <2>1 DEF Positive, Negative, BoundSgn, SgnOf
<1>3. IsItv(Swap(a)) /\ Swap(a).inf = a.sup /\ Swap(a).sup = a.inf
  BY <1>1, ItvIs DEF Swap
<1>4. ASSUME NEW q, IsFrac(q)
      PROVE  In(BoundNeg(q), Swap(a)) <=> In(q, a)
  BY <1>3, <1>4, NegIs DEF In
<1>5. ASSUME NEW q, IsFrac(q), In(q, a)
      PROVE  /\ a.inf[1] <= 0 => q[1] >= 0 /\ a.sup[1] >= 0
             /\ a.sup[1] <= 0 => q[1] <= 0 /\ a.inf[1] >= 0
             /\ a.inf[1] < 0 => q[1] > 0 /\ a.sup[1] > 0
             /\ a.sup[1] < 0 => q[1] < 0 /\ a.inf[1] > 0
  <2>1. IsFrac(BoundNeg(q)) /\ BoundNeg(q)[1] = -q[1] /\ q[1] \in Int
    BY <1>5, NegIs
  <2>2. AtMost(q, a.sup) /\ AtMost(BoundNeg(q), a.inf)
    BY <1>5 DEF In
  <2>3. /\ a.sup[1] <= 0 => q[1] <= 0
        /\ a.sup[1] < 0 => q[1] < 0
        /\ q[1] >= 0 => a.sup[1] >= 0
        /\ q[1] > 0 => a.sup[1] > 0
    BY <1>1, <1>5, <2>2, AtMostSign
  <2>4. /\ a.inf[1] <= 0 => -q[1] <= 0
        /\ a.inf[1] < 0 => -q[1] < 0
        /\ -q[1] >= 0 => a.inf[1] >= 0
        /\ -q[1] > 0 => a.inf[1] > 0
    BY <1>1, <2>1, <2>2, AtMostSign
  <2> QED BY <2>1, <2>3, <2>4
<1> QED BY <1>1, <1>2, <1>3, <1>4, <1>5

LEMMA ItvAddIs ==
  ASSUME NEW a, NEW b, IsItv(a), IsItv(b)
  PROVE  /\ IsItv(ItvAdd(a, b)) /\ IsItv(ItvSub(a, b)) /\ IsItv(ItvNeg(a))
         /\ \A q, r : IsFrac(q) /\ IsFrac(r) /\ In(q, a) /\ In(r, b) =>
               /\ In(FracAdd(q, r), ItvAdd(a, b))
               /\ In(FracAdd(q, BoundNeg(r)), ItvSub(a, b))
<1>1. IsItv(ItvAdd(a, b)) /\ IsItv(ItvNeg(a))
  BY ItvIs, AddUp, ItvSides DEF ItvAdd, ItvNeg
<1>2. ItvSub(a, b) = ItvAdd(a, Swap(b))
  BY ItvSides DEF ItvSub, ItvAdd
<1>3. ASSUME NEW c, IsItv(c), NEW q, NEW r, IsFrac(q), IsFrac(r), In(q, a), In(r, c)
      PROVE  In(FracAdd(q, r), ItvAdd(a, c))
  <2>1. AtMost(FracAdd(q, r), BoundAdd(a.sup, c.sup))
    BY <1>3, AddUp, ItvSides DEF In
  <2>2. AtMost(FracAdd(BoundNeg(q), BoundNeg(r)), BoundAdd(a.inf, c.inf))
    BY <1>3, AddUp, ItvSides, NegIs DEF In
  <2> QED BY <1>3, <2>1, <2>2, FracOps DEF In, ItvAdd, Itv
<1>4. IsItv(Swap(b)) /\ IsItv(ItvAdd(a, Swap(b)))
  BY ItvIs, AddUp, ItvSides DEF ItvAdd
<1>5. ASSUME NEW q, NEW r, IsFrac(q), IsFrac(r), In(q, a), In(r, b)
      PROVE  In(FracAdd(q, BoundNeg(r)), ItvSub(a, b))
  BY <1>2, <1>3, <1>4, <1>5, ItvSides, NegIs
<1> QED BY <1>1, <1>2, <1>3, <1>4, <1>5

-----------------------------------------------------------------------------
(* Multiplication.                                                         *)
LEMMA BoundMulIs ==
  ASSUME NEW b, NEW c, IsBound(b), IsBound(c)
  PROVE  /\ BoundMul(b, c) = BoundMul(c, b)
         /\ BoundMul(BoundNeg(b), c) = BoundMul(b, BoundNeg(c))
<1>1. b[1] \in Int /\ b[2] \in Int /\ c[1] \in Int /\ c[2] \in Int
  BY BoundKinds
<1>2. \A x, y \in Int : x * y = y * x /\ (-x) * y = x * (-y)
  OBVIOUS
<1>3. b[1] * c[1] = c[1] * b[1] /\ b[2] * c[2] = c[2] * b[2] /\ (-b[1]) * c[1] = b[1] * (-c[1])
  BY <1>1, <1>2
<1>4. BoundSgn(b) \in {-1, 0, 1} /\ BoundSgn(c) \in {-1, 0, 1}
  BY BoundKinds
<1>5. BoundSgn(b) * BoundSgn(c) = BoundSgn(c) * BoundSgn(b)
  BY <1>4
<1>6. BoundMul(b, c) = BoundMul(c, b)
  BY <1>3, <1>5 DEF BoundMul
<1>7. /\ BoundNeg(b)[1] = -b[1] /\ BoundNeg(b)[2] = b[2]
      /\ BoundNeg(c)[1] = -c[1] /\ BoundNeg(c)[2] = c[2]
      /\ IsInfty(BoundNeg(b)) <=> IsInfty(b)
      /\ IsInfty(BoundNeg(c)) <=> IsInfty(c)
  BY DEF BoundNeg, IsInfty
<1>8. BoundSgn(BoundNeg(b)) = -BoundSgn(b) /\ BoundSgn(BoundNeg(c)) = -BoundSgn(c)
  BY <1>1, <1>7 DEF BoundSgn, SgnOf
<1>9. (-BoundSgn(b)) * BoundSgn(c) = BoundSgn(b) * (-BoundSgn(c))
  BY <1>4
<1>10. (-BoundSgn(b) = 0 <=> BoundSgn(b) = 0) /\ (-BoundSgn(c) = 0 <=> BoundSgn(c) = 0)
  BY <1>4
<1>11. BoundMul(BoundNeg(b), c) = BoundMul(b, BoundNeg(c))
  BY <1>3, <1>7, <1>8, <1>9, <1>10 DEF BoundMul
<1> QED BY <1>6, <1>11

LEMMA FracMulIs ==
  ASSUME NEW q, NEW r, IsFrac(q), IsFrac(r)
  PROVE  /\ FracMul(q, r) = FracMul(r, q)
         /\ FracMul(BoundNeg(q), BoundNeg(r)) = FracMul(q, r)
<1>1. q[1] \in Int /\ q[2] \in Int /\ r[1] \in Int /\ r[2] \in Int
  BY NegIs
<1>2. \A x, y \in Int : x * y = y * x /\ (-x) * (-y) = x * y
  OBVIOUS
<1> QED BY <1>1, <1>2, NegIs DEF FracMul

LEMMA MulPPIs ==
  ASSUME NEW b, NEW c, IsItv(b), IsItv(c), Positive(b), Positive(c),
         NEW q, NEW r, IsFrac(q), IsFrac(r), In(q, b), In(r, c)
  PROVE  IsItv(MulPP(b, c)) /\ In(FracMul(q, r), MulPP(b, c))
<1>1. /\ IsBound(b.inf) /\ IsBound(b.sup) /\ IsBound(c.inf) /\ IsBound(c.sup)
      /\ b.inf[1] <= 0 /\ c.inf[1] <= 0 /\ b.sup[1] >= 0 /\ c.sup[1] >= 0 /\ q[1] >= 0 /\ r[1] >= 0
  BY ItvSides
<1>2. IsBound(BoundMul(b.inf, BoundNeg(c.inf))) /\ IsBound(BoundMul(b.sup, c.sup))
  BY <1>1, MulUp, MulDown
<1>3. AtMost(FracMul(q, r), BoundMul(b.sup, c.sup))
  BY <1>1, MulUp DEF In
<1>4. AtMost(FracMul(BoundNeg(q), r), BoundMul(b.inf, BoundNeg(c.inf)))
  BY <1>1, MulDown, NegIs DEF In
<1> QED BY <1>2, <1>3, <1>4, ItvIs, FracOps DEF MulPP, In

LEMMA MulNNIs ==
  ASSUME NEW b, NEW c, IsItv(b), IsItv(c), Negative(b), Negative(c),
         NEW q, NEW r, IsFrac(q), IsFrac(r), In(q, b), In(r, c)
  PROVE  IsItv(MulNN(b, c)) /\ In(FracMul(q, r), MulNN(b, c))
<1>1. MulNN(b, c) = MulPP(Swap(b), Swap(c))
  BY ItvSides DEF MulNN, MulPP
<1>2. /\ IsItv(Swap(b)) /\ IsItv(Swap(c)) /\ Positive(Swap(b)) /\ Positive(Swap(c))
      /\ IsFrac(BoundNeg(q)) /\ IsFrac(BoundNeg(r)) /\ In(BoundNeg(q), Swap(b)) /\ In(BoundNeg(r), Swap(c))
  BY ItvSides, NegIs
<1> QED BY <1>1, <1>2, MulPPIs, FracMulIs

LEMMA MulPNIs ==
  ASSUME NEW b, NEW c, IsItv(b), IsItv(c), Positive(b), Negative(c),
         NEW q, NEW r, IsFrac(q), IsFrac(r), In(q, b), In(r, c)
  PROVE  IsItv(MulPN(b, c)) /\ In(FracMul(q, r), MulPN(b, c))
<1> DEFINE a == MulPP(b, Swap(c))
<1>1. IsBound(b.inf) /\ IsBound(c.sup)
  BY ItvSides
<1>2. MulPN(b, c) = Swap(a)
  BY <1>1, BoundMulIs, ItvSides DEF MulPN, MulPP, Swap, Itv
<1>3. /\ IsItv(Swap(c)) /\ Positive(Swap(c)) /\ IsFrac(BoundNeg(r)) /\ In(BoundNeg(r), Swap(c))
  BY ItvSides, NegIs
<1>4. IsItv(a) /\ In(FracMul(q, BoundNeg(r)), a)
  BY <1>3, MulPPIs
<1>5. IsFrac(FracMul(q, r)) /\ FracMul(q, BoundNeg(r)) = BoundNeg(FracMul(q, r))
  BY FracOps
<1>6. IsFrac(BoundNeg(FracMul(q, r))) /\ BoundNeg(BoundNeg(FracMul(q, r))) = FracMul(q, r)
  BY <1>5, NegIs
<1> HIDE DEF a
<1> QED BY <1>2, <1>4, <1>5, <1>6, ItvSides

LEMMA MulPIs ==
  ASSUME NEW b, NEW c, IsItv(b), IsItv(c), Positive(c),
         NEW q, NEW r, IsFrac(q), IsFrac(r), In(q, b), In(r, c)
  PROVE  IsItv(MulP(b, c)) /\ In(FracMul(q, r), MulP(b, c))
<1>1. CASE Positive(b)
  BY <1>1, MulPPIs DEF MulP
<1>2. CASE ~Positive(b) /\ Negative(b)
  BY <1>2, MulPNIs, FracMulIs DEF MulP
<1>3. CASE ~Positive(b) /\ ~Negative(b)
  <2>1. /\ IsBound(b.inf) /\ IsBound(b.sup) /\ IsBound(c.sup)
        /\ b.inf[1] >= 0 /\ b.sup[1] >= 0 /\ c.sup[1] >= 0 /\ r[1] >= 0
    <3>1. b.inf[1] \in Int /\ b.sup[1] \in Int
      BY ItvSides, BoundKinds
    <3> QED BY <1>3, <3>1, ItvSides
  <2>2. MulP(b, c) = Itv(BoundMul(b.inf, c.sup), BoundMul(b.sup, c.sup))
    BY <1>3 DEF MulP
  <2>3. IsBound(BoundMul(b.inf, c.sup)) /\ IsBound(BoundMul(b.sup, c.sup))
    BY <2>1, MulUp
  <2>4. AtMost(FracMul(q, r), BoundMul(b.sup, c.sup)) /\ AtMost(FracMul(BoundNeg(q), r), BoundMul(b.inf, c.sup))
    BY <2>1, MulUp, NegIs DEF In
  <2> QED BY <2>2, <2>3, <2>4, ItvIs, FracOps DEF In
<1> QED BY <1>1, <1>2, <1>3

LEMMA MulNIs ==
  ASSUME NEW b, NEW c, IsItv(b), IsItv(c), Negative(c),
         NEW q, NEW r, IsFrac(q), IsFrac(r), In(q, b), In(r, c)
  PROVE  IsItv(MulN(b, c)) /\ In(FracMul(q, r), MulN(b, c))
<1>1. CASE Positive(b)
  BY <1>1, MulPNIs DEF MulN
<1>2. CASE ~Positive(b) /\ Negative(b)
  BY <1>2, MulNNIs DEF MulN
<1>3. CASE ~Positive(b) /\ ~Negative(b)
  <2>1. /\ IsBound(b.inf) /\ IsBound(b.sup) /\ IsBound(c.inf) /\ b.inf[1] >= 0 /\ b.sup[1] >= 0 /\ c.inf[1] >= 0
    <3>1. b.inf[1] \in Int /\ b.sup[1] \in Int
      BY ItvSides, BoundKinds
    <3> QED BY <1>3, <3>1, ItvSides
  <2>2. MulN(b, c) = Itv(BoundMul(b.sup, c.inf), BoundMul(b.inf, c.inf))
    BY <1>3 DEF MulN
  <2>3. IsBound(BoundMul(b.sup, c.inf)) /\ IsBound(BoundMul(b.inf, c.inf))
    BY <2>1, MulUp
  <2>4. IsFrac(BoundNeg(q)) /\ IsFrac(BoundNeg(r)) /\ BoundNeg(r)[1] >= 0
    <3>1. r[1] <= 0 /\ r[1] \in Int
      BY ItvSides, NegIs
    <3> QED BY <3>1, NegIs
  <2>5. /\ AtMost(FracMul(q, BoundNeg(r)), BoundMul(b.sup, c.inf))
        /\ AtMost(FracMul(BoundNeg(q), BoundNeg(r)), BoundMul(b.inf, c.inf))
    BY <2>1, <2>4, MulUp DEF In
  <2>6. BoundNeg(FracMul(q, r)) = FracMul(q, BoundNeg(r)) /\ FracMul(BoundNeg(q), BoundNeg(r)) = FracMul(q, r)
    BY FracOps, FracMulIs
  <2>7. /\ IsItv(MulN(b, c)) /\ MulN(b, c).inf = BoundMul(b.sup, c.inf)
        /\ MulN(b, c).sup = BoundMul(b.inf, c.inf)
    BY <2>2, <2>3, ItvIs
  <2> QED BY <2>5, <2>6, <2>7 DEF In
<1> QED BY <1>1, <1>2, <1>3

LEMMA ItvBottomIs ==
  /\ IsItv(ItvBottom)
  /\ \A q : IsFrac(q) => ~In(q, ItvBottom)
<1>1. /\ IsFrac(IntBound(-1)) /\ IsBound(IntBound(-1)) /\ IntBound(-1)[1] = -1
  BY IntBoundIs
<1>2. IsItv(ItvBottom) /\ ItvBottom.inf[1] = -1 /\ ItvBottom.sup[1] = -1
  BY <1>1, ItvIs DEF ItvBottom
<1>3. ASSUME NEW q, IsFrac(q), In(q, ItvBottom)
      PROVE  FALSE
  <2>1. q[1] < 0 /\ q[1] > 0 /\ q[1] \in Int
    BY <1>2, <1>3, ItvSides, NegIs
  <2> QED BY <2>1
<1> QED BY <1>2, <1>3

LEMMA ItvLattice ==
  ASSUME NEW a, NEW b, IsItv(a), IsItv(b)
  PROVE  /\ IsItv(ItvMeet(a, b)) /\ IsItv(ItvJoin(a, b)) /\ IsItv(ItvWidening(a, b))
         /\ \A q : IsFrac(q) =>
               /\ In(q, ItvMeet(a, b)) <=> In(q, a) /\ In(q, b)
               /\ In(q, a) \/ In(q, b) => In(q, ItvJoin(a, b)) /\ In(q, ItvWidening(a, b))
               /\ ItvLeq(a, b) /\ In(q, a) => In(q, b)
<1>1. IsBound(a.inf) /\ IsBound(a.sup) /\ IsBound(b.inf) /\ IsBound(b.sup)
  BY DEF IsItv
<1>2. IsItv(ItvMeet(a, b)) /\ ItvMeet(a, b).inf = BoundMin(a.inf, b.inf) /\ ItvMeet(a, b).sup = BoundMin(a.sup, b.sup)
  BY <1>1, ItvIs, MinMax DEF ItvMeet
<1>3. ASSUME NEW x, NEW y, IsBound(x), IsBound(y)
      PROVE  /\ IsBound(BoundWidening(x, y))
             /\ \A q : IsFrac(q) /\ (AtMost(q, x) \/ AtMost(q, y)) => AtMost(q, BoundWidening(x, y))
  <2>1. CASE BoundWidening(x, y) = PlusOo
    BY <2>1, PlusOoIs
  <2>2. CASE BoundWidening(x, y) = x /\ ~(BoundCmp(x, y) < 0)
    <3>1. BoundCmp(y, x) <= 0
      BY <1>3, <2>2, BoundCmpIs
    <3> QED BY <1>3, <2>2, <3>1, AtMostTransitive
  <2> QED BY <2>1, <2>2 DEF BoundWidening
<1>4. IsItv(ItvWidening(a, b))
  BY <1>1, <1>3, ItvIs DEF ItvWidening
<1>5. IsItv(ItvJoin(a, b))
  BY <1>1, MinMax, ItvIs DEF ItvJoin
<1>6. ASSUME NEW q, IsFrac(q)
      PROVE  In(q, ItvMeet(a, b)) <=> In(q, a) /\ In(q, b)
  BY <1>1, <1>2, <1>6, MinMax, NegIs DEF In
<1>7. ASSUME NEW q, IsFrac(q), In(q, a) \/ In(q, b)
      PROVE  In(q, ItvJoin(a, b)) /\ In(q, ItvWidening(a, b))
  <2>0. IsFrac(BoundNeg(q))
    BY <1>7, NegIs
  <2>1. a = ItvBottom \/ b = ItvBottom => In(q, ItvJoin(a, b)) /\ In(q, ItvWidening(a, b))
    BY <1>7, ItvBottomIs DEF ItvJoin, ItvWidening
  <2>2. CASE a # ItvBottom /\ b # ItvBottom
    <3>1. ItvJoin(a, b) = Itv(BoundMax(a.inf, b.inf), BoundMax(a.sup, b.sup))
      BY <2>2 DEF ItvJoin
    <3>2. ItvWidening(a, b) = Itv(BoundWidening(a.inf, b.inf), BoundWidening(a.sup, b.sup))
      BY <2>2 DEF ItvWidening
    <3>3. In(q, ItvJoin(a, b))
      BY <1>1, <1>7, <2>0, <3>1, MinMax, ItvIs DEF In
    <3>4. In(q, ItvWidening(a, b))
      BY <1>1, <1>3, <1>7, <2>0, <3>2, ItvIs DEF In
    <3> QED BY <3>3, <3>4
  <2> QED BY <2>1, <2>2
<1>8. ASSUME NEW q, IsFrac(q), ItvLeq(a, b), In(q, a)
      PROVE  In(q, b)
  <2>1. a # ItvBottom
    BY <1>8, ItvBottomIs
  <2>2. BoundCmp(a.sup, b.sup) <= 0 /\ BoundCmp(a.inf, b.inf) <= 0
    BY <1>8, <2>1 DEF ItvLeq
  <2> QED BY <1>1, <1>8, <2>2, AtMostTransitive, NegIs DEF In
<1> QED BY <1>2, <1>4, <1>5, <1>6, <1>7, <1>8

(* The product of two intervals holds the product of their fractions.      *)
LEMMA ItvMulIs ==
  ASSUME NEW b, NEW c, IsItv(b), IsItv(c), NEW q, NEW r, IsFrac(q), IsFrac(r), In(q, b), In(r, c)
  PROVE  IsItv(ItvMul(b, c)) /\ In(FracMul(q, r), ItvMul(b, c))
<1>1. CASE Positive(c)
  BY <1>1, MulPIs DEF ItvMul
<1>2. CASE ~Positive(c) /\ Positive(b) /\ ~Negative(c)
  BY <1>2, MulPIs, FracMulIs DEF ItvMul
<1>3. CASE ~Positive(c) /\ ~(Positive(b) /\ ~Negative(c)) /\ Negative(c)
  BY <1>3, MulNIs DEF ItvMul
<1>4. CASE ~Positive(c) /\ ~Negative(c) /\ ~Positive(b)
  <2> DEFINE up == Itv(Zero, c.sup)
             dn == Itv(c.inf, Zero)
  <2>1. IsBound(Zero) /\ IsFrac(Zero) /\ Zero[1] = 0 /\ Zero[2] = 1 /\ BoundNeg(Zero) = Zero
    BY IntBoundIs DEF Zero
  <2>2. /\ IsItv(up) /\ up.inf = Zero /\ up.sup = c.sup
        /\ IsItv(dn) /\ dn.inf = c.inf /\ dn.sup = Zero
    BY <2>1, ItvIs, ItvSides
  <2>3. c.inf[1] > 0 /\ c.sup[1] > 0
    <3>1. c.inf[1] \in Int /\ c.sup[1] \in Int
      BY ItvSides, BoundKinds
    <3> QED BY <1>4, <3>1, ItvSides
  <2>4. ItvMul(b, c) = ItvJoin(MulP(b, up), MulN(b, dn))
    BY <1>4 DEF ItvMul
  <2>5. Positive(up) /\ Negative(dn)
    BY <2>1, <2>2, ItvSides
  <2>6. AtMost(Zero, Zero) /\ AtMost(Zero, c.sup) /\ AtMost(Zero, c.inf)
    <3>1. c.inf[1] \in Int /\ c.inf[2] \in Int /\ c.sup[1] \in Int /\ c.sup[2] \in Int
      BY ItvSides, BoundKinds
    <3> QED BY <2>1, <2>3, <3>1 DEF AtMost
  <2>7. In(Zero, up) /\ In(Zero, dn)
    BY <2>1, <2>2, <2>6 DEF In
  <2> HIDE DEF up, dn
  <2>8. IsItv(MulP(b, up)) /\ IsItv(MulN(b, dn))
    BY <2>1, <2>2, <2>5, <2>7, MulPIs, MulNIs
  <2>9. In(r, up) \/ In(r, dn)
    <3>1. r[1] \in Int /\ r[2] \in Int /\ BoundNeg(r)[1] = -r[1] /\ BoundNeg(r)[2] = r[2]
      BY NegIs
    <3>2. CASE r[1] >= 0
      <4>1. AtMost(BoundNeg(r), Zero)
        BY <2>1, <3>1, <3>2 DEF AtMost
      <4> QED BY <2>2, <4>1 DEF In
    <3>3. CASE r[1] <= 0
      <4>1. AtMost(r, Zero)
        BY <2>1, <3>1, <3>3 DEF AtMost
      <4> QED BY <2>2, <4>1 DEF In
    <3> QED BY <3>1, <3>2, <3>3
  <2>10. In(FracMul(q, r), MulP(b, up)) \/ In(FracMul(q, r), MulN(b, dn))
    BY <2>2, <2>5, <2>9, MulPIs, MulNIs
  <2> QED BY <2>4, <2>8, <2>10, ItvLattice, FracOps
<1> QED BY <1>1, <1>2, <1>3, <1>4

-----------------------------------------------------------------------------
(* Division by an interval that is not negative.                           *)
LEMMA DivUp ==
  ASSUME NEW b, NEW c, IsBound(b), IsBound(c), b[1] >= 0, c[1] < 0
  PROVE  /\ IsBound(BoundDiv(b, BoundNeg(c)))
         /\ BoundDiv(BoundNeg(b), c) = BoundDiv(b, BoundNeg(c))
         /\ \A q, r : IsFrac(q) /\ IsFrac(r) /\ r[1] > 0 /\ AtMost(q, b) /\ AtMost(BoundNeg(r), c) =>
                         AtMost(FracDiv(q, r), BoundDiv(b, BoundNeg(c)))
<1>1. IsFrac(c) /\ b[1] \in Int /\ b[2] \in Int
  BY BoundKinds, PlusOoIs DEF IsBound
<1>2. /\ c[1] \in Int /\ c[2] \in Int /\ c[2] > 0 /\ ~IsInfty(c)
      /\ ~IsInfty(BoundNeg(c)) /\ BoundNeg(c)[1] = -c[1] /\ BoundNeg(c)[2] = c[2]
  BY <1>1, FracIs, NegIs
<1>3. BoundSgn(c) = -1 /\ BoundSgn(BoundNeg(c)) = 1
  BY <1>2 DEF BoundSgn, SgnOf
<1>4. /\ BoundNeg(b)[1] = -b[1] /\ BoundNeg(b)[2] = b[2]
      /\ IsInfty(BoundNeg(b)) <=> IsInfty(b)
      /\ BoundSgn(BoundNeg(b)) = 0 <=> BoundSgn(b) = 0
  BY <1>1 DEF BoundNeg, IsInfty, BoundSgn, SgnOf
<1>5. CASE b[1] = 0
  <2>1. BoundDiv(b, BoundNeg(c)) = Zero /\ BoundDiv(BoundNeg(b), c) = Zero
    BY <1>1, <1>4, <1>5, BoundKinds DEF BoundDiv
  <2>2. IsBound(Zero) /\ Zero[1] = 0 /\ Zero[2] = 1
    BY IntBoundIs DEF Zero
  <2>3. ASSUME NEW q, NEW r, IsFrac(q), IsFrac(r), r[1] > 0, AtMost(q, b)
        PROVE  AtMost(FracDiv(q, r), Zero)
    <3>1. q[1] \in Int /\ q[2] \in Int /\ r[1] \in Int /\ r[2] \in Int /\ r[2] > 0 /\ q[1] <= 0
      BY <1>5, <2>3, NegIs, AtMostSign
    <3>2. q[1] * r[2] <= 0 /\ q[1] * r[2] \in Int /\ q[2] * r[1] \in Int
      BY <3>1
    <3>3. (q[1] * r[2]) * 1 <= 0 * (q[2] * r[1])
      BY <3>2
    <3> QED BY <2>2, <2>3, <3>3, FracDivParts DEF AtMost
  <2> QED BY <2>1, <2>2, <2>3
<1>6. CASE b = PlusOo
  <2>1. BoundSgn(b) = 1 /\ IsInfty(b) /\ b[1] = 1 /\ b[2] = 0
    BY <1>6, PlusOoIs
  <2>2. BoundSgn(BoundNeg(b)) = -1
    BY <1>4, <2>1 DEF BoundSgn, SgnOf
  <2>3. BoundDiv(b, BoundNeg(c)) = PlusOo /\ BoundDiv(BoundNeg(b), c) = PlusOo
    BY <1>2, <1>3, <1>4, <2>1, <2>2 DEF BoundDiv, PlusOo
  <2>4. \A q, r : IsFrac(q) /\ IsFrac(r) /\ r[1] > 0 => IsFrac(FracDiv(q, r))
    <3> SUFFICES ASSUME NEW q, NEW r, IsFrac(q), IsFrac(r), r[1] > 0 PROVE IsFrac(FracDiv(q, r))
      OBVIOUS
    <3>1. r[1] # 0
      BY NegIs
    <3> QED BY <3>1, FracOps
  <2> QED BY <2>3, <2>4, PlusOoIs
<1>7. CASE b[1] # 0 /\ IsFrac(b)
  <2>1. b[1] \in Int /\ b[2] \in Int /\ b[2] > 0 /\ ~IsInfty(b) /\ b[1] > 0 /\ BoundSgn(b) # 0
    BY <1>7, FracIs, BoundKinds
  <2> DEFINE n == b[1] * c[2]
             d == b[2] * (-c[1])
  <2>2. n \in Int /\ d \in Int /\ d > 0
    BY <1>2, <2>1
  <2>3. BoundDiv(b, BoundNeg(c)) = Num(n, d)
    BY <1>2, <1>3, <2>1 DEF BoundDiv
  <2>4. BoundDiv(BoundNeg(b), c) = Num((-b[1]) * c[2], b[2] * c[1])
    BY <1>2, <1>3, <1>4, <2>1 DEF BoundDiv
  <2>5. Num((-b[1]) * c[2], b[2] * c[1]) = Num(n, d)
    <3> DEFINE m == (-b[1]) * c[2]
               e == b[2] * c[1]
    <3>1. m \in Int /\ e \in Int /\ e < 0 /\ -m = n /\ -e = d
      BY <1>2, <2>1
    <3> HIDE DEF m, e, n, d
    <3>2. Num(m, e) = Num(n, d)
      BY <3>1, NumOfNegative
    <3> QED BY <3>2 DEF m, e
  <2>6. ASSUME NEW q, NEW r, IsFrac(q), IsFrac(r), r[1] > 0, AtMost(q, b), AtMost(BoundNeg(r), c)
        PROVE  FracDiv(q, r)[1] * d <= n * FracDiv(q, r)[2] /\ IsFrac(FracDiv(q, r))
    <3>1. q[1] \in Int /\ q[2] \in Int /\ q[2] > 0 /\ r[1] \in Int /\ r[2] \in Int /\ r[2] > 0 /\ r[1] # 0
      BY <2>6 DEF IsFrac
    <3>2. q[1] * b[2] <= b[1] * q[2] /\ (-r[1]) * c[2] <= c[1] * r[2]
      BY <2>6, NegIs DEF AtMost
    <3>4. \A q1, q2, r1, r2, b1, b2, c1, c2 \in Int :
             q2 > 0 /\ r2 > 0 /\ b2 > 0 /\ c2 > 0 /\ b1 > 0 /\ c1 < 0 /\ r1 > 0
               /\ q1 * b2 <= b1 * q2 /\ (-r1) * c2 <= c1 * r2
               => (q1 * r2) * (b2 * (-c1)) <= (b1 * c2) * (q2 * r1)
      <4> SUFFICES ASSUME NEW q1 \in Int, NEW q2 \in Int, NEW r1 \in Int, NEW r2 \in Int,
                          NEW b1 \in Int, NEW b2 \in Int, NEW c1 \in Int, NEW c2 \in Int,
                          q2 > 0, r2 > 0, b2 > 0, c2 > 0, b1 > 0, c1 < 0, r1 > 0,
                          q1 * b2 <= b1 * q2, (-r1) * c2 <= c1 * r2
                   PROVE  (q1 * r2) * (b2 * (-c1)) <= (b1 * c2) * (q2 * r1)
        OBVIOUS
      <4>1. (q1 * b2) * (r2 * (-c1)) <= (b1 * q2) * (r2 * (-c1))
        <5>1. r2 * (-c1) >= 0
          OBVIOUS
        <5> QED BY <5>1
      <4>2. (b1 * q2) * (r2 * (-c1)) <= (b1 * q2) * (r1 * c2)
        <5>1. b1 * q2 > 0 /\ r2 * (-c1) <= r1 * c2
          OBVIOUS
        <5> QED BY <5>1
      <4>3. (q1 * r2) * (b2 * (-c1)) = (q1 * b2) * (r2 * (-c1))
        OBVIOUS
      <4>4. (b1 * c2) * (q2 * r1) = (b1 * q2) * (r1 * c2)
        OBVIOUS
      <4> QED BY <4>1, <4>2, <4>3, <4>4
    <3>5. IsFrac(FracDiv(q, r))
      BY <2>6, <3>1, FracOps
    <3>6. (q[1] * r[2]) * d <= n * (q[2] * r[1])
      BY <1>2, <2>1, <2>6, <3>1, <3>2, <3>4
    <3> HIDE DEF n, d
    <3> QED BY <2>2, <2>6, <3>5, <3>6, FracDivParts
  <2> HIDE DEF n, d
  <2>7. IsFrac(Num(n, d)) /\ IsBound(Num(n, d))
    BY <2>2, AtMostNum, FracIs
  <2> QED BY <2>2, <2>3, <2>4, <2>5, <2>6, <2>7, AtMostNum
<1> QED BY <1>5, <1>6, <1>7 DEF IsBound

LEMMA DivDown ==
  ASSUME NEW b, NEW c, IsBound(b), IsBound(c), b[1] <= 0, c[1] > 0
  PROVE  /\ IsBound(BoundDiv(b, c))
         /\ \A q, r : IsFrac(q) /\ IsFrac(r) /\ r[1] > 0 /\ AtMost(q, b) /\ AtMost(r, c) =>
                         AtMost(FracDiv(q, r), BoundDiv(b, c))
<1>1. IsFrac(b) /\ c[1] \in Int /\ c[2] \in Int /\ b[1] \in Int /\ b[2] \in Int /\ b[2] > 0 /\ ~IsInfty(b)
  BY BoundKinds, PlusOoIs, FracIs DEF IsBound
<1>2. ASSUME NEW q, NEW r, IsFrac(q), IsFrac(r), r[1] > 0, AtMost(q, b)
      PROVE  AtMost(FracDiv(q, r), Zero)
  <2>1. q[1] \in Int /\ q[2] \in Int /\ r[1] \in Int /\ r[2] \in Int /\ r[2] > 0 /\ q[1] <= 0
    BY <1>2, NegIs, AtMostSign
  <2>2. q[1] * r[2] <= 0 /\ q[1] * r[2] \in Int /\ q[2] * r[1] \in Int
    BY <2>1
  <2>3. (q[1] * r[2]) * 1 <= 0 * (q[2] * r[1])
    BY <2>2
  <2>4. Zero[1] = 0 /\ Zero[2] = 1
    BY IntBoundIs DEF Zero
  <2> QED BY <1>2, <2>3, <2>4, FracDivParts DEF AtMost
<1>3. CASE b[1] = 0 \/ c = PlusOo
  <2>1. BoundDiv(b, c) = Zero
    BY <1>1, <1>3, BoundKinds DEF BoundDiv
  <2>2. IsBound(Zero)
    BY IntBoundIs DEF Zero
  <2> QED BY <1>2, <2>1, <2>2
<1>4. CASE b[1] # 0 /\ IsFrac(c)
  <2>1. BoundSgn(b) # 0 /\ BoundSgn(c) # 0 /\ ~IsInfty(c) /\ c[2] > 0
    BY <1>1, <1>4, BoundKinds, FracIs
  <2> DEFINE n == b[1] * c[2]
             d == b[2] * c[1]
  <2>2. n \in Int /\ d \in Int /\ d > 0
    BY <1>1, <2>1
  <2>3. BoundDiv(b, c) = Num(n, d)
    BY <1>1, <2>1 DEF BoundDiv
  <2>6. ASSUME NEW q, NEW r, IsFrac(q), IsFrac(r), r[1] > 0, AtMost(q, b), AtMost(r, c)
        PROVE  FracDiv(q, r)[1] * d <= n * FracDiv(q, r)[2] /\ IsFrac(FracDiv(q, r))
    <3>1. q[1] \in Int /\ q[2] \in Int /\ q[2] > 0 /\ r[1] \in Int /\ r[2] \in Int /\ r[2] > 0 /\ r[1] # 0
      BY <2>6 DEF IsFrac
    <3>2. q[1] * b[2] <= b[1] * q[2] /\ r[1] * c[2] <= c[1] * r[2]
      BY <2>6 DEF AtMost
    <3>4. \A q1, q2, r1, r2, b1, b2, c1, c2 \in Int :
             q2 > 0 /\ r2 > 0 /\ b2 > 0 /\ c2 > 0 /\ b1 <= 0 /\ c1 > 0 /\ r1 > 0
               /\ q1 * b2 <= b1 * q2 /\ r1 * c2 <= c1 * r2
               => (q1 * r2) * (b2 * c1) <= (b1 * c2) * (q2 * r1)
      <4> SUFFICES ASSUME NEW q1 \in Int, NEW q2 \in Int, NEW r1 \in Int, NEW r2 \in Int,
                          NEW b1 \in Int, NEW b2 \in Int, NEW c1 \in Int, NEW c2 \in Int,
                          q2 > 0, r2 > 0, b2 > 0, c2 > 0, b1 <= 0, c1 > 0, r1 > 0,
                          q1 * b2 <= b1 * q2, r1 * c2 <= c1 * r2
                   PROVE  (q1 * r2) * (b2 * c1) <= (b1 * c2) * (q2 * r1)
        OBVIOUS
      <4>1. (q1 * b2) * (r2 * c1) <= (b1 * q2) * (r2 * c1)
        <5>1. r2 * c1 >= 0
          OBVIOUS
        <5> QED BY <5>1
      <4>2. (b1 * q2) * (r2 * c1) <= (b1 * q2) * (r1 * c2)
        <5>1. b1 * q2 <= 0 /\ r1 * c2 <= r2 * c1
          OBVIOUS
        <5> QED BY <5>1
      <4>3. (q1 * r2) * (b2 * c1) = (q1 * b2) * (r2 * c1)
        OBVIOUS
      <4>4. (b1 * c2) * (q2 * r1) = (b1 * q2) * (r1 * c2)
        OBVIOUS
      <4> QED BY <4>1, <4>2, <4>3, <4>4
    <3>5. IsFrac(FracDiv(q, r))
      BY <2>6, <3>1, FracOps
    <3>6. (q[1] * r[2]) * d <= n * (q[2] * r[1])
      BY <1>1, <2>1, <2>6, <3>1, <3>2, <3>4
    <3> HIDE DEF n, d
    <3> QED BY <2>2, <2>6, <3>5, <3>6, FracDivParts
  <2> HIDE DEF n, d
  <2>7. IsFrac(Num(n, d)) /\ IsBound(Num(n, d))
    BY <2>2, AtMostNum, FracIs
  <2> QED BY <2>2, <2>3, <2>6, <2>7, AtMostNum
<1> QED BY <1>3, <1>4 DEF IsBound

(* The divisor is positive.                                                *)
LEMMA DivPIs ==
  ASSUME NEW b, NEW c, IsItv(b), IsItv(c), c.inf[1] < 0,
         NEW q, NEW r, IsFrac(q), IsFrac(r), In(q, b), In(r, c)
  PROVE  IsItv(DivP(b, c)) /\ In(FracDiv(q, r), DivP(b, c)) /\ IsFrac(FracDiv(q, r)) /\ r[1] > 0
<1>1. /\ IsBound(b.inf) /\ IsBound(b.sup) /\ IsBound(c.inf) /\ IsBound(c.sup)
      /\ r[1] > 0 /\ c.sup[1] > 0 /\ r[1] # 0 /\ b.inf[1] \in Int /\ b.sup[1] \in Int
  BY ItvSides, BoundKinds, NegIs
<1>2. IsFrac(FracDiv(q, r)) /\ BoundNeg(FracDiv(q, r)) = FracDiv(BoundNeg(q), r) /\ IsFrac(BoundNeg(q))
  BY <1>1, FracOps, NegIs
<1>3. CASE Positive(b)
  <2>1. b.inf[1] <= 0 /\ b.sup[1] >= 0
    BY <1>3, ItvSides
  <2>2. IsBound(BoundDiv(b.inf, c.sup)) /\ AtMost(FracDiv(BoundNeg(q), r), BoundDiv(b.inf, c.sup))
    BY <1>1, <1>2, <2>1, DivDown DEF In
  <2>3. IsBound(BoundDiv(b.sup, BoundNeg(c.inf))) /\ AtMost(FracDiv(q, r), BoundDiv(b.sup, BoundNeg(c.inf)))
    BY <1>1, <2>1, DivUp DEF In
  <2> QED BY <1>1, <1>2, <1>3, <2>2, <2>3, ItvIs DEF DivP, DivPP, In
<1>4. CASE ~Positive(b) /\ Negative(b)
  <2>1. b.sup[1] <= 0 /\ b.inf[1] >= 0
    BY <1>4, ItvSides
  <2>2. IsBound(BoundDiv(b.sup, c.sup)) /\ AtMost(FracDiv(q, r), BoundDiv(b.sup, c.sup))
    BY <1>1, <2>1, DivDown DEF In
  <2>3. /\ IsBound(BoundDiv(b.inf, BoundNeg(c.inf)))
        /\ AtMost(FracDiv(BoundNeg(q), r), BoundDiv(b.inf, BoundNeg(c.inf)))
        /\ BoundDiv(BoundNeg(b.inf), c.inf) = BoundDiv(b.inf, BoundNeg(c.inf))
    BY <1>1, <1>2, <2>1, DivUp DEF In
  <2> QED BY <1>1, <1>2, <1>4, <2>2, <2>3, ItvIs DEF DivP, DivNP, In
<1>5. CASE ~Positive(b) /\ ~Negative(b)
  <2>1. b.sup[1] >= 0 /\ b.inf[1] >= 0
    BY <1>1, <1>5, ItvSides
  <2>2. IsBound(BoundDiv(b.sup, BoundNeg(c.inf))) /\ AtMost(FracDiv(q, r), BoundDiv(b.sup, BoundNeg(c.inf)))
    BY <1>1, <2>1, DivUp DEF In
  <2>3. /\ IsBound(BoundDiv(b.inf, BoundNeg(c.inf)))
        /\ AtMost(FracDiv(BoundNeg(q), r), BoundDiv(b.inf, BoundNeg(c.inf)))
    BY <1>1, <1>2, <2>1, DivUp DEF In
  <2> QED BY <1>1, <1>2, <1>5, <2>2, <2>3, ItvIs DEF DivP, In
<1> QED BY <1>1, <1>2, <1>3, <1>4, <1>5

LEMMA ItvTopIs ==
  IsItv(ItvTop) /\ \A q : IsFrac(q) => In(q, ItvTop)
BY ItvIs, PlusOoIs, NegIs DEF ItvTop, In

(* The quotient of two intervals, the second not negative.                 *)
LEMMA ItvDivIs ==
  ASSUME NEW b, NEW c, IsItv(b), IsItv(c), c.sup[1] >= 0,
         NEW q, NEW r, IsFrac(q), IsFrac(r), In(q, b), In(r, c)
  PROVE  /\ IsItv(ItvDiv(b, c)) /\ ~IsEmptyItv(ItvDiv(b, c))
         /\ r[1] # 0 => In(FracDiv(q, r), ItvDiv(b, c)) /\ IsFrac(FracDiv(q, r))
<1>1. /\ IsBound(b.inf) /\ IsBound(b.sup) /\ IsBound(c.inf) /\ IsBound(c.sup)
      /\ BoundSgn(c.inf) < 0 <=> c.inf[1] < 0
      /\ BoundSgn(c.sup) < 0 <=> c.sup[1] < 0
      /\ c.sup[1] \in Int /\ c.inf[1] \in Int
  BY ItvSides, BoundKinds
<1>2. CASE c.inf[1] < 0
  <2>1. ItvDiv(b, c) = DivP(b, c)
    BY <1>1, <1>2 DEF ItvDiv
  <2> QED BY <1>2, <2>1, DivPIs, NonEmptyIs
<1>3. CASE ~(c.inf[1] < 0) /\ b # Itv(Zero, Zero)
  <2>1. ItvDiv(b, c) = ItvTop
    BY <1>1, <1>3 DEF ItvDiv
  <2> QED BY <2>1, ItvTopIs, FracOps, NonEmptyIs
<1>4. CASE ~(c.inf[1] < 0) /\ b = Itv(Zero, Zero)
  <2>1. ItvDiv(b, c) = b
    BY <1>1, <1>4 DEF ItvDiv
  <2>2. Zero[1] = 0 /\ Zero[2] = 1 /\ BoundNeg(Zero) = Zero /\ IsFrac(Zero)
    BY IntBoundIs DEF Zero
  <2>3. b.inf = Zero /\ b.sup = Zero
    BY <1>4 DEF Itv
  <2>4. q[1] = 0 /\ q[2] \in Int /\ r[1] \in Int /\ r[2] \in Int
    <3>1. q[1] >= 0 /\ q[1] <= 0 /\ q[1] \in Int
      BY <2>2, <2>3, ItvSides, NegIs
    <3> QED BY <3>1, NegIs
  <2>5. ASSUME r[1] # 0
        PROVE  In(FracDiv(q, r), b) /\ IsFrac(FracDiv(q, r))
    <3>1. FracDiv(q, r)[1] = 0 /\ FracDiv(q, r)[2] \in Int /\ IsFrac(FracDiv(q, r))
      <4>1. 0 * r[2] = 0 /\ -(0 * r[2]) = 0 /\ q[2] > 0
        BY <2>4, NegIs
      <4>2. IsFrac(FracDiv(q, r))
        BY <2>5, FracOps
      <4>3. /\ r[1] > 0 => q[2] * r[1] \in Int /\ q[2] * r[1] > 0
            /\ ~(r[1] > 0) => q[2] * (-r[1]) \in Int /\ q[2] * (-r[1]) > 0
        BY <2>4, <2>5, <4>1
      <4>4. FracDiv(q, r) = Zero
        BY <2>4, <4>1, <4>3, NumOfZero DEF FracDiv
      <4> QED BY <2>2, <4>2, <4>4, IntBoundIs
    <3>2. BoundNeg(FracDiv(q, r))[1] = 0 /\ BoundNeg(FracDiv(q, r))[2] = FracDiv(q, r)[2]
      <4>1. \A x, y \in Int : x + y = 0 => -x = y
        OBVIOUS
      <4> QED BY <3>1, <4>1, NegIs
    <3> QED BY <2>2, <2>3, <3>1, <3>2 DEF In, AtMost
  <2> QED BY <2>1, <2>5, NonEmptyIs
<1> QED BY <1>2, <1>3, <1>4

-----------------------------------------------------------------------------
(***************************************************************************)
(* Rounding.                                                               *)
(***************************************************************************)
FloorOf(q) == q[1] \div q[2]
CeilOf(q)  == -((-q[1]) \div q[2])
TruncOf(q) == IF q[1] < 0 THEN CeilOf(q) ELSE FloorOf(q)

LEMMA QuotientIs ==
  ASSUME NEW n \in Int, NEW d \in Int, d > 0
  PROVE  /\ n \div d \in Int /\ (n \div d) * d <= n /\ n < (n \div d + 1) * d
         /\ \A k \in Int : k * d <= n => k <= n \div d
         /\ n >= 0 => n \div d >= 0
         /\ n < 0 => n \div d < 0
<1> DEFINE m == n \div d
<1>1. m \in Int /\ m * d <= n /\ n < (m + 1) * d
  OBVIOUS
<1> HIDE DEF m
<1>2. ASSUME NEW k \in Int, k * d <= n
      PROVE  k <= m
  <2>1. k * d < (m + 1) * d
    BY <1>1, <1>2
  <2>2. k < m + 1
    BY <1>1, <2>1
  <2> QED BY <1>1, <2>2
<1>3. n >= 0 => m >= 0
  BY <1>1
<1>4. n < 0 => m < 0
  BY <1>1
<1> QED BY <1>1, <1>2, <1>3, <1>4 DEF m

LEMMA WholeParts ==
  ASSUME NEW q, IsFrac(q)
  PROVE  /\ FloorOf(q) \in Int /\ CeilOf(q) \in Int /\ TruncOf(q) \in Int
         /\ FloorOf(q) <= CeilOf(q)
         /\ FloorOf(BoundNeg(q)) = -CeilOf(q)
         /\ CeilOf(BoundNeg(q)) = -FloorOf(q)
         /\ TruncOf(BoundNeg(q)) = -TruncOf(q)
         /\ TruncOf(q) \in {FloorOf(q), CeilOf(q)}
         /\ q[1] >= 0 => FloorOf(q) >= 0
         /\ q[1] <= 0 => CeilOf(q) <= 0
         /\ FloorOf(q) * q[2] <= q[1] /\ q[1] < (FloorOf(q) + 1) * q[2]
         /\ q[1] <= CeilOf(q) * q[2] /\ (CeilOf(q) - 1) * q[2] < q[1]
<1>1. q[1] \in Int /\ q[2] \in Int /\ q[2] > 0 /\ BoundNeg(q)[1] = -q[1] /\ BoundNeg(q)[2] = q[2]
  BY NegIs
<1> DEFINE f == q[1] \div q[2]
           g == (-q[1]) \div q[2]
<1>2. f \in Int /\ f * q[2] <= q[1] /\ q[1] < (f + 1) * q[2] /\ (q[1] >= 0 => f >= 0)
  BY <1>1, QuotientIs
<1>3. -q[1] \in Int
  BY <1>1
<1>4. g \in Int /\ g * q[2] <= -q[1] /\ -q[1] < (g + 1) * q[2] /\ (-q[1] >= 0 => g >= 0)
  BY <1>1, <1>3, QuotientIs
<1>5. -(-q[1]) = q[1]
  BY <1>1
<1>6. /\ FloorOf(q) = f /\ CeilOf(q) = -g
      /\ FloorOf(BoundNeg(q)) = g /\ CeilOf(BoundNeg(q)) = -f
  BY <1>1, <1>5 DEF FloorOf, CeilOf
<1> HIDE DEF f, g
<1>7. -(-g) = g /\ -g \in Int /\ -f \in Int
  BY <1>2, <1>4
<1>8. f <= -g
  <2>1. f * q[2] <= (-g) * q[2]
    BY <1>1, <1>2, <1>4
  <2> QED BY <1>1, <1>2, <1>4, <2>1
<1>9. q[1] <= (-g) * q[2] /\ (-g - 1) * q[2] < q[1]
  BY <1>1, <1>4
<1>10. q[1] <= 0 => -g <= 0
  BY <1>1, <1>4
<1>11. TruncOf(BoundNeg(q)) = -TruncOf(q)
  <2>1. CASE q[1] = 0
    <3>1. f <= 0 /\ f >= 0 /\ g <= 0 /\ g >= 0
      <4>1. f * q[2] <= 0 /\ 0 < (f + 1) * q[2] /\ g * q[2] <= 0 /\ 0 < (g + 1) * q[2] /\ f >= 0 /\ g >= 0
        BY <1>1, <1>2, <1>4, <2>1
      <4> QED BY <1>1, <1>2, <1>4, <4>1
    <3>2. -f = g
      <4>1. \A x, y \in Int : x <= 0 /\ x >= 0 /\ y <= 0 /\ y >= 0 => -x = y
        OBVIOUS
      <4> QED BY <1>2, <1>4, <3>1, <4>1
    <3>3. ~(q[1] < 0) /\ ~(-q[1] < 0)
      BY <1>1, <2>1
    <3> QED BY <1>1, <1>6, <3>2, <3>3 DEF TruncOf
  <2>2. CASE q[1] < 0
    <3>1. ~(-q[1] < 0)
      BY <1>1, <2>2
    <3> QED BY <1>1, <1>6, <1>7, <2>2, <3>1 DEF TruncOf
  <2>3. CASE q[1] > 0
    <3>1. -q[1] < 0 /\ ~(q[1] < 0)
      BY <1>1, <2>3
    <3> QED BY <1>1, <1>6, <2>3, <3>1 DEF TruncOf
  <2> QED BY <1>1, <2>1, <2>2, <2>3
<1>12. TruncOf(q) \in {FloorOf(q), CeilOf(q)}
  BY DEF TruncOf
<1> QED BY <1>2, <1>4, <1>6, <1>7, <1>8, <1>9, <1>10, <1>11, <1>12

LEMMA IntegralIs ==
  /\ \A n \in Int : Integral(IntBound(n))
  /\ Integral(PlusOo)
  /\ \A b : IsBound(b) /\ Integral(b) => b = PlusOo \/ (b[1] \in Int /\ b = IntBound(b[1]))
BY IntBoundIs, PlusOoIs, FracIs, BoundKinds DEF Integral, IntBound

LEMMA RoundBound ==
  ASSUME NEW b, IsBound(b)
  PROVE  /\ IsBound(BoundFloor(b)) /\ Integral(BoundFloor(b))
         /\ IsBound(BoundCeil(b)) /\ Integral(BoundCeil(b))
         /\ IsBound(BoundTrunc(b)) /\ Integral(BoundTrunc(b))
         /\ \A q : IsFrac(q) /\ AtMost(q, b) =>
               /\ AtMost(IntBound(FloorOf(q)), BoundFloor(b))
               /\ AtMost(IntBound(FloorOf(q)), BoundCeil(b))
               /\ AtMost(IntBound(CeilOf(q)), BoundCeil(b))
               /\ AtMost(IntBound(TruncOf(q)), BoundTrunc(b))
<1>1. CASE b = PlusOo
  <2>1. IsInfty(BoundNeg(PlusOo)) /\ BoundNeg(BoundNeg(PlusOo)) = PlusOo
    <3>1. \A x, y \in Int : x + y = 0 => -x = y
      OBVIOUS
    <3>3. -1 \in Int /\ 1 \in Int /\ (-1) + 1 = 0
      OBVIOUS
    <3>2. -(-1) = 1
      BY <3>1, <3>3
    <3> QED BY <3>2 DEF BoundNeg, PlusOo, Infty, IsInfty
  <2>2. BoundFloor(b) = PlusOo /\ BoundCeil(b) = PlusOo /\ BoundTrunc(b) = PlusOo
    BY <1>1, <2>1, PlusOoIs DEF BoundFloor, BoundCeil, BoundTrunc
  <2>3. \A q : IsFrac(q) => IsFrac(IntBound(FloorOf(q))) /\ IsFrac(IntBound(CeilOf(q))) /\ IsFrac(IntBound(TruncOf(q)))
    BY WholeParts, IntBoundIs
  <2> QED BY <2>2, <2>3, PlusOoIs, IntegralIs
<1>2. CASE IsFrac(b)
  <2> DEFINE f == FloorOf(b)
             c == CeilOf(b)
             t == TruncOf(b)
  <2>1. /\ b[1] \in Int /\ b[2] \in Int /\ b[2] > 0 /\ ~IsInfty(b) /\ IsFrac(BoundNeg(b))
        /\ BoundNeg(b)[1] = -b[1] /\ BoundNeg(b)[2] = b[2] /\ ~IsInfty(BoundNeg(b))
    BY <1>2, NegIs, FracIs
  <2>2. f \in Int /\ c \in Int /\ t \in Int /\ b[1] <= c * b[2] /\ (b[1] >= 0 => f >= 0) /\ f <= c
    BY <1>2, WholeParts
  <2>3. BoundFloor(b) = IntBound(f)
    BY <2>1 DEF BoundFloor, FloorOf
  <2>4. BoundCeil(b) = IntBound(c)
    <3>1. BoundFloor(BoundNeg(b)) = IntBound((-b[1]) \div b[2])
      BY <2>1 DEF BoundFloor
    <3>2. (-b[1]) \div b[2] \in Int
      BY <2>1, QuotientIs
    <3> QED BY <3>1, <3>2, IntBoundIs DEF BoundCeil, CeilOf
  <2>5. BoundTrunc(b) = IntBound(t)
    <3>1. BoundSgn(b) < 0 <=> b[1] < 0
      BY <1>2, BoundKinds
    <3> QED BY <2>3, <2>4, <3>1 DEF BoundTrunc, TruncOf
  <2>6. ASSUME NEW m \in Int, NEW n \in Int, m <= n
        PROVE  AtMost(IntBound(m), IntBound(n))
    BY <2>6, IntBoundIs DEF AtMost
  <2>7. ASSUME NEW q, IsFrac(q), AtMost(q, b)
        PROVE  /\ FloorOf(q) <= f /\ CeilOf(q) <= c /\ TruncOf(q) <= t
    <3>1. q[1] \in Int /\ q[2] \in Int /\ q[2] > 0 /\ q[1] * b[2] <= b[1] * q[2]
      BY <2>7, NegIs DEF AtMost
    <3>2. /\ FloorOf(q) \in Int /\ CeilOf(q) \in Int
          /\ FloorOf(q) * q[2] <= q[1] /\ (CeilOf(q) - 1) * q[2] < q[1]
          /\ q[1] <= 0 => CeilOf(q) <= 0
      BY <2>7, WholeParts
    <3>3. \A k, q1, q2, b1, b2 \in Int : q2 > 0 /\ b2 > 0 /\ q1 * b2 <= b1 * q2 /\ k * q2 <= q1 => k * b2 <= b1
      <4> SUFFICES ASSUME NEW k \in Int, NEW q1 \in Int, NEW q2 \in Int, NEW b1 \in Int, NEW b2 \in Int,
                          q2 > 0, b2 > 0, q1 * b2 <= b1 * q2, k * q2 <= q1
                   PROVE  k * b2 <= b1
        OBVIOUS
      <4>1. (k * q2) * b2 <= q1 * b2
        OBVIOUS
      <4>2. (k * b2) * q2 <= b1 * q2
        BY <4>1
      <4> QED BY <4>2
    <3>4. \A k, q1, q2, b1, b2 \in Int : q2 > 0 /\ b2 > 0 /\ q1 * b2 <= b1 * q2 /\ k * q2 < q1 => k * b2 < b1
      <4> SUFFICES ASSUME NEW k \in Int, NEW q1 \in Int, NEW q2 \in Int, NEW b1 \in Int, NEW b2 \in Int,
                          q2 > 0, b2 > 0, q1 * b2 <= b1 * q2, k * q2 < q1
                   PROVE  k * b2 < b1
        OBVIOUS
      <4>1. (k * q2) * b2 < q1 * b2
        OBVIOUS
      <4>2. (k * b2) * q2 < b1 * q2
        BY <4>1
      <4> QED BY <4>2
    <3>5. FloorOf(q) <= f
      <4>1. FloorOf(q) * b[2] <= b[1]
        BY <2>1, <3>1, <3>2, <3>3
      <4> QED BY <2>1, <3>2, <4>1, QuotientIs DEF FloorOf
    <3>6. CeilOf(q) <= c
      <4> DEFINE k == CeilOf(q) - 1
      <4>1. k \in Int /\ k * q[2] < q[1]
        BY <3>2
      <4>2. k * b[2] < b[1]
        <5> HIDE DEF k
        <5> QED BY <2>1, <3>1, <3>4, <4>1
      <4>3. k * b[2] < c * b[2]
        <5>1. k * b[2] \in Int /\ c * b[2] \in Int
          BY <2>1, <2>2, <4>1
        <5> HIDE DEF k, c
        <5> QED BY <2>1, <2>2, <4>2, <5>1
      <4>4. k < c
        <5> HIDE DEF k, c
        <5> QED BY <2>1, <2>2, <4>1, <4>3
      <4> HIDE DEF c
      <4> QED BY <2>2, <3>2, <4>4
    <3>7. b[1] < 0 => q[1] < 0
      BY <1>2, <2>7, AtMostSign, FracIs
    <3>8. TruncOf(q) <= t
      <4>1. TruncOf(q) = (IF q[1] < 0 THEN CeilOf(q) ELSE FloorOf(q)) /\ t = IF b[1] < 0 THEN c ELSE f
        BY DEF TruncOf
      <4> HIDE DEF f, c, t
      <4> QED BY <2>1, <2>2, <3>1, <3>2, <3>5, <3>6, <3>7, <4>1
    <3> QED BY <3>5, <3>6, <3>8
  <2> HIDE DEF f, c, t
  <2>8. ASSUME NEW q, IsFrac(q), AtMost(q, b)
        PROVE  /\ AtMost(IntBound(FloorOf(q)), BoundFloor(b))
               /\ AtMost(IntBound(FloorOf(q)), BoundCeil(b))
               /\ AtMost(IntBound(CeilOf(q)), BoundCeil(b))
               /\ AtMost(IntBound(TruncOf(q)), BoundTrunc(b))
    <3>1. FloorOf(q) \in Int /\ CeilOf(q) \in Int /\ TruncOf(q) \in Int /\ FloorOf(q) <= CeilOf(q)
      BY <2>8, WholeParts
    <3>2. FloorOf(q) <= f /\ CeilOf(q) <= c /\ TruncOf(q) <= t /\ FloorOf(q) <= c
      <4>1. FloorOf(q) <= f /\ CeilOf(q) <= c /\ TruncOf(q) <= t
        BY <2>7, <2>8
      <4> QED BY <2>2, <3>1, <4>1
    <3> QED BY <2>2, <2>3, <2>4, <2>5, <2>6, <3>1, <3>2
  <2> QED BY <2>2, <2>3, <2>4, <2>5, <2>8, IntBoundIs, IntegralIs
<1> QED BY <1>1, <1>2 DEF IsBound

(* The integers a value may be rounded to.                                 *)
RoundedTo(q, dir) ==
  CASE dir = "DOWN" -> {FloorOf(q)}
    [] dir = "UP"   -> {CeilOf(q)}
    [] dir = "ZERO" -> {TruncOf(q)}
    [] OTHER        -> {FloorOf(q), CeilOf(q)}


LEMMA RoundIs ==
  ASSUME NEW a, IsItv(a), NEW dir \in Directions
  PROVE  /\ IsItv(Round(a, "INT", dir))
         /\ Integral(Round(a, "INT", dir).inf) /\ Integral(Round(a, "INT", dir).sup)
         /\ \A q : IsFrac(q) /\ In(q, a) =>
              \A m \in RoundedTo(q, dir) : m \in Int /\ In(IntBound(m), Round(a, "INT", dir))
<1>1. IsBound(a.inf) /\ IsBound(a.sup)
  BY DEF IsItv
<1>2. Round(a, "INT", dir) = CASE dir = "ZERO" -> ItvTrunc(a)
                               [] dir = "UP"   -> ItvCeil(a)
                               [] dir = "DOWN" -> ItvFloor(a)
                               [] dir \in {"RND", "NEAREST"} -> ItvToInt(a)
  BY DEF Round
<1>3. /\ dir = "ZERO" => Round(a, "INT", dir) = ItvTrunc(a)
      /\ dir = "UP" => Round(a, "INT", dir) = ItvCeil(a)
      /\ dir = "DOWN" => Round(a, "INT", dir) = ItvFloor(a)
      /\ dir \in {"RND", "NEAREST"} => Round(a, "INT", dir) = ItvToInt(a)
  BY <1>2
<1>4. /\ IsItv(ItvTrunc(a)) /\ Integral(ItvTrunc(a).inf) /\ Integral(ItvTrunc(a).sup)
      /\ IsItv(ItvCeil(a)) /\ Integral(ItvCeil(a).inf) /\ Integral(ItvCeil(a).sup)
      /\ IsItv(ItvFloor(a)) /\ Integral(ItvFloor(a).inf) /\ Integral(ItvFloor(a).sup)
      /\ IsItv(ItvToInt(a)) /\ Integral(ItvToInt(a).inf) /\ Integral(ItvToInt(a).sup)
  BY <1>1, RoundBound, ItvIs DEF ItvTrunc, ItvCeil, ItvFloor, ItvToInt
<1>5. ASSUME NEW q, IsFrac(q), In(q, a)
      PROVE  /\ In(IntBound(TruncOf(q)), ItvTrunc(a)) /\ In(IntBound(CeilOf(q)), ItvCeil(a))
             /\ In(IntBound(FloorOf(q)), ItvFloor(a)) /\ In(IntBound(FloorOf(q)), ItvToInt(a))
             /\ In(IntBound(CeilOf(q)), ItvToInt(a))
  <2>1. /\ IsFrac(BoundNeg(q)) /\ AtMost(q, a.sup) /\ AtMost(BoundNeg(q), a.inf)
        /\ FloorOf(q) \in Int /\ CeilOf(q) \in Int /\ TruncOf(q) \in Int
        /\ FloorOf(BoundNeg(q)) = -CeilOf(q) /\ CeilOf(BoundNeg(q)) = -FloorOf(q)
        /\ TruncOf(BoundNeg(q)) = -TruncOf(q)
    BY <1>5, NegIs, WholeParts DEF In
  <2>2. /\ BoundNeg(IntBound(FloorOf(q))) = IntBound(-FloorOf(q))
        /\ BoundNeg(IntBound(CeilOf(q))) = IntBound(-CeilOf(q))
        /\ BoundNeg(IntBound(TruncOf(q))) = IntBound(-TruncOf(q))
    BY <2>1, IntBoundIs
  <2>3. /\ AtMost(IntBound(FloorOf(q)), BoundFloor(a.sup))
        /\ AtMost(IntBound(FloorOf(q)), BoundCeil(a.sup))
        /\ AtMost(IntBound(CeilOf(q)), BoundCeil(a.sup))
        /\ AtMost(IntBound(TruncOf(q)), BoundTrunc(a.sup))
    BY <1>1, <1>5, <2>1, RoundBound
  <2>4. /\ AtMost(IntBound(-CeilOf(q)), BoundFloor(a.inf))
        /\ AtMost(IntBound(-CeilOf(q)), BoundCeil(a.inf))
        /\ AtMost(IntBound(-FloorOf(q)), BoundCeil(a.inf))
        /\ AtMost(IntBound(-TruncOf(q)), BoundTrunc(a.inf))
    <3>1. /\ AtMost(IntBound(FloorOf(BoundNeg(q))), BoundFloor(a.inf))
          /\ AtMost(IntBound(FloorOf(BoundNeg(q))), BoundCeil(a.inf))
          /\ AtMost(IntBound(CeilOf(BoundNeg(q))), BoundCeil(a.inf))
          /\ AtMost(IntBound(TruncOf(BoundNeg(q))), BoundTrunc(a.inf))
      BY <1>1, <2>1, RoundBound
    <3> QED BY <2>1, <3>1
  <2> QED BY <2>2, <2>3, <2>4 DEF In, ItvTrunc, ItvCeil, ItvFloor, ItvToInt, Itv
<1>6. ASSUME NEW q, IsFrac(q), In(q, a), NEW m \in RoundedTo(q, dir)
      PROVE  m \in Int /\ In(IntBound(m), Round(a, "INT", dir))
  <2>1. FloorOf(q) \in Int /\ CeilOf(q) \in Int /\ TruncOf(q) \in Int
    BY <1>6, WholeParts
  <2>2. \/ dir = "ZERO" /\ m = TruncOf(q)
        \/ dir = "UP" /\ m = CeilOf(q)
        \/ dir = "DOWN" /\ m = FloorOf(q)
        \/ dir \in {"RND", "NEAREST"} /\ m \in {FloorOf(q), CeilOf(q)}
    BY <1>6 DEF RoundedTo, Directions
  <2> QED BY <1>3, <1>5, <1>6, <2>1, <2>2
<1> QED BY <1>3, <1>4, <1>6 DEF Directions

-----------------------------------------------------------------------------
(***************************************************************************)
(* Magnitude and remainder.                                                *)
(***************************************************************************)
FracAbs(r) == IF r[1] < 0 THEN BoundNeg(r) ELSE r

LEMMA ZeroIs ==
  /\ IsBound(Zero) /\ IsFrac(Zero) /\ Zero[1] = 0 /\ Zero[2] = 1 /\ Integral(Zero)
  /\ \A q : IsFrac(q) => (AtMost(q, Zero) <=> q[1] <= 0)
<1>1. IsBound(Zero) /\ IsFrac(Zero) /\ Zero[1] = 0 /\ Zero[2] = 1 /\ Integral(Zero)
  BY IntBoundIs, IntegralIs DEF Zero
<1>2. ASSUME NEW q, IsFrac(q)
      PROVE  AtMost(q, Zero) <=> q[1] <= 0
  BY <1>1, <1>2, NegIs DEF AtMost
<1> QED BY <1>1, <1>2

LEMMA ItvAbsIs ==
  ASSUME NEW c, IsItv(c), NEW r, IsFrac(r), In(r, c)
  PROVE  /\ IsItv(ItvAbs(c)) /\ IsFrac(FracAbs(r)) /\ In(FracAbs(r), ItvAbs(c))
         /\ ItvAbs(c).inf[1] <= 0 /\ ItvAbs(c).sup[1] >= 0
<1>1. /\ IsFrac(BoundNeg(r)) /\ r[1] \in Int /\ r[2] \in Int /\ BoundNeg(r)[1] = -r[1] /\ BoundNeg(r)[2] = r[2]
      /\ r = <<r[1], r[2]>> /\ BoundNeg(r) = <<-r[1], r[2]>>
  BY NegIs, FracIs DEF BoundNeg
<1>2. IsBound(c.inf) /\ IsBound(c.sup) /\ c.inf[1] \in Int /\ c.sup[1] \in Int
  BY ItvSides, BoundKinds
<1>3. IsFrac(FracAbs(r)) /\ FracAbs(r)[1] >= 0 /\ FracAbs(r)[1] \in Int
  BY <1>1 DEF FracAbs
<1>4. CASE Positive(c)
  <2>1. ItvAbs(c) = c /\ c.inf[1] <= 0 /\ c.sup[1] >= 0 /\ r[1] >= 0
    BY <1>4, ItvSides DEF ItvAbs
  <2>2. FracAbs(r) = r
    BY <1>1, <2>1 DEF FracAbs
  <2> QED BY <1>3, <2>1, <2>2
<1>5. CASE ~Positive(c) /\ Negative(c)
  <2>1. ItvAbs(c) = Swap(c) /\ c.sup[1] <= 0 /\ c.inf[1] >= 0 /\ r[1] <= 0
    BY <1>5, ItvSides DEF ItvAbs, ItvNeg
  <2>2. FracAbs(r) = BoundNeg(r)
    <3>1. CASE r[1] < 0
      BY <3>1 DEF FracAbs
    <3>2. CASE r[1] >= 0
      <4>1. \A x \in Int : x <= 0 /\ x >= 0 => -x = x
        OBVIOUS
      <4>2. -r[1] = r[1]
        BY <1>1, <2>1, <3>2, <4>1
      <4>3. ~(r[1] < 0)
        BY <1>1, <3>2
      <4> QED BY <1>1, <4>2, <4>3 DEF FracAbs
    <3> QED BY <1>1, <3>1, <3>2
  <2> QED BY <2>1, <2>2, <1>1, ItvSides
<1>6. CASE ~Positive(c) /\ ~Negative(c)
  <2>1. ItvAbs(c) = Itv(Zero, BoundMax(c.inf, c.sup)) /\ c.inf[1] > 0 /\ c.sup[1] > 0
    BY <1>2, <1>6, ItvSides DEF ItvAbs
  <2>2. IsBound(BoundMax(c.inf, c.sup)) /\ BoundMax(c.inf, c.sup)[1] >= 0
    <3>1. BoundMax(c.inf, c.sup) \in {c.inf, c.sup}
      BY <1>2, MinMax
    <3> QED BY <1>2, <2>1, <3>1
  <2>3. AtMost(r, c.sup) /\ AtMost(BoundNeg(r), c.inf)
    BY DEF In
  <2>4. AtMost(FracAbs(r), BoundMax(c.inf, c.sup))
    BY <1>1, <1>2, <2>3, MinMax DEF FracAbs
  <2>5. AtMost(BoundNeg(FracAbs(r)), Zero)
    <3>1. IsFrac(BoundNeg(FracAbs(r))) /\ BoundNeg(FracAbs(r))[1] = -FracAbs(r)[1]
      BY <1>3, NegIs
    <3>2. -FracAbs(r)[1] <= 0
      BY <1>3
    <3> QED BY <3>1, <3>2, ZeroIs
  <2> QED BY <1>3, <2>1, <2>2, <2>4, <2>5, ItvIs, ZeroIs DEF In
<1> QED BY <1>4, <1>5, <1>6

LEMMA RemainderIs ==
  ASSUME NEW a \in Int, NEW m \in Int, m > 0
  PROVE  LET T == TruncOf(Num(a, m))
             rem == IF a < 0 THEN -((-a) % m) ELSE a % m
         IN /\ T \in Int /\ rem \in Int /\ a - T * m = rem
            /\ a >= 0 => rem >= 0 /\ rem <= m - 1
            /\ a < 0 => rem <= 0 /\ -rem <= m - 1
            /\ -rem <= m - 1 /\ rem <= m - 1
<1> DEFINE T == TruncOf(Num(a, m))
           rem == IF a < 0 THEN -((-a) % m) ELSE a % m
<1>1. \A x \in Int : x % m \in Int /\ 0 <= x % m /\ x % m < m /\ x = m * (x \div m) + (x % m) /\ x \div m \in Int
  OBVIOUS
<1> DEFINE Facts == /\ T \in Int /\ rem \in Int /\ a - T * m = rem
                    /\ a >= 0 => rem >= 0 /\ rem <= m - 1
                    /\ a < 0 => rem <= 0 /\ -rem <= m - 1
                    /\ -rem <= m - 1 /\ rem <= m - 1
<1>a. Num(-a, m) = BoundNeg(Num(a, m)) /\ -a \in Int
  BY NumNeg
<1>b. Num(a, m)[1] < 0 <=> a < 0
  <2>1. IsFrac(Num(a, m)) /\ (Num(a, m)[1] >= 0 <=> a >= 0)
    BY AtMostNum
  <2> QED BY <2>1, NegIs
<1>2. ASSUME a < 0 PROVE Facts
  <2>1. -a \in Int /\ T = -((-a) \div m) /\ rem = -((-a) % m)
    <3>1. Num(-a, m)[1] \div Num(-a, m)[2] = (-a) \div m
      BY <1>a, NumQuotient
    <3>2. Num(-a, m)[1] = -Num(a, m)[1] /\ Num(-a, m)[2] = Num(a, m)[2]
      BY <1>a DEF BoundNeg
    <3> QED BY <1>2, <1>a, <1>b, <3>1, <3>2 DEF TruncOf, CeilOf
  <2> DEFINE u == (-a) % m
             v == (-a) \div m
  <2>2. u \in Int /\ v \in Int /\ 0 <= u /\ u < m /\ -a = m * v + u
    BY <1>1, <2>1
  <2>3. T = -v /\ rem = -u
    BY <2>1
  <2> HIDE DEF u, v, T, rem
  <2> QED BY <1>2, <2>2, <2>3
<1>3. ASSUME ~(a < 0) PROVE Facts
  <2>1. T = a \div m /\ rem = a % m
    BY <1>3, <1>b, NumQuotient DEF TruncOf, FloorOf
  <2> DEFINE u == a % m
             v == a \div m
  <2>2. u \in Int /\ v \in Int /\ 0 <= u /\ u < m /\ a = m * v + u
    BY <1>1
  <2>3. T = v /\ rem = u
    BY <2>1
  <2> HIDE DEF u, v, T, rem
  <2> QED BY <1>3, <2>2, <2>3
<1>4. Facts
  BY <1>2, <1>3
<1> QED BY <1>4

(* The parts of ItvMod.                                                    *)
ModParts(b, m) == ItvMul(ItvTrunc(ItvDiv(b, m)), m)
ModRange(b, m) ==
  LET r == BoundAdd(m.sup, IntBound(-1))
  IN IF BoundSgn(b.sup) < 0 THEN Itv(r, Zero)
     ELSE IF BoundSgn(b.inf) > 0 THEN Itv(r, r) ELSE Itv(Zero, r)

LEMMA ItvModOpens ==
  ASSUME NEW b, NEW c
  PROVE  LET m == ItvAbs(c)
         IN ItvMod(b, c, TRUE) = IF BoundSgn(m.inf) = 0 THEN ItvTop
                                 ELSE ItvMeet(ItvSub(b, ModParts(b, m)), ModRange(b, m))
BY DEF ItvMod, ModParts, ModRange

LEMMA ItvTruncIs ==
  ASSUME NEW a, IsItv(a)
  PROVE  /\ IsItv(ItvTrunc(a)) /\ Integral(ItvTrunc(a).inf) /\ Integral(ItvTrunc(a).sup)
         /\ \A q : IsFrac(q) /\ In(q, a) => TruncOf(q) \in Int /\ In(IntBound(TruncOf(q)), ItvTrunc(a))
<1>1. Round(a, "INT", "ZERO") = ItvTrunc(a) /\ "ZERO" \in Directions
  BY DEF Round, Directions
<1>2. \A q : RoundedTo(q, "ZERO") = {TruncOf(q)}
  BY DEF RoundedTo
<1> QED BY <1>1, <1>2, RoundIs

LEMMA ModRangeIs ==
  ASSUME NEW b, NEW m, IsItv(b), IsItv(m)
  PROVE  IsItv(ModRange(b, m)) /\ IsBound(BoundAdd(m.sup, IntBound(-1)))
BY ItvSides, AddUp, IntBoundIs, ItvIs, ZeroIs DEF ModRange

LEMMA ItvModIs ==
  ASSUME NEW b, NEW c, IsItv(b), IsItv(c), NEW x, NEW y, IsFrac(x), IsFrac(y), In(x, b), In(y, c)
  PROVE  /\ IsItv(ItvMod(b, c, TRUE))
         /\ x[2] = 1 /\ y[2] = 1 /\ y[1] # 0 =>
              In(IntBound(IF x[1] < 0 THEN -((-x[1]) % Abs(y[1])) ELSE x[1] % Abs(y[1])), ItvMod(b, c, TRUE))
         /\ x[2] = 1 /\ y[2] = 1 => ~IsEmptyItv(ItvMod(b, c, TRUE))
<1> DEFINE m == ItvAbs(c)
           z == FracAbs(y)
           q == ModParts(b, m)
<1>1. IsItv(m) /\ IsFrac(z) /\ In(z, m) /\ m.inf[1] <= 0 /\ m.sup[1] >= 0
  BY ItvAbsIs
<1>2. ItvMod(b, c, TRUE) = IF BoundSgn(m.inf) = 0 THEN ItvTop ELSE ItvMeet(ItvSub(b, q), ModRange(b, m))
  BY ItvModOpens
<1>3. CASE BoundSgn(m.inf) = 0
  <2> HIDE DEF m, q
  <2>1. ItvMod(b, c, TRUE) = ItvTop
    BY <1>2, <1>3
  <2>2. x[2] = 1 /\ y[2] = 1 /\ y[1] # 0 =>
          IsFrac(IntBound(IF x[1] < 0 THEN -((-x[1]) % Abs(y[1])) ELSE x[1] % Abs(y[1])))
    <3> SUFFICES ASSUME y[1] # 0
                 PROVE  (IF x[1] < 0 THEN -((-x[1]) % Abs(y[1])) ELSE x[1] % Abs(y[1])) \in Int
      BY IntBoundIs
    <3>1. x[1] \in Int /\ y[1] \in Int
      BY NegIs
    <3>2. Abs(y[1]) \in Int /\ Abs(y[1]) > 0
      BY <3>1 DEF Abs
    <3> QED BY <3>1, <3>2, RemainderIs
  <2> QED BY <2>1, <2>2, ItvTopIs, NonEmptyIs
<1>4. CASE BoundSgn(m.inf) # 0
  <2>1. m.inf[1] < 0 /\ z[1] > 0 /\ IsBound(m.sup) /\ IsBound(m.inf) /\ m.inf[1] \in Int
    <3>1. IsBound(m.sup) /\ IsBound(m.inf) /\ m.inf[1] \in Int /\ m.inf[1] # 0
      <4> HIDE DEF m
      <4> QED BY <1>1, <1>4, ItvSides, BoundKinds
    <3>2. m.inf[1] < 0
      <4> HIDE DEF m
      <4> QED BY <1>1, <3>1
    <3> HIDE DEF m, z
    <3> QED BY <1>1, <3>1, <3>2, ItvSides
  <2> DEFINE t == FracDiv(x, z)
             T == TruncOf(t)
  <2>2. IsItv(ItvDiv(b, m)) /\ IsFrac(t) /\ In(t, ItvDiv(b, m))
    <3>0. z[1] # 0
      <4> HIDE DEF z
      <4> QED BY <1>1, <2>1, NegIs
    <3> HIDE DEF m, z
    <3> QED BY <1>1, <3>0, ItvDivIs
  <2>3. IsItv(ItvTrunc(ItvDiv(b, m))) /\ T \in Int /\ In(IntBound(T), ItvTrunc(ItvDiv(b, m)))
    <3> HIDE DEF m, t
    <3> QED BY <2>2, ItvTruncIs
  <2>4. IsItv(q) /\ In(FracMul(IntBound(T), z), q) /\ IsFrac(FracMul(IntBound(T), z))
    <3> HIDE DEF m, T, z
    <3> QED BY <1>1, <2>3, ItvMulIs, IntBoundIs, FracOps DEF ModParts
  <2> DEFINE R == ModRange(b, m)
             w == FracAdd(x, BoundNeg(FracMul(IntBound(T), z)))
  <2>5. IsItv(ItvSub(b, q)) /\ In(w, ItvSub(b, q))
    <3> HIDE DEF q, T, z
    <3> QED BY <2>4, ItvAddIs
  <2>6. IsItv(R) /\ IsBound(BoundAdd(m.sup, IntBound(-1)))
    <3> HIDE DEF m
    <3> QED BY <1>1, ModRangeIs
  <2>7. ItvMod(b, c, TRUE) = ItvMeet(ItvSub(b, q), R)
    BY <1>2, <1>4
  <2>8. IsItv(ItvMod(b, c, TRUE))
    <3> HIDE DEF q, R
    <3> QED BY <2>5, <2>6, <2>7, ItvLattice
  <2>9. ASSUME x[2] = 1, y[2] = 1
        PROVE  In(IntBound(IF x[1] < 0 THEN -((-x[1]) % Abs(y[1])) ELSE x[1] % Abs(y[1])), ItvMod(b, c, TRUE))
    <3> DEFINE a == x[1]
               k == Abs(y[1])
               rem == IF a < 0 THEN -((-a) % k) ELSE a % k
    <3>1. a \in Int /\ y[1] \in Int /\ k \in Int /\ z = <<k, 1>> /\ x = <<a, 1>>
      <4>1. x[1] \in Int /\ y[1] \in Int /\ x = <<x[1], x[2]>> /\ y = <<y[1], y[2]>>
        BY NegIs, FracIs
      <4> QED BY <2>9, <4>1 DEF FracAbs, BoundNeg, Abs
    <3>2. k > 0
      BY <2>1, <3>1
    <3>3. t = Num(a, k)
      <4>1. a * 1 = a /\ 1 * k = k
        BY <3>1
      <4> QED BY <3>1, <3>2, <4>1 DEF FracDiv
    <3>4. /\ T \in Int /\ rem \in Int /\ a - T * k = rem
          /\ a >= 0 => rem >= 0 /\ rem <= k - 1
          /\ a < 0 => rem <= 0 /\ -rem <= k - 1
          /\ -rem <= k - 1 /\ rem <= k - 1
      <4> HIDE DEF t, k, a
      <4> QED BY <3>1, <3>2, <3>3, RemainderIs
    <3> HIDE DEF rem, T, z, k, a
    <3>5. w = IntBound(rem)
      <4>1. z = IntBound(k) /\ x = IntBound(a) /\ T * k \in Int
        BY <3>1, <3>4 DEF IntBound
      <4>a. k \in Int /\ T \in Int
        BY <3>1, <3>4
      <4>b. FracMul(IntBound(T), IntBound(k)) = IntBound(T * k)
        BY ONLY <4>a, IntOps
      <4>2. FracMul(IntBound(T), z) = IntBound(T * k)
        BY <4>1, <4>b
      <4>3. w = IntBound(a - T * k)
        BY <3>1, <4>1, <4>2, IntOps
      <4> QED BY <3>4, <4>3
    <3> DEFINE r == BoundAdd(m.sup, IntBound(-1))
    <3>6. AtMost(IntBound(k - 1), r) /\ IsBound(r)
      <4>1. AtMost(z, m.sup) /\ IntBound(-1) = <<-1, 1>>
        BY <1>1 DEF In, IntBound
      <4>2. IsFrac(IntBound(-1)) /\ IsBound(IntBound(-1)) /\ AtMost(IntBound(-1), IntBound(-1))
        BY IntBoundIs DEF AtMost
      <4>3. AtMost(FracAdd(z, IntBound(-1)), r)
        <5> HIDE DEF m
        <5> QED BY <1>1, <2>1, <4>1, <4>2, AddUp
      <4>4. FracAdd(z, IntBound(-1)) = IntBound(k - 1)
        <5>1. z = IntBound(k) /\ k + (-1) = k - 1 /\ -1 \in Int
          BY <3>1 DEF IntBound
        <5> QED BY <3>1, <5>1, IntOps
      <4> QED BY <2>6, <4>3, <4>4
    <3>7. ASSUME NEW v \in Int, v <= k - 1
          PROVE  AtMost(IntBound(v), r)
      <4>1. BoundCmp(IntBound(k - 1), r) <= 0
        <5> HIDE DEF r
        <5> QED BY <3>1, <3>6, IntBoundIs, BoundCmpIs
      <4>2. AtMost(IntBound(v), IntBound(k - 1))
        BY <3>1, <3>7, IntBoundIs DEF AtMost
      <4> HIDE DEF r
      <4> QED BY <3>1, <3>6, <4>1, <4>2, IntBoundIs, AtMostTransitive
    <3>8. In(IntBound(rem), R)
      <4>1. /\ BoundNeg(IntBound(rem)) = IntBound(-rem) /\ -rem \in Int
            /\ IsFrac(IntBound(rem)) /\ IsFrac(IntBound(-rem))
            /\ IntBound(rem)[1] = rem /\ IntBound(-rem)[1] = -rem
        BY <3>4, IntBoundIs
      <4>2. AtMost(IntBound(rem), r) /\ AtMost(IntBound(-rem), r)
        BY <3>4, <3>7, <4>1
      <4>3. BoundSgn(b.sup) < 0 <=> b.sup[1] < 0
        BY ItvSides, BoundKinds
      <4>4. BoundSgn(b.inf) > 0 <=> b.inf[1] > 0
        BY ItvSides, BoundKinds
      <4>5. CASE b.sup[1] < 0
        <5>1. a < 0
          BY <4>5, ItvSides DEF a
        <5>2. AtMost(IntBound(rem), Zero)
          BY <3>4, <4>1, <5>1, ZeroIs
        <5>3. R = Itv(r, Zero)
          BY <4>3, <4>5 DEF ModRange
        <5> HIDE DEF R, r
        <5> QED BY <4>1, <4>2, <5>2, <5>3 DEF In, Itv
      <4>6. CASE ~(b.sup[1] < 0) /\ b.inf[1] > 0
        <5>1. R = Itv(r, r)
          BY <4>3, <4>4, <4>6 DEF ModRange
        <5> HIDE DEF R, r
        <5> QED BY <4>1, <4>2, <5>1 DEF In, Itv
      <4>7. CASE ~(b.sup[1] < 0) /\ ~(b.inf[1] > 0)
        <5>1. R = Itv(Zero, r)
          BY <4>3, <4>4, <4>7 DEF ModRange
        <5>2. b.inf[1] <= 0
          <6>1. b.inf[1] \in Int
            BY ItvSides, BoundKinds
          <6> QED BY <4>7, <6>1
        <5>3. a >= 0
          BY <5>2, ItvSides DEF a
        <5>4. -rem <= 0
          BY <3>4, <5>3
        <5>5. AtMost(IntBound(-rem), Zero)
          BY <4>1, <5>4, ZeroIs
        <5> HIDE DEF R, r
        <5> QED BY <4>1, <4>2, <5>1, <5>5 DEF In, Itv
      <4> QED BY <4>5, <4>6, <4>7
    <3>9. IsFrac(IntBound(rem))
      BY <3>4, IntBoundIs
    <3>10. In(IntBound(rem), ItvMod(b, c, TRUE))
      <4> HIDE DEF R, q, w, m
      <4>1. In(IntBound(rem), ItvSub(b, q))
        BY <2>5, <3>5
      <4>2. In(IntBound(rem), ItvMeet(ItvSub(b, q), R))
        BY <2>5, <2>6, <3>8, <3>9, <4>1, ItvLattice
      <4> QED BY <2>7, <4>2
    <3> QED BY <3>10 DEF rem, a, k
  <2>10. ASSUME x[2] = 1, y[2] = 1
         PROVE  ~IsEmptyItv(ItvMod(b, c, TRUE))
    <3>1. (IF x[1] < 0 THEN -((-x[1]) % Abs(y[1])) ELSE x[1] % Abs(y[1])) \in Int
      <4>1. x[1] \in Int /\ y[1] \in Int
        BY NegIs
      <4>2. y[1] # 0
        BY <2>1, <4>1 DEF FracAbs, BoundNeg
      <4>3. Abs(y[1]) \in Int /\ Abs(y[1]) > 0
        BY <4>1, <4>2 DEF Abs
      <4> QED BY <4>1, <4>3, RemainderIs
    <3> QED BY <2>8, <2>9, <2>10, <3>1, IntBoundIs, NonEmptyIs
  <2> QED BY <2>8, <2>9, <2>10
<1> QED BY <1>3, <1>4

-----------------------------------------------------------------------------
(***************************************************************************)
(* Recursive functions exist.                                              *)
(***************************************************************************)
(* Step by step from a, within R.                                          *)
Steps(g, a, st, n) == g[0] = a /\ \A k \in 1 .. n : g[k] = st[k][g[k - 1]]

LEMMA SomeSequence ==
  ASSUME NEW n \in Nat, NEW R, NEW a \in R, NEW st \in [1 .. n -> [R -> R]]
  PROVE  \E g : g \in [0 .. n -> R] /\ Steps(g, a, st, n)
<1> DEFINE P(m, g) == g[0] = a /\ \A k \in 1 .. m : g[k] = st[k][g[k - 1]]
           S == {m \in 0 .. n : \E g \in [0 .. n -> R] : P(m, g)}
<1>1. 0 \in S
  <2> DEFINE g == [k \in 0 .. n |-> a]
  <2>1. g \in [0 .. n -> R] /\ P(0, g)
    OBVIOUS
  <2> HIDE DEF g, P
  <2> QED BY <2>1
<1>2. ASSUME NEW m \in 0 .. n - 1, m \in S
      PROVE  m + 1 \in S
  <2>1. PICK g \in [0 .. n -> R] : P(m, g)
    BY <1>2
  <2>2. m \in Nat /\ m + 1 \in 1 .. n /\ m \in 0 .. n /\ m + 1 \in 0 .. n
    OBVIOUS
  <2> DEFINE x == st[m + 1][g[m]]
             h == [g EXCEPT ![m + 1] = x]
  <2>3. x \in R
    BY <2>2
  <2>4. h \in [0 .. n -> R]
    BY <2>2, <2>3
  <2>5. \A k \in 0 .. n : h[k] = IF k = m + 1 THEN x ELSE g[k]
    BY <2>2
  <2> HIDE DEF h
  <2>6. h[0] = a
    BY <2>1, <2>2, <2>5
  <2>7. ASSUME NEW k \in 1 .. m + 1
        PROVE  h[k] = st[k][h[k - 1]]
    <3>1. k \in 0 .. n /\ k - 1 \in 0 .. n /\ k - 1 # m + 1
      BY <2>2
    <3>2. h[k - 1] = g[k - 1]
      BY <3>1, <2>5
    <3>3. CASE k = m + 1
      BY <3>1, <3>2, <3>3, <2>5, <2>2
    <3>4. CASE k # m + 1
      <4>1. k \in 1 .. m
        BY <3>4, <2>2
      <4> QED BY <3>1, <3>2, <3>4, <4>1, <2>5, <2>1
    <3> QED BY <3>3, <3>4
  <2>8. P(m + 1, h)
    BY <2>6, <2>7
  <2> QED BY <2>2, <2>4, <2>8
<1>3. n \in S
  <2> HIDE DEF S
  <2>1. 0 .. n \subseteq S
    BY <1>1, <1>2, UpTo
  <2> QED BY <2>1
<1> QED BY <1>3 DEF Steps

-----------------------------------------------------------------------------
(***************************************************************************)
(* Places in an order.                                                     *)
(***************************************************************************)
(* The members of a finite set that f maps below that of v.                *)
Below(v, S, f) == {u \in S : f[u] < f[v]}

(* Counting what is below gives every member another place, and leaves     *)
(* none out.                                                               *)
LEMMA PlacesAreOneToOne ==
  ASSUME NEW S, IsFiniteSet(S), NEW f, \A v \in S : f[v] \in Int,
         \A u, v \in S : f[u] = f[v] => u = v
  PROVE  /\ Cardinality(S) \in Nat
         /\ \A v \in S : Cardinality(Below(v, S, f)) \in 0 .. Cardinality(S) - 1
         /\ \A u, v \in S : Cardinality(Below(u, S, f)) = Cardinality(Below(v, S, f)) => u = v
         /\ \A k \in 0 .. Cardinality(S) - 1 : \E v \in S : Cardinality(Below(v, S, f)) = k
<1> DEFINE place == [v \in S |-> Cardinality(Below(v, S, f))]
           n == Cardinality(S)
<1>1. n \in Nat
  BY FS_CardinalityType
<1>2. \A v \in S : Below(v, S, f) \in SUBSET S /\ v \notin Below(v, S, f)
  BY DEF Below
<1>3. ASSUME NEW T, NEW U, IsFiniteSet(U), T \subseteq U, NEW x \in U, x \notin T
      PROVE  Cardinality(T) \in Nat /\ Cardinality(T) < Cardinality(U)
  BY <1>3, FS_Subset, FS_CardinalityType
<1>4. \A v \in S : Cardinality(Below(v, S, f)) \in 0 .. n - 1
  BY <1>1, <1>2, <1>3
<1>5. ASSUME NEW u \in S, NEW v \in S, f[u] < f[v]
      PROVE  Cardinality(Below(u, S, f)) < Cardinality(Below(v, S, f))
  <2>1. Below(u, S, f) \subseteq Below(v, S, f) /\ u \in Below(v, S, f)
    BY <1>5 DEF Below
  <2>2. IsFiniteSet(Below(v, S, f))
    BY <1>2, FS_Subset
  <2> QED BY <1>2, <1>3, <2>1, <2>2
<1>6. \A u, v \in S : Cardinality(Below(u, S, f)) = Cardinality(Below(v, S, f)) => u = v
  <2> SUFFICES ASSUME NEW u \in S, NEW v \in S, u # v
               PROVE  Cardinality(Below(u, S, f)) # Cardinality(Below(v, S, f))
    OBVIOUS
  <2>1. f[u] < f[v] \/ f[v] < f[u]
    OBVIOUS
  <2>2. Cardinality(Below(u, S, f)) \in Nat /\ Cardinality(Below(v, S, f)) \in Nat
    BY <1>4, <1>1
  <2> QED BY <2>1, <2>2, <1>5
<1>7. place \in Injection(S, 0 .. n - 1)
  BY <1>4, <1>6 DEF Injection, IsInjective
<1>8. IsFiniteSet(0 .. n - 1) /\ Cardinality(0 .. n - 1) = n
  BY <1>1, FS_Interval
<1>9. place \in Surjection(S, 0 .. n - 1)
  BY <1>7, <1>8, FS_Injection
<1>10. \A k \in 0 .. n - 1 : \E v \in S : place[v] = k
  BY <1>9 DEF Surjection
<1> QED BY <1>1, <1>4, <1>6, <1>10

(* Nth undoes Rank.                                                        *)
LEMMA RankAndNth ==
  ASSUME NEW S \in SUBSET Int, IsFiniteSet(S)
  PROVE  /\ Cardinality(S) \in Nat
         /\ \A i \in S : Rank(i, S) \in 0 .. Cardinality(S) - 1 /\ Nth(Rank(i, S), S) = i
         /\ \A k \in 0 .. Cardinality(S) - 1 : Nth(k, S) \in S /\ Rank(Nth(k, S), S) = k
<1> DEFINE f == [i \in S |-> i]
<1>1. \A i \in S : Rank(i, S) = Cardinality(Below(i, S, f))
  BY DEF Rank, Below
<1>2. /\ Cardinality(S) \in Nat
      /\ \A i \in S : Rank(i, S) \in 0 .. Cardinality(S) - 1
      /\ \A i, j \in S : Rank(i, S) = Rank(j, S) => i = j
      /\ \A k \in 0 .. Cardinality(S) - 1 : \E i \in S : Rank(i, S) = k
  <2>1. (\A v \in S : f[v] \in Int) /\ \A u, v \in S : f[u] = f[v] => u = v
    OBVIOUS
  <2> HIDE DEF f
  <2>2. /\ Cardinality(S) \in Nat
        /\ \A v \in S : Cardinality(Below(v, S, f)) \in 0 .. Cardinality(S) - 1
        /\ \A u, v \in S : Cardinality(Below(u, S, f)) = Cardinality(Below(v, S, f)) => u = v
        /\ \A k \in 0 .. Cardinality(S) - 1 : \E v \in S : Cardinality(Below(v, S, f)) = k
    BY <2>1, PlacesAreOneToOne
  <2>3. \A i \in S : Rank(i, S) \in 0 .. Cardinality(S) - 1
    BY <1>1, <2>2
  <2>4. \A i, j \in S : Rank(i, S) = Rank(j, S) => i = j
    BY <1>1, <2>2
  <2>5. \A k \in 0 .. Cardinality(S) - 1 : \E i \in S : Rank(i, S) = k
    BY <1>1, <2>2
  <2> QED BY <2>2, <2>3, <2>4, <2>5
<1>3. \A k \in 0 .. Cardinality(S) - 1 : Nth(k, S) \in S /\ Rank(Nth(k, S), S) = k
  BY <1>2 DEF Nth
<1> QED BY <1>2, <1>3

LEMMA AscendingIs ==
  ASSUME NEW S \in SUBSET Int, IsFiniteSet(S)
  PROVE  /\ Len(Ascending(S)) = Cardinality(S) /\ Len(Ascending(S)) \in Nat
         /\ DOMAIN Ascending(S) = 1 .. Len(Ascending(S))
         /\ \A k \in 1 .. Len(Ascending(S)) : Ascending(S)[k] \in S
         /\ \A i \in S : \E k \in 1 .. Len(Ascending(S)) : Ascending(S)[k] = i
         /\ \A j, k \in 1 .. Len(Ascending(S)) : Ascending(S)[j] = Ascending(S)[k] => j = k
<1> DEFINE n == Cardinality(S)
<1>1. n \in Nat
  BY RankAndNth
<1>2. Ascending(S) = [k \in 1 .. n |-> Nth(k - 1, S)]
  BY DEF Ascending
<1>3. Len(Ascending(S)) = n /\ DOMAIN Ascending(S) = 1 .. n
  <2> HIDE DEF n
  <2> QED BY <1>1, <1>2
<1>4. ASSUME NEW k \in 1 .. n
      PROVE  Ascending(S)[k] = Nth(k - 1, S) /\ Nth(k - 1, S) \in S /\ Rank(Nth(k - 1, S), S) = k - 1
  <2>1. k - 1 \in 0 .. n - 1
    BY <1>1
  <2> HIDE DEF n
  <2>2. Ascending(S)[k] = Nth(k - 1, S)
    BY <1>2
  <2> QED BY <2>1, <2>2, RankAndNth DEF n
<1>5. ASSUME NEW i \in S
      PROVE  \E k \in 1 .. n : Ascending(S)[k] = i
  <2>1. Rank(i, S) \in 0 .. n - 1 /\ Nth(Rank(i, S), S) = i
    BY RankAndNth
  <2>2. Rank(i, S) + 1 \in 1 .. n /\ (Rank(i, S) + 1) - 1 = Rank(i, S)
    BY <2>1, <1>1
  <2> HIDE DEF n
  <2> QED BY <2>1, <2>2, <1>4
<1>6. ASSUME NEW j \in 1 .. n, NEW k \in 1 .. n, Ascending(S)[j] = Ascending(S)[k]
      PROVE  j = k
  <2>1. j - 1 = k - 1
    BY <1>4, <1>6
  <2> QED BY <2>1, <1>1
<1> QED BY <1>1, <1>3, <1>4, <1>5, <1>6

-----------------------------------------------------------------------------
(***************************************************************************)
(* Evaluation.                                                             *)
(***************************************************************************)
(* The interval of a node, from those of its operands.                     *)
NodeItv(n, env, x, y) ==
  CASE n.op = "CST" -> n.itv
    [] n.op = "DIM" -> env[n.dim]
    [] n.op \in Unary /\ IsEmptyItv(x) -> x
    [] n.op \in Binary /\ (IsEmptyItv(x) \/ IsEmptyItv(y)) -> ItvBottom
    [] OTHER -> EvalNode(n, x, IF n.op \in Unary THEN x ELSE y)

IsLeaf(n) == n.op \in {"CST", "DIM"}

LEMMA NodeKinds ==
  ASSUME NEW uses, NEW i \in Nat, NEW n, IsNode(n, i, uses)
  PROVE  /\ IsLeaf(n) \/ (n.op \in Operators /\ n.a \in 1 .. i - 1 /\ n.b \in 1 .. i - 1 /\ n.type = "INT" /\ n.dir \in Directions)
         /\ IsLeaf(n) => n.op \notin Operators
         /\ n.op = "CST" => /\ IsItv(n.itv) /\ ~IsEmptyItv(n.itv) /\ IntegerItv(n.itv)
                            /\ n.ints \subseteq Int /\ \A k \in n.ints : InItv(k, n.itv)
         /\ n.op = "DIM" => n.dim \in uses
  BY DEF IsNode, IsLeaf, Operators, Unary, Binary

(* The recursion has a solution: each interval depends on earlier ones.    *)
LEMMA EvalNodesIs ==
  ASSUME NEW expr, NEW uses, IsTexpr(expr, uses), NEW env
  PROVE  \A i \in 1 .. Len(expr) :
           EvalNodes(expr, env)[i] =
             NodeItv(expr[i], env, EvalNodes(expr, env)[expr[i].a], EvalNodes(expr, env)[expr[i].b])
<1> DEFINE N == Len(expr)
           E(i, g) == NodeItv(expr[i], env, g[expr[i].a], g[expr[i].b])
           F(g) == [i \in DOMAIN expr |->
                      CASE expr[i].op = "CST" -> expr[i].itv
                        [] expr[i].op = "DIM" -> env[expr[i].dim]
                        [] expr[i].op \in Unary /\ IsEmptyItv(g[expr[i].a]) -> g[expr[i].a]
                        [] expr[i].op \in Binary /\ (IsEmptyItv(g[expr[i].a]) \/ IsEmptyItv(g[expr[i].b])) -> ItvBottom
                        [] OTHER -> EvalNode(expr[i], g[expr[i].a], g[IF expr[i].op \in Unary THEN expr[i].a ELSE expr[i].b])]
           val == CHOOSE g : g = F(g)
           P(m, g) == g = [i \in 1 .. m |-> g[i]] /\ \A i \in 1 .. m : g[i] = E(i, g)
           S == {m \in 0 .. N : \E g : P(m, g)}
<1>0. N \in Nat /\ DOMAIN expr = 1 .. N /\ \A i \in 1 .. N : IsNode(expr[i], i, uses)
  BY DEF IsTexpr, IsSequence
<1>1. EvalNodes(expr, env) = val
  BY DEF EvalNodes
<1>2. \A g : F(g) = [i \in 1 .. N |-> F(g)[i]]
  BY <1>0
<1>3. ASSUME NEW g, NEW i \in 1 .. N
      PROVE  F(g)[i] = E(i, g)
  <2>1. CASE expr[i].op \in Unary
    BY <1>0, <2>1 DEF NodeItv
  <2>2. CASE expr[i].op \notin Unary
    BY <1>0, <2>2 DEF NodeItv
  <2> QED BY <2>1, <2>2
<1>4. ASSUME NEW i \in 1 .. N, NEW g, NEW h, \A j \in 1 .. i - 1 : g[j] = h[j]
      PROVE  E(i, g) = E(i, h)
  <2>1. CASE IsLeaf(expr[i])
    BY <2>1 DEF NodeItv, IsLeaf, Unary, Binary
  <2>2. CASE ~IsLeaf(expr[i])
    <3>1. expr[i].a \in 1 .. i - 1 /\ expr[i].b \in 1 .. i - 1
      <4>1. i \in Nat /\ IsNode(expr[i], i, uses)
        BY <1>0
      <4> QED BY <2>2, <4>1, NodeKinds
    <3>2. g[expr[i].a] = h[expr[i].a] /\ g[expr[i].b] = h[expr[i].b]
      BY <1>4, <3>1
    <3> QED BY <3>2
  <2> QED BY <2>1, <2>2
<1> HIDE DEF E, F, N
<1>5. 0 \in S
  <2> DEFINE g == [i \in 1 .. 0 |-> 0]
  <2>1. P(0, g)
    OBVIOUS
  <2> HIDE DEF P
  <2> QED BY <1>0, <2>1
<1>6. ASSUME NEW m \in 0 .. N - 1, m \in S
      PROVE  m + 1 \in S
  <2>1. PICK g : P(m, g)
    BY <1>6
  <2> DEFINE h == [i \in 1 .. m + 1 |-> IF i = m + 1 THEN E(m + 1, g) ELSE g[i]]
  <2>2. m \in Nat /\ m + 1 \in 0 .. N /\ m + 1 \in 1 .. N
    BY <1>0
  <2>3. h = [i \in 1 .. m + 1 |-> h[i]] /\ \A i \in 1 .. m + 1 : h[i] = IF i = m + 1 THEN E(m + 1, g) ELSE g[i]
    OBVIOUS
  <2> HIDE DEF h
  <2>4. ASSUME NEW i \in 1 .. m + 1
        PROVE  h[i] = E(i, h)
    <3>1. i \in 1 .. N /\ \A j \in 1 .. i - 1 : j \in 1 .. m + 1 /\ j # m + 1
      BY <2>2, <1>0
    <3>2. E(i, g) = E(i, h)
      BY <1>4, <3>1, <2>3
    <3>3. CASE i = m + 1
      BY <2>3, <3>2, <3>3
    <3>4. CASE i # m + 1
      <4>1. i \in 1 .. m
        BY <3>4, <2>2
      <4> QED BY <4>1, <3>4, <3>2, <2>1, <2>3
    <3> QED BY <3>3, <3>4
  <2>5. P(m + 1, h)
    BY <2>3, <2>4
  <2> HIDE DEF P
  <2> QED BY <2>2, <2>5
<1>7. PICK g : P(N, g)
  <2> HIDE DEF P
  <2>1. 0 .. N \subseteq S
    <3> HIDE DEF S
    <3> QED BY <1>0, <1>5, <1>6, UpTo
  <2>2. N \in 0 .. N
    BY <1>0
  <2> QED BY <2>1, <2>2
<1>8. g = F(g)
  <2>1. \A i \in 1 .. N : g[i] = F(g)[i]
    BY <1>3, <1>7
  <2> QED BY <1>2, <1>7, <2>1
<1>9. val = F(val)
  BY <1>8
<1> HIDE DEF val
<1> QED BY <1>1, <1>3, <1>9 DEF E, N

(* By induction along an expression.                                       *)
LEMMA InCourse ==
  ASSUME NEW n \in Nat, NEW S, \A i \in 1 .. n : (\A j \in 1 .. i - 1 : j \in S) => i \in S
  PROVE  1 .. n \subseteq S
<1> DEFINE T == {k \in Nat : k \in 1 .. n => k \in S}
<1>1. ASSUME NEW k \in Nat, \A m \in Nat : m < k => m \in T
      PROVE  k \in T
  <2> SUFFICES ASSUME k \in 1 .. n PROVE k \in S
    OBVIOUS
  <2>1. \A j \in 1 .. k - 1 : j \in Nat /\ j < k /\ j \in 1 .. n
    OBVIOUS
  <2>2. \A j \in 1 .. k - 1 : j \in S
    BY <1>1, <2>1
  <2> QED BY <2>2
<1>2. Nat \subseteq T
  <2> HIDE DEF T
  <2> QED BY <1>1, FromSmaller
<1> QED BY <1>2

(* What an operator makes of two integers.                                 *)
Outcomes(n, a, b) ==
  CASE n.op = "NEG"  -> {-a}
    [] n.op = "CAST" -> {a}
    [] n.op = "ADD"  -> {a + b}
    [] n.op = "SUB"  -> {a - b}
    [] n.op = "MUL"  -> {a * b}
    [] n.op = "DIV"  -> IF b = 0 THEN {} ELSE RoundedTo(FracDiv(IntBound(a), IntBound(b)), n.dir)
    [] n.op = "MOD"  -> IF b = 0 THEN {} ELSE {IF a < 0 THEN -((-a) % Abs(b)) ELSE a % Abs(b)}

Has(a, x) == a \in Int /\ In(IntBound(a), x)

(* The exact result of a node before it is rounded.                        *)
ExactItv(n, x, y) ==
  CASE n.op = "CAST" -> x
    [] n.op = "ADD"  -> ItvAdd(x, y)
    [] n.op = "SUB"  -> ItvSub(x, y)
    [] n.op = "MUL"  -> ItvMul(x, y)
    [] n.op = "DIV"  -> ItvDiv(x, y)

LEMMA SomeFrac ==
  ASSUME NEW a, IsItv(a), ~IsEmptyItv(a)
  PROVE  \E q : IsFrac(q) /\ In(q, a)
  BY NonEmptyIs

(* A fraction can be rounded.                                              *)
LEMMA RoundedIs ==
  ASSUME NEW q, IsFrac(q), NEW dir \in Directions
  PROVE  /\ RoundedTo(q, dir) # {} /\ RoundedTo(q, dir) \subseteq Int
         /\ q[2] = 1 => RoundedTo(q, dir) = {q[1]}
<1>1. FloorOf(q) \in Int /\ CeilOf(q) \in Int /\ TruncOf(q) \in Int
  BY WholeParts
<1>2. RoundedTo(q, dir) # {} /\ RoundedTo(q, dir) \subseteq Int
  BY <1>1 DEF RoundedTo, Directions
<1>3. ASSUME q[2] = 1
      PROVE  RoundedTo(q, dir) = {q[1]}
  <2>1. q[1] \in Int
    BY FracIs
  <2>2. \A n \in Int : n \div 1 = n
    OBVIOUS
  <2>3. FloorOf(q) = q[1]
    BY <1>3, <2>1, <2>2 DEF FloorOf
  <2>4. CeilOf(q) = q[1]
    <3>1. q[1] <= CeilOf(q) * 1 /\ (CeilOf(q) - 1) * 1 < q[1]
      BY <1>3, WholeParts
    <3> QED BY <3>1, <2>1, <1>1
  <2>5. TruncOf(q) = q[1]
    BY <2>3, <2>4 DEF TruncOf
  <2> QED BY <2>3, <2>4, <2>5 DEF RoundedTo, Directions
<1> QED BY <1>2, <1>3

(* What is proper when its operands are.                                   *)
LEMMA ExactIs ==
  ASSUME NEW n, n.op \in Operators \ {"NEG", "MOD"}, n.dir \in Directions, NEW x, NEW y,
         IsItv(x), IsItv(y), ~IsEmptyItv(x), ~IsEmptyItv(y), n.op = "DIV" => y.sup[1] >= 0
  PROVE  /\ IsItv(ExactItv(n, x, y)) /\ ~IsEmptyItv(ExactItv(n, x, y))
         /\ \A a, b : Has(a, x) /\ Has(b, y) =>
              \A v \in Outcomes(n, a, b) :
                \E q : IsFrac(q) /\ In(q, ExactItv(n, x, y)) /\ v \in RoundedTo(q, n.dir)
<1>0. PICK q, r : IsFrac(q) /\ IsFrac(r) /\ In(q, x) /\ In(r, y)
  BY SomeFrac
<1>1. \A a, b \in Int : /\ FracAdd(IntBound(a), IntBound(b)) = IntBound(a + b)
                        /\ FracAdd(IntBound(a), BoundNeg(IntBound(b))) = IntBound(a - b)
                        /\ FracMul(IntBound(a), IntBound(b)) = IntBound(a * b)
  BY IntOps
<1>2. \A v \in Int : v \in RoundedTo(IntBound(v), n.dir) /\ IsFrac(IntBound(v))
  BY IntBoundIs, RoundedIs
<1>3. CASE n.op = "CAST"
  <2>1. ExactItv(n, x, y) = x /\ \A a, b : Outcomes(n, a, b) = {a}
    BY <1>3 DEF ExactItv, Outcomes
  <2> QED BY <2>1, <1>2 DEF Has
<1>4. CASE n.op = "ADD"
  <2>1. ExactItv(n, x, y) = ItvAdd(x, y) /\ \A a, b : Outcomes(n, a, b) = {a + b}
    BY <1>4 DEF ExactItv, Outcomes
  <2>2. IsItv(ItvAdd(x, y)) /\ In(FracAdd(q, r), ItvAdd(x, y)) /\ IsFrac(FracAdd(q, r))
    BY <1>0, ItvAddIs, FracOps
  <2>3. ASSUME NEW a, NEW b, Has(a, x), Has(b, y)
        PROVE  a + b \in Int /\ In(IntBound(a + b), ItvAdd(x, y))
    <3>1. IsFrac(IntBound(a)) /\ IsFrac(IntBound(b)) /\ a \in Int /\ b \in Int
      BY <2>3, <1>2 DEF Has
    <3>2. In(FracAdd(IntBound(a), IntBound(b)), ItvAdd(x, y))
      BY <3>1, <2>3, ItvAddIs DEF Has
    <3> QED BY <3>1, <3>2, <1>1
  <2> QED BY <2>1, <2>2, <2>3, <1>2, NonEmptyIs
<1>5. CASE n.op = "SUB"
  <2>1. ExactItv(n, x, y) = ItvSub(x, y) /\ \A a, b : Outcomes(n, a, b) = {a - b}
    BY <1>5 DEF ExactItv, Outcomes
  <2>2. IsItv(ItvSub(x, y)) /\ In(FracAdd(q, BoundNeg(r)), ItvSub(x, y)) /\ IsFrac(FracAdd(q, BoundNeg(r)))
    BY <1>0, ItvAddIs, FracOps, NegIs
  <2>3. ASSUME NEW a, NEW b, Has(a, x), Has(b, y)
        PROVE  a - b \in Int /\ In(IntBound(a - b), ItvSub(x, y))
    <3>1. IsFrac(IntBound(a)) /\ IsFrac(IntBound(b)) /\ a \in Int /\ b \in Int
      BY <2>3, <1>2 DEF Has
    <3>2. In(FracAdd(IntBound(a), BoundNeg(IntBound(b))), ItvSub(x, y))
      BY <3>1, <2>3, ItvAddIs DEF Has
    <3> QED BY <3>1, <3>2, <1>1
  <2> QED BY <2>1, <2>2, <2>3, <1>2, NonEmptyIs
<1>6. CASE n.op = "MUL"
  <2>1. ExactItv(n, x, y) = ItvMul(x, y) /\ \A a, b : Outcomes(n, a, b) = {a * b}
    BY <1>6 DEF ExactItv, Outcomes
  <2>2. IsItv(ItvMul(x, y)) /\ In(FracMul(q, r), ItvMul(x, y)) /\ IsFrac(FracMul(q, r))
    BY <1>0, ItvMulIs, FracOps
  <2>3. ASSUME NEW a, NEW b, Has(a, x), Has(b, y)
        PROVE  a * b \in Int /\ In(IntBound(a * b), ItvMul(x, y))
    <3>1. IsFrac(IntBound(a)) /\ IsFrac(IntBound(b)) /\ a \in Int /\ b \in Int
      BY <2>3, <1>2 DEF Has
    <3>2. In(FracMul(IntBound(a), IntBound(b)), ItvMul(x, y))
      BY <3>1, <2>3, ItvMulIs DEF Has
    <3> QED BY <3>1, <3>2, <1>1
  <2> QED BY <2>1, <2>2, <2>3, <1>2, NonEmptyIs
<1>7. CASE n.op = "DIV"
  <2>1. /\ ExactItv(n, x, y) = ItvDiv(x, y)
        /\ \A a, b : Outcomes(n, a, b) = IF b = 0 THEN {} ELSE RoundedTo(FracDiv(IntBound(a), IntBound(b)), n.dir)
    BY <1>7 DEF ExactItv, Outcomes
  <2>2. IsItv(ItvDiv(x, y)) /\ ~IsEmptyItv(ItvDiv(x, y))
    BY <1>0, <1>7, ItvDivIs
  <2>3. ASSUME NEW a, NEW b, Has(a, x), Has(b, y), b # 0
        PROVE  IsFrac(FracDiv(IntBound(a), IntBound(b))) /\ In(FracDiv(IntBound(a), IntBound(b)), ItvDiv(x, y))
    <3>1. IsFrac(IntBound(a)) /\ IsFrac(IntBound(b)) /\ IntBound(b)[1] # 0
      BY <2>3, IntBoundIs DEF Has
    <3> QED BY <3>1, <2>3, <1>7, ItvDivIs DEF Has
  <2> QED BY <2>1, <2>2, <2>3
<1> QED BY <1>3, <1>4, <1>5, <1>6, <1>7 DEF Operators, Unary, Binary

-----------------------------------------------------------------------------
IsOperator(n) == n.op \in Operators /\ n.type = "INT" /\ n.dir \in Directions

LEMMA RoundIsProper ==
  ASSUME NEW a, IsItv(a), ~IsEmptyItv(a), NEW dir \in Directions
  PROVE  IsItv(Round(a, "INT", dir)) /\ ~IsEmptyItv(Round(a, "INT", dir)) /\ IntegerItv(Round(a, "INT", dir))
<1>1. PICK q : IsFrac(q) /\ In(q, a)
  BY SomeFrac
<1>2. PICK m \in RoundedTo(q, dir) : TRUE
  BY <1>1, RoundedIs
<1>3. m \in Int /\ In(IntBound(m), Round(a, "INT", dir))
  BY <1>1, <1>2, RoundIs
<1>4. IsFrac(IntBound(m))
  BY <1>3, IntBoundIs
<1> QED BY <1>3, <1>4, RoundIs, NonEmptyIs DEF IntegerItv

(* Integers and infinities.                                                *)
WholeBound(b) == b \in Int \X {0, 1}

LEMMA WholeBoundIs ==
  /\ \A b : IsBound(b) /\ Integral(b) => WholeBound(b)
  /\ \A b : WholeBound(b) => Integral(b)
  /\ WholeBound(Zero)
  /\ \A n \in Int : WholeBound(IntBound(n))
  BY DEF WholeBound, IsBound, Integral, IsInfty, IsFrac, PlusOo, Infty, Zero, IntBound

LEMMA WholeBounds ==
  ASSUME NEW b, NEW c, WholeBound(b), WholeBound(c)
  PROVE  /\ WholeBound(BoundNeg(b))
         /\ WholeBound(BoundAdd(b, c))
         /\ WholeBound(BoundMul(b, c))
         /\ WholeBound(BoundMax(b, c)) /\ WholeBound(BoundMin(b, c))
<1>1. /\ b = <<b[1], b[2]>> /\ c = <<c[1], c[2]>> /\ b[1] \in Int /\ c[1] \in Int
      /\ b[2] \in {0, 1} /\ c[2] \in {0, 1}
  BY DEF WholeBound
<1>2. \A n \in Int : SgnOf(n) \in Int
  BY DEF SgnOf
<1>3. \A s \in Int : WholeBound(Infty(s))
  BY DEF WholeBound, Infty
<1>4. \A n \in Int : WholeBound(Num(n, 1))
  BY NumOfInteger, WholeBoundIs
<1>5. WholeBound(BoundNeg(b))
  <2>1. -b[1] \in Int
    BY <1>1
  <2> QED BY <1>1, <2>1 DEF BoundNeg, WholeBound
<1>6. WholeBound(BoundAdd(b, c))
  <2>1. CASE IsInfty(b) \/ IsInfty(c)
    BY <2>1, <1>1, <1>2, <1>3 DEF BoundAdd, BoundSgn
  <2>2. CASE ~IsInfty(b) /\ ~IsInfty(c)
    <3>1. b[2] = 1 /\ c[2] = 1
      BY <1>1, <2>2 DEF IsInfty
    <3>2. b[1] * 1 + c[1] * 1 \in Int /\ 1 * 1 = 1
      BY <1>1
    <3> QED BY <2>2, <3>1, <3>2, <1>4 DEF BoundAdd
  <2> QED BY <2>1, <2>2
<1>7. WholeBound(BoundMul(b, c))
  <2>1. CASE BoundSgn(b) = 0 \/ BoundSgn(c) = 0
    BY <2>1, WholeBoundIs DEF BoundMul
  <2>2. CASE ~(BoundSgn(b) = 0 \/ BoundSgn(c) = 0) /\ (IsInfty(b) \/ IsInfty(c))
    <3>1. BoundSgn(b) * BoundSgn(c) \in Int
      BY <1>1, <1>2 DEF BoundSgn
    <3> QED BY <2>2, <3>1, <1>3 DEF BoundMul
  <2>3. CASE ~(BoundSgn(b) = 0 \/ BoundSgn(c) = 0) /\ ~IsInfty(b) /\ ~IsInfty(c)
    <3>1. b[2] = 1 /\ c[2] = 1
      BY <1>1, <2>3 DEF IsInfty
    <3>2. b[1] * c[1] \in Int /\ 1 * 1 = 1
      BY <1>1
    <3> QED BY <2>3, <3>1, <3>2, <1>4 DEF BoundMul
  <2> QED BY <2>1, <2>2, <2>3
<1>8. WholeBound(BoundMax(b, c)) /\ WholeBound(BoundMin(b, c))
  BY DEF BoundMax, BoundMin
<1> QED BY <1>5, <1>6, <1>7, <1>8

WholeItv(a) == WholeBound(a.inf) /\ WholeBound(a.sup)

LEMMA WholeItvs ==
  ASSUME NEW x, NEW y, WholeItv(x), WholeItv(y)
  PROVE  /\ WholeItv(Swap(x)) /\ WholeItv(ItvSub(x, y)) /\ WholeItv(ItvMeet(x, y)) /\ WholeItv(ItvJoin(x, y))
         /\ WholeItv(ItvAbs(x)) /\ WholeItv(MulP(x, y)) /\ WholeItv(MulN(x, y)) /\ WholeItv(ItvMul(x, y))
<1>1. \A i, s : WholeBound(i) /\ WholeBound(s) => WholeItv(Itv(i, s))
  BY DEF WholeItv, Itv
<1>2. WholeItv(Swap(x)) /\ WholeItv(ItvSub(x, y)) /\ WholeItv(ItvMeet(x, y))
  BY <1>1, WholeBounds DEF WholeItv, Swap, ItvSub, ItvMeet
<1>3. \A u, v : WholeItv(u) /\ WholeItv(v) => WholeItv(ItvJoin(u, v))
  BY <1>1, WholeBounds DEF ItvJoin, WholeItv
<1>4. WholeItv(ItvAbs(x))
  BY <1>1, <1>2, WholeBounds, WholeBoundIs DEF ItvAbs, ItvNeg, WholeItv
<1>5. \A u, v : WholeItv(u) /\ WholeItv(v) =>
         WholeItv(MulPP(u, v)) /\ WholeItv(MulNN(u, v)) /\ WholeItv(MulPN(u, v))
  <2> SUFFICES ASSUME NEW u, NEW v, WholeItv(u), WholeItv(v)
               PROVE  WholeItv(MulPP(u, v)) /\ WholeItv(MulNN(u, v)) /\ WholeItv(MulPN(u, v))
    OBVIOUS
  <2>1. WholeBound(u.inf) /\ WholeBound(u.sup) /\ WholeBound(v.inf) /\ WholeBound(v.sup)
    BY DEF WholeItv
  <2>2. WholeBound(BoundNeg(u.inf)) /\ WholeBound(BoundNeg(v.inf)) /\ WholeBound(BoundNeg(v.sup))
    BY <2>1, WholeBounds
  <2> QED BY <1>1, <2>1, <2>2, WholeBounds DEF MulPP, MulNN, MulPN
<1>6. \A u, v : WholeItv(u) /\ WholeItv(v) => WholeItv(MulP(u, v)) /\ WholeItv(MulN(u, v))
  <2> SUFFICES ASSUME NEW u, NEW v, WholeItv(u), WholeItv(v)
               PROVE  WholeItv(MulP(u, v)) /\ WholeItv(MulN(u, v))
    OBVIOUS
  <2>1. WholeBound(u.inf) /\ WholeBound(u.sup) /\ WholeBound(v.inf) /\ WholeBound(v.sup)
    BY DEF WholeItv
  <2>2. /\ WholeItv(Itv(BoundMul(u.inf, v.sup), BoundMul(u.sup, v.sup)))
        /\ WholeItv(Itv(BoundMul(u.sup, v.inf), BoundMul(u.inf, v.inf)))
    BY <1>1, <2>1, WholeBounds
  <2> QED BY <1>5, <2>2 DEF MulP, MulN
<1>7. WholeItv(ItvMul(x, y))
  <2>1. WholeItv(Itv(Zero, y.sup)) /\ WholeItv(Itv(y.inf, Zero))
    BY <1>1, WholeBoundIs DEF WholeItv
  <2>2. WholeItv(ItvJoin(MulP(x, Itv(Zero, y.sup)), MulN(x, Itv(y.inf, Zero))))
    BY <1>3, <1>6, <2>1
  <2> QED BY <1>6, <2>2 DEF ItvMul
<1> QED BY <1>2, <1>3, <1>4, <1>6, <1>7

(* An interval of integers that is not empty holds one.                    *)
LEMMA SomeInteger ==
  ASSUME NEW a, IsItv(a), ~IsEmptyItv(a), IntegerItv(a)
  PROVE  \E n \in Int : In(IntBound(n), a)
<1>1. IsBound(a.inf) /\ IsBound(a.sup) /\ Integral(a.inf) /\ Integral(a.sup)
  BY ItvSides DEF IntegerItv
<1>2. CASE a.inf = PlusOo /\ a.sup = PlusOo
  BY <1>2, IntBoundIs, PlusOoIs, NegIs DEF In
<1>3. PICK q : IsFrac(q) /\ In(q, a)
  BY SomeFrac
<1>4. CASE a.sup # PlusOo
  <2>1. PICK n \in Int : a.sup = IntBound(n)
    BY <1>1, <1>4, IntegralIs
  <2>2. AtMost(IntBound(n), a.sup)
    BY <2>1 DEF AtMost, IntBound
  <2>3. AtMost(q, IntBound(n)) /\ AtMost(BoundNeg(q), a.inf)
    BY <1>3, <2>1 DEF In
  <2>4. AtMost(BoundNeg(IntBound(n)), a.inf)
    <3>1. CASE a.inf = PlusOo
      BY <3>1, PlusOoIs, IntBoundIs, NegIs
    <3>2. CASE a.inf # PlusOo
      <4>1. PICK m \in Int : a.inf = IntBound(m)
        BY <1>1, <3>2, IntegralIs
      <4>2. q[1] \in Int /\ q[2] \in Int /\ q[2] > 0
        BY <1>3, FracIs
      <4>3. q[1] <= n * q[2] /\ -q[1] <= m * q[2]
        BY <2>3, <4>1, <4>2 DEF AtMost, IntBound, BoundNeg
      <4>4. \A u, k, l, d \in Int : d > 0 /\ u <= k * d /\ -u <= l * d => -k <= l
        <5> SUFFICES ASSUME NEW u \in Int, NEW k \in Int, NEW l \in Int, NEW d \in Int, d > 0, u <= k * d, -u <= l * d, -k > l
                     PROVE  FALSE
          OBVIOUS
        <5>1. k + l <= -1
          OBVIOUS
        <5>2. (k + l) * d <= (-1) * d
          BY <5>1
        <5> QED BY <5>2
      <4>5. -n <= m
        BY <4>2, <4>3, <4>4
      <4> QED BY <4>1, <4>5 DEF AtMost, IntBound, BoundNeg
    <3> QED BY <3>1, <3>2
  <2> QED BY <2>2, <2>4 DEF In
<1>5. CASE a.sup = PlusOo /\ a.inf # PlusOo
  <2>1. PICK n \in Int : a.inf = IntBound(n)
    BY <1>1, <1>5, IntegralIs
  <2>2. -n \in Int /\ IsFrac(IntBound(-n)) /\ BoundNeg(IntBound(-n)) = IntBound(n)
    <3>1. -(-n) = n /\ -n \in Int
      OBVIOUS
    <3> QED BY <3>1, IntBoundIs
  <2>3. AtMost(IntBound(n), a.inf)
    BY <2>1 DEF AtMost, IntBound
  <2>4. In(IntBound(-n), a)
    BY <1>5, <2>2, <2>3, PlusOoIs DEF In
  <2> QED BY <2>2, <2>4
<1> QED BY <1>2, <1>4, <1>5

LEMMA ModIsWhole ==
  ASSUME NEW x, NEW y, IsItv(x), IsItv(y), ~IsEmptyItv(x), ~IsEmptyItv(y), IntegerItv(x), IntegerItv(y)
  PROVE  ~IsEmptyItv(ItvMod(x, y, TRUE)) /\ IntegerItv(ItvMod(x, y, TRUE))
<1>1. ~IsEmptyItv(ItvMod(x, y, TRUE))
  <2>1. PICK m \in Int, n \in Int : In(IntBound(m), x) /\ In(IntBound(n), y)
    BY SomeInteger
  <2>2. IsFrac(IntBound(m)) /\ IsFrac(IntBound(n)) /\ IntBound(m)[2] = 1 /\ IntBound(n)[2] = 1
    BY IntBoundIs
  <2> QED BY <2>1, <2>2, ItvModIs
<1>2. WholeItv(x) /\ WholeItv(y)
  BY ItvSides, WholeBoundIs DEF IntegerItv, WholeItv
<1> DEFINE m == ItvAbs(y)
<1>3. WholeItv(m)
  BY <1>2, WholeItvs
<1>4. WholeItv(ItvTrunc(ItvDiv(x, m)))
  <2>1. PICK q, r : IsFrac(q) /\ IsFrac(r) /\ In(q, x) /\ In(r, y)
    BY SomeFrac
  <2>2. IsItv(m) /\ IsFrac(FracAbs(r)) /\ In(FracAbs(r), m) /\ m.sup[1] >= 0
    BY <2>1, ItvAbsIs
  <2> HIDE DEF m
  <2>3. IsItv(ItvDiv(x, m))
    BY <2>1, <2>2, ItvDivIs
  <2>4. IsItv(ItvTrunc(ItvDiv(x, m))) /\ Integral(ItvTrunc(ItvDiv(x, m)).inf) /\ Integral(ItvTrunc(ItvDiv(x, m)).sup)
    BY <2>3, ItvTruncIs
  <2> QED BY <2>4, ItvSides, WholeBoundIs DEF WholeItv
<1>5. WholeItv(ModParts(x, m))
  BY <1>3, <1>4, WholeItvs DEF ModParts
<1>6. WholeItv(ModRange(x, m))
  <2> HIDE DEF m
  <2>1. WholeBound(BoundAdd(m.sup, IntBound(-1))) /\ WholeBound(Zero)
    BY <1>3, WholeBounds, WholeBoundIs DEF WholeItv
  <2> QED BY <2>1 DEF ModRange, WholeItv, Itv
<1>7. WholeItv(ItvMeet(ItvSub(x, ModParts(x, m)), ModRange(x, m)))
  <2> HIDE DEF m
  <2> QED BY <1>2, <1>5, <1>6, WholeItvs
<1>8. WholeItv(ItvTop)
  BY WholeBoundIs, IntegralIs, PlusOoIs DEF WholeItv, ItvTop, Itv
<1>9. WholeItv(ItvMod(x, y, TRUE))
  BY <1>7, <1>8, ItvModOpens
<1> QED BY <1>1, <1>9, WholeBoundIs DEF IntegerItv, WholeItv

LEMMA EvalNodeIs ==
  ASSUME NEW n, IsOperator(n), NEW x, NEW y, IsItv(x), IsItv(y), ~IsEmptyItv(x), ~IsEmptyItv(y),
         n.op = "DIV" => y.sup[1] >= 0
  PROVE  /\ IsItv(EvalNode(n, x, y))
         /\ n.op # "MOD" => ~IsEmptyItv(EvalNode(n, x, y))
         /\ IntegerItv(x) /\ IntegerItv(y) => ~IsEmptyItv(EvalNode(n, x, y)) /\ IntegerItv(EvalNode(n, x, y))
         /\ n.op \notin {"NEG", "MOD"} => IntegerItv(EvalNode(n, x, y))
         /\ n.op = "NEG" /\ IntegerItv(x) => IntegerItv(EvalNode(n, x, y))
         /\ \A a, b : Has(a, x) /\ Has(b, y) => \A v \in Outcomes(n, a, b) : Has(v, EvalNode(n, x, y))
<1>0. PICK q, r : IsFrac(q) /\ IsFrac(r) /\ In(q, x) /\ In(r, y)
  BY SomeFrac
<1>1. CASE n.op = "NEG"
  <2>1. EvalNode(n, x, y) = Swap(x) /\ \A a, b : Outcomes(n, a, b) = {-a}
    BY <1>1 DEF EvalNode, ItvNeg, Outcomes
  <2>2. IsItv(Swap(x)) /\ In(BoundNeg(q), Swap(x)) /\ IsFrac(BoundNeg(q))
    BY <1>0, ItvSides, NegIs
  <2>3. IntegerItv(x) => IntegerItv(Swap(x))
    BY ItvSides DEF IntegerItv
  <2>4. ASSUME NEW a, Has(a, x)
        PROVE  Has(-a, Swap(x))
    <3>1. a \in Int /\ IsFrac(IntBound(a)) /\ BoundNeg(IntBound(a)) = IntBound(-a)
      BY <2>4, IntBoundIs DEF Has
    <3> QED BY <3>1, <2>4, ItvSides DEF Has
  <2> QED BY <1>1, <2>1, <2>2, <2>3, <2>4, NonEmptyIs
<1>2. CASE n.op = "MOD"
  <2>1. /\ EvalNode(n, x, y) = ItvMod(x, y, TRUE)
        /\ \A a, b : Outcomes(n, a, b) = IF b = 0 THEN {} ELSE {IF a < 0 THEN -((-a) % Abs(b)) ELSE a % Abs(b)}
    BY <1>2 DEF EvalNode, Outcomes, IsOperator
  <2>2. IsItv(ItvMod(x, y, TRUE))
    BY <1>0, ItvModIs
  <2>3. ASSUME NEW a, NEW b, Has(a, x), Has(b, y), b # 0
        PROVE  Has(IF a < 0 THEN -((-a) % Abs(b)) ELSE a % Abs(b), ItvMod(x, y, TRUE))
    <3>1. a \in Int /\ b \in Int /\ IsFrac(IntBound(a)) /\ IsFrac(IntBound(b)) /\ In(IntBound(a), x) /\ In(IntBound(b), y)
          /\ IntBound(a)[1] = a /\ IntBound(a)[2] = 1 /\ IntBound(b)[1] = b /\ IntBound(b)[2] = 1
      BY <2>3, IntBoundIs DEF Has
    <3>2. In(IntBound(IF a < 0 THEN -((-a) % Abs(b)) ELSE a % Abs(b)), ItvMod(x, y, TRUE))
      BY <3>1, <2>3, ItvModIs
    <3>3. (IF a < 0 THEN -((-a) % Abs(b)) ELSE a % Abs(b)) \in Int
      BY <3>1, <2>3 DEF Abs
    <3> QED BY <3>2, <3>3 DEF Has
  <2>4. ASSUME IntegerItv(x), IntegerItv(y)
        PROVE  ~IsEmptyItv(ItvMod(x, y, TRUE)) /\ IntegerItv(ItvMod(x, y, TRUE))
    BY <2>4, ModIsWhole
  <2>5. ASSUME NEW a, NEW b, Has(a, x), Has(b, y), NEW v \in Outcomes(n, a, b)
        PROVE  Has(v, EvalNode(n, x, y))
    <3>1. b # 0
      BY <2>1
    <3>2. v = IF a < 0 THEN -((-a) % Abs(b)) ELSE a % Abs(b)
      BY <2>1, <3>1
    <3>3. Has(IF a < 0 THEN -((-a) % Abs(b)) ELSE a % Abs(b), ItvMod(x, y, TRUE))
      BY <2>3, <2>5, <3>1
    <3>4. Has(v, ItvMod(x, y, TRUE))
      BY <3>2, <3>3
    <3> QED BY <2>1, <3>4
  <2>6. EvalNode(n, x, y) = ItvMod(x, y, TRUE) /\ n.op = "MOD"
    BY <1>2, <2>1
  <2> QED BY <2>6, <2>2, <2>4, <2>5
<1>3. CASE n.op \notin {"NEG", "MOD"}
  <2>1. n.op \in Operators \ {"NEG", "MOD"} /\ n.dir \in Directions
    BY <1>3 DEF IsOperator
  <2>2. EvalNode(n, x, y) = Round(ExactItv(n, x, y), "INT", n.dir)
    BY <1>3 DEF EvalNode, ExactItv, IsOperator
  <2>3. IsItv(ExactItv(n, x, y)) /\ ~IsEmptyItv(ExactItv(n, x, y))
    BY <2>1, ExactIs
  <2>4. ASSUME NEW a, NEW b, Has(a, x), Has(b, y), NEW v \in Outcomes(n, a, b)
        PROVE  Has(v, EvalNode(n, x, y))
    <3>1. PICK p : IsFrac(p) /\ In(p, ExactItv(n, x, y)) /\ v \in RoundedTo(p, n.dir)
      BY <2>1, <2>4, ExactIs
    <3> QED BY <2>1, <2>2, <2>3, <3>1, RoundIs DEF Has
  <2>5. IsItv(EvalNode(n, x, y)) /\ ~IsEmptyItv(EvalNode(n, x, y)) /\ IntegerItv(EvalNode(n, x, y))
    BY <2>1, <2>2, <2>3, RoundIsProper
  <2> QED BY <1>3, <2>4, <2>5
<1> QED BY <1>1, <1>2, <1>3

-----------------------------------------------------------------------------
ProperEnv(env, uses) == \A d \in uses : IsItv(env[d]) /\ ~IsEmptyItv(env[d])

(* The divisors of an expression are not negative.                         *)
DividesUp(expr, env) ==
  \A i \in DOMAIN expr : expr[i].op = "DIV" => BoundSgn(EvalNodes(expr, env)[expr[i].b].sup) >= 0

(* The nodes of an expression, and their operands.                         *)
LEMMA Nodes ==
  ASSUME NEW expr, NEW uses, IsTexpr(expr, uses)
  PROVE  /\ Len(expr) \in Nat /\ Len(expr) # 0 /\ DOMAIN expr = 1 .. Len(expr) /\ Len(expr) \in 1 .. Len(expr)
         /\ \A i \in 1 .. Len(expr) :
              /\ i \in Nat /\ IsNode(expr[i], i, uses)
              /\ IsLeaf(expr[i]) \/ (IsOperator(expr[i]) /\ expr[i].a \in 1 .. i - 1 /\ expr[i].b \in 1 .. i - 1)
              /\ IsLeaf(expr[i]) => ~IsOperator(expr[i])
<1>1. Len(expr) \in Nat /\ DOMAIN expr = 1 .. Len(expr) /\ \A i \in 1 .. Len(expr) : IsNode(expr[i], i, uses)
  BY DEF IsTexpr, IsSequence
<1>2. Len(expr) # 0
  BY <1>1 DEF IsTexpr
<1>3. Len(expr) \in 1 .. Len(expr) /\ \A i \in 1 .. Len(expr) : i \in Nat /\ IsNode(expr[i], i, uses)
  BY <1>1, <1>2
<1>4. ASSUME NEW i \in 1 .. Len(expr)
      PROVE  /\ IsLeaf(expr[i]) \/ (IsOperator(expr[i]) /\ expr[i].a \in 1 .. i - 1 /\ expr[i].b \in 1 .. i - 1)
             /\ IsLeaf(expr[i]) => ~IsOperator(expr[i])
  <2>1. i \in Nat /\ IsNode(expr[i], i, uses)
    BY <1>3
  <2> QED BY <2>1, NodeKinds DEF IsOperator
<1> QED BY <1>1, <1>2, <1>3, <1>4

LEMMA NodeItvOfOperator ==
  ASSUME NEW n, IsOperator(n), NEW env, NEW x, NEW y
  PROVE  /\ n.op \in Unary => NodeItv(n, env, x, y) = IF IsEmptyItv(x) THEN x ELSE EvalNode(n, x, x)
         /\ n.op \in Binary => NodeItv(n, env, x, y) = IF IsEmptyItv(x) \/ IsEmptyItv(y) THEN ItvBottom ELSE EvalNode(n, x, y)
         /\ n.op \in Unary \/ n.op \in Binary
         /\ n.op \in Binary => n.op \notin Unary
<1>1. n.op \in Unary \/ n.op \in Binary
  BY DEF IsOperator, Operators
<1>2. n.op \notin {"CST", "DIM"} /\ (n.op \in Binary => n.op \notin Unary)
  BY DEF IsOperator, Operators, Unary, Binary
<1> QED BY <1>1, <1>2 DEF NodeItv

LEMMA EvalAreItvs ==
  ASSUME NEW expr, NEW uses, IsTexpr(expr, uses), NEW env, ProperEnv(env, uses), DividesUp(expr, env)
  PROVE  \A i \in 1 .. Len(expr) : IsItv(EvalNodes(expr, env)[i])
<1> DEFINE N == Len(expr)
           val == EvalNodes(expr, env)
           S == {i \in 1 .. N : IsItv(val[i])}
<1>0. /\ N \in Nat /\ DOMAIN expr = 1 .. N
      /\ \A i \in 1 .. N : val[i] = NodeItv(expr[i], env, val[expr[i].a], val[expr[i].b])
  BY Nodes, EvalNodesIs
<1>1. ASSUME NEW i \in 1 .. N, \A j \in 1 .. i - 1 : j \in S
      PROVE  i \in S
  <2> DEFINE n == expr[i]
             x == val[n.a]
             y == val[n.b]
  <2>1. val[i] = NodeItv(n, env, x, y)
    BY <1>0
  <2>2. IsNode(n, i, uses) /\ i \in Nat
    BY Nodes
  <2>3. CASE IsLeaf(n)
    <3>1. CASE n.op = "CST"
      <4>1. NodeItv(n, env, x, y) = n.itv
        BY <3>1 DEF NodeItv, Unary, Binary
      <4> QED BY <2>1, <2>2, <3>1, <4>1, NodeKinds
    <3>2. CASE n.op = "DIM"
      <4>1. NodeItv(n, env, x, y) = env[n.dim]
        BY <3>2 DEF NodeItv, Unary, Binary
      <4>2. n.dim \in uses
        BY <2>2, <3>2, NodeKinds
      <4> QED BY <2>1, <4>1, <4>2 DEF ProperEnv
    <3> QED BY <2>3, <3>1, <3>2 DEF IsLeaf
  <2>4. CASE ~IsLeaf(n)
    <3>1. IsOperator(n) /\ n.a \in 1 .. i - 1 /\ n.b \in 1 .. i - 1
      BY <2>4, Nodes
    <3>2. IsItv(x) /\ IsItv(y)
      BY <1>1, <3>1
    <3>3. n.op = "DIV" => y.sup[1] >= 0
      <4>1. n.op = "DIV" => BoundSgn(y.sup) >= 0
        BY <1>0 DEF DividesUp
      <4>2. IsBound(y.sup)
        BY <3>2, ItvSides
      <4> QED BY <4>1, <4>2, BoundKinds
    <3> HIDE DEF x, y, n
    <3>4. n.op \in Unary /\ ~IsEmptyItv(x) => IsItv(EvalNode(n, x, x))
      BY <3>1, <3>2, EvalNodeIs DEF Unary
    <3>5. n.op \in Binary /\ ~IsEmptyItv(x) /\ ~IsEmptyItv(y) => IsItv(EvalNode(n, x, y))
      BY <3>1, <3>2, <3>3, EvalNodeIs
    <3>6. IsItv(NodeItv(n, env, x, y))
      BY <3>1, <3>2, <3>4, <3>5, NodeItvOfOperator, ItvBottomIs
    <3> QED BY <2>1, <3>6
  <2> QED BY <2>3, <2>4
<1>2. 1 .. N \subseteq S
  <2> HIDE DEF S
  <2> QED BY <1>0, <1>1, InCourse
<1> QED BY <1>2

(* Every value of a node at a point of the environment is in its interval. *)
PointIn(pt, env, uses) == \A d \in uses : Has(pt[d], env[d])

OfOne(n, X)    == UNION {Outcomes(n, a, a) : a \in X}
OfTwo(n, X, Y) == UNION {Outcomes(n, a, b) : a \in X, b \in Y}
NodeVals(n, pt, X, Y) ==
  CASE n.op = "CST" -> n.ints
    [] n.op = "DIM" -> {pt[n.dim]}
    [] n.op \in Unary -> OfOne(n, X)
    [] OTHER -> OfTwo(n, X, Y)

IsValuation(vals, expr, pt) ==
  \A i \in DOMAIN expr : vals[i] = NodeVals(expr[i], pt, vals[expr[i].a], vals[expr[i].b])

LEMMA InItvIs ==
  ASSUME NEW k \in Int, NEW a, IsItv(a)
  PROVE  InItv(k, a) <=> Has(k, a)
<1>1. IsBound(a.inf) /\ IsBound(a.sup) /\ -k \in Int
  BY ItvSides
<1>2. IsFrac(IntBound(k)) /\ IsFrac(IntBound(-k)) /\ IsBound(IntBound(k)) /\ IsBound(IntBound(-k)) /\ BoundNeg(IntBound(k)) = IntBound(-k)
  BY <1>1, IntBoundIs
<1> QED BY <1>1, <1>2, BoundCmpIs DEF InItv, Has, In

LEMMA EvalIsSound ==
  ASSUME NEW expr, NEW uses, IsTexpr(expr, uses), NEW env, ProperEnv(env, uses), DividesUp(expr, env),
         NEW pt, PointIn(pt, env, uses), NEW vals, IsValuation(vals, expr, pt)
  PROVE  \A i \in 1 .. Len(expr) : \A v \in vals[i] : Has(v, EvalNodes(expr, env)[i])
<1> DEFINE N == Len(expr)
           val == EvalNodes(expr, env)
           S == {i \in 1 .. N : \A v \in vals[i] : Has(v, val[i])}
<1>0. /\ N \in Nat /\ DOMAIN expr = 1 .. N
      /\ \A i \in 1 .. N : val[i] = NodeItv(expr[i], env, val[expr[i].a], val[expr[i].b])
      /\ \A i \in 1 .. N : IsItv(val[i])
  BY Nodes, EvalNodesIs, EvalAreItvs
<1>1. ASSUME NEW i \in 1 .. N, \A j \in 1 .. i - 1 : j \in S
      PROVE  i \in S
  <2> DEFINE n == expr[i]
             x == val[n.a]
             y == val[n.b]
  <2>0. vals[i] = NodeVals(n, pt, vals[n.a], vals[n.b])
    BY <1>0 DEF IsValuation
  <2>1. val[i] = NodeItv(n, env, x, y)
    BY <1>0
  <2>2. IsNode(n, i, uses) /\ i \in Nat
    BY Nodes
  <2>3. CASE IsLeaf(n)
    <3>1. CASE n.op = "CST"
      <4>1. NodeItv(n, env, x, y) = n.itv
        BY <3>1 DEF NodeItv, Unary, Binary
      <4>2. vals[i] = n.ints
        BY <3>1, <2>0 DEF NodeVals, Unary
      <4>3. \A k \in n.ints : k \in Int /\ IsItv(n.itv) /\ InItv(k, n.itv)
        BY <2>2, <3>1, NodeKinds
      <4> QED BY <2>1, <4>1, <4>2, <4>3, InItvIs
    <3>2. CASE n.op = "DIM"
      <4>1. NodeItv(n, env, x, y) = env[n.dim]
        BY <3>2 DEF NodeItv, Unary, Binary
      <4>2. n.dim \in uses
        BY <2>2, <3>2, NodeKinds
      <4>3. vals[i] = {pt[n.dim]}
        BY <3>2, <2>0 DEF NodeVals, Unary
      <4> QED BY <2>1, <4>1, <4>2, <4>3 DEF PointIn
    <3> QED BY <2>3, <3>1, <3>2 DEF IsLeaf
  <2>4. CASE ~IsLeaf(n)
    <3>1. IsOperator(n) /\ n.a \in 1 .. i - 1 /\ n.b \in 1 .. i - 1
      BY <2>4, Nodes
    <3>2. IsItv(x) /\ IsItv(y) /\ (\A v \in vals[n.a] : Has(v, x)) /\ (\A v \in vals[n.b] : Has(v, y))
      <4>1. n.a \in 1 .. N /\ n.b \in 1 .. N
        BY <3>1, <1>0
      <4> QED BY <1>0, <1>1, <3>1, <4>1
    <3>3. n.op = "DIV" => y.sup[1] >= 0
      <4>1. n.op = "DIV" => BoundSgn(y.sup) >= 0
        BY <1>0 DEF DividesUp
      <4>2. IsBound(y.sup)
        BY <3>2, ItvSides
      <4> QED BY <4>1, <4>2, BoundKinds
    <3>7. \A v, u : Has(v, u) /\ IsItv(u) => ~IsEmptyItv(u)
      BY IntBoundIs, NonEmptyIs DEF Has
    <3>8. /\ n.op \in Unary => vals[i] = UNION {Outcomes(n, a, a) : a \in vals[n.a]}
          /\ n.op \in Binary => vals[i] = UNION {Outcomes(n, a, b) : a \in vals[n.a], b \in vals[n.b]}
      <4>1. n.op # "CST" /\ n.op # "DIM" /\ (n.op \in Binary => n.op \notin Unary)
        BY <3>1 DEF IsOperator, Operators, Unary, Binary
      <4>2. /\ n.op \in Unary => vals[i] = OfOne(n, vals[n.a])
            /\ n.op \in Binary => vals[i] = OfTwo(n, vals[n.a], vals[n.b])
        BY <2>0, <4>1 DEF NodeVals
      <4> QED BY <4>2 DEF OfOne, OfTwo
    <3> HIDE DEF x, y, n
    <3>4. CASE n.op \in Unary
      <4>1. ASSUME NEW a \in vals[n.a], NEW v \in Outcomes(n, a, a)
            PROVE  Has(v, NodeItv(n, env, x, y))
        <5>1. Has(a, x) /\ ~IsEmptyItv(x)
          BY <3>2, <3>7
        <5>2. n.op # "DIV"
          BY <3>4 DEF Unary
        <5>3. Has(v, EvalNode(n, x, x))
          BY <3>1, <3>2, <5>1, <5>2, EvalNodeIs
        <5> QED BY <3>1, <3>4, <5>1, <5>3, NodeItvOfOperator
      <4> QED BY <2>1, <3>4, <3>8, <4>1
    <3>5. CASE n.op \in Binary
      <4>1. ASSUME NEW a \in vals[n.a], NEW b \in vals[n.b], NEW v \in Outcomes(n, a, b)
            PROVE  Has(v, NodeItv(n, env, x, y))
        <5>1. Has(a, x) /\ ~IsEmptyItv(x) /\ Has(b, y) /\ ~IsEmptyItv(y)
          BY <3>2, <3>7
        <5>3. Has(v, EvalNode(n, x, y))
          BY <3>1, <3>2, <3>3, <5>1, EvalNodeIs
        <5> QED BY <3>1, <3>5, <5>1, <5>3, NodeItvOfOperator
      <4> QED BY <2>1, <3>5, <3>8, <4>1
    <3> QED BY <3>1, <3>4, <3>5, NodeItvOfOperator
  <2> QED BY <2>3, <2>4
<1>2. 1 .. N \subseteq S
  <2> HIDE DEF S
  <2> QED BY <1>0, <1>1, InCourse
<1> QED BY <1>2

-----------------------------------------------------------------------------
NodeWhole(n, int, x, y) ==
  \/ n.op = "DIM" /\ n.dim < int
  \/ n.op = "NEG" /\ x
  \/ n.op = "MOD" /\ x /\ y
  \/ n.op \notin {"DIM", "NEG", "MOD"}

LEMMA WholeNodesIs ==
  ASSUME NEW expr, NEW uses, IsTexpr(expr, uses), NEW int
  PROVE  \A i \in 1 .. Len(expr) :
           WholeNodes(expr, int)[i] =
             NodeWhole(expr[i], int, WholeNodes(expr, int)[expr[i].a], WholeNodes(expr, int)[expr[i].b])
<1> DEFINE N == Len(expr)
           E(i, g) == NodeWhole(expr[i], int, g[expr[i].a], g[expr[i].b])
           F(g) == [i \in DOMAIN expr |->
                      \/ expr[i].op = "DIM" /\ expr[i].dim < int
                      \/ expr[i].op = "NEG" /\ g[expr[i].a]
                      \/ expr[i].op = "MOD" /\ g[expr[i].a] /\ g[expr[i].b]
                      \/ expr[i].op \notin {"DIM", "NEG", "MOD"}]
           whole == CHOOSE g : g = F(g)
           P(m, g) == g = [i \in 1 .. m |-> g[i]] /\ \A i \in 1 .. m : g[i] = E(i, g)
           S == {m \in 0 .. N : \E g : P(m, g)}
<1>0. N \in Nat /\ DOMAIN expr = 1 .. N
  BY Nodes
<1>1. WholeNodes(expr, int) = whole
  BY DEF WholeNodes
<1>2. \A g : F(g) = [i \in 1 .. N |-> F(g)[i]]
  BY <1>0
<1>3. \A g : \A i \in 1 .. N : F(g)[i] = E(i, g)
  BY <1>0 DEF NodeWhole
<1>4. ASSUME NEW k \in 1 .. N, NEW g, NEW h, \A j \in 1 .. k - 1 : g[j] = h[j]
      PROVE  E(k, g) = E(k, h)
  <2>1. CASE IsLeaf(expr[k])
    BY <2>1 DEF NodeWhole, IsLeaf
  <2>2. CASE ~IsLeaf(expr[k])
    <3>1. expr[k].a \in 1 .. k - 1 /\ expr[k].b \in 1 .. k - 1
      BY <2>2, Nodes
    <3>2. g[expr[k].a] = h[expr[k].a] /\ g[expr[k].b] = h[expr[k].b]
      BY <3>1, <1>4
    <3> QED BY <3>2
  <2> QED BY <2>1, <2>2
<1> HIDE DEF E, F, N
<1>5. 0 \in S
  <2> DEFINE g == [i \in 1 .. 0 |-> 0]
  <2>1. P(0, g)
    OBVIOUS
  <2> HIDE DEF P
  <2> QED BY <1>0, <2>1
<1>6. ASSUME NEW m \in 0 .. N - 1, m \in S
      PROVE  m + 1 \in S
  <2>1. PICK g : P(m, g)
    BY <1>6
  <2> DEFINE h == [i \in 1 .. m + 1 |-> IF i = m + 1 THEN E(m + 1, g) ELSE g[i]]
  <2>2. m \in Nat /\ m + 1 \in 0 .. N /\ m + 1 \in 1 .. N
    BY <1>0
  <2>3. h = [i \in 1 .. m + 1 |-> h[i]] /\ \A i \in 1 .. m + 1 : h[i] = IF i = m + 1 THEN E(m + 1, g) ELSE g[i]
    OBVIOUS
  <2> HIDE DEF h
  <2>4. ASSUME NEW i \in 1 .. m + 1
        PROVE  h[i] = E(i, h)
    <3>1. i \in 1 .. N /\ \A j \in 1 .. i - 1 : j \in 1 .. m + 1 /\ j # m + 1
      BY <2>2, <1>0
    <3>2. E(i, g) = E(i, h)
      BY <1>4, <3>1, <2>3
    <3>3. CASE i = m + 1
      BY <2>3, <3>2, <3>3
    <3>4. CASE i # m + 1
      <4>1. i \in 1 .. m
        BY <3>4, <2>2
      <4> QED BY <4>1, <3>4, <3>2, <2>1, <2>3
    <3> QED BY <3>3, <3>4
  <2>5. P(m + 1, h)
    BY <2>3, <2>4
  <2> HIDE DEF P
  <2> QED BY <2>2, <2>5
<1>7. PICK g : P(N, g)
  <2> HIDE DEF P
  <2>1. 0 .. N \subseteq S
    <3> HIDE DEF S
    <3> QED BY <1>0, <1>5, <1>6, UpTo
  <2>2. N \in 0 .. N
    BY <1>0
  <2> QED BY <2>1, <2>2
<1>9. g = F(g)
  <2>1. \A i \in 1 .. N : g[i] = F(g)[i]
    BY <1>3, <1>7
  <2> QED BY <1>2, <1>7, <2>1
<1>8. whole = F(whole)
  BY <1>9
<1> HIDE DEF whole
<1> QED BY <1>1, <1>3, <1>8 DEF E, N

(* What the library takes for granted of an expression that is assigned to *)
(* a dimension, in any environment.                                        *)
FitsDim(expr, dim, env, int) ==
  LET whole == WholeNodes(expr, int)
  IN /\ dim < int => whole[Len(expr)]
     /\ \A i \in DOMAIN expr : expr[i].op = "MOD" => whole[expr[i].a] /\ whole[expr[i].b]
     /\ DividesUp(expr, env)

LEMMA EvalIsProper ==
  ASSUME NEW expr, NEW uses \in SUBSET Nat, IsTexpr(expr, uses), NEW env, ProperEnv(env, uses), NEW int \in Nat,
         \A d \in uses : d < int => IntegerItv(env[d]), NEW dim, FitsDim(expr, dim, env, int)
  PROVE  /\ IsItv(EvalTexpr(expr, env)) /\ ~IsEmptyItv(EvalTexpr(expr, env))
         /\ dim < int => IntegerItv(EvalTexpr(expr, env))
<1> DEFINE N == Len(expr)
           val == EvalNodes(expr, env)
           whole == WholeNodes(expr, int)
           S == {i \in 1 .. N : ~IsEmptyItv(val[i]) /\ (whole[i] => IntegerItv(val[i]))}
<1>0. /\ N \in Nat /\ DOMAIN expr = 1 .. N /\ N \in 1 .. N
      /\ DividesUp(expr, env)
      /\ \A i \in 1 .. N : val[i] = NodeItv(expr[i], env, val[expr[i].a], val[expr[i].b])
      /\ \A i \in 1 .. N : IsItv(val[i])
      /\ \A i \in 1 .. N : whole[i] = NodeWhole(expr[i], int, whole[expr[i].a], whole[expr[i].b])
  BY Nodes, EvalNodesIs, EvalAreItvs, WholeNodesIs DEF FitsDim
<1>1. ASSUME NEW i \in 1 .. N, \A j \in 1 .. i - 1 : j \in S
      PROVE  i \in S
  <2> DEFINE n == expr[i]
             x == val[n.a]
             y == val[n.b]
  <2>0. whole[i] = NodeWhole(n, int, whole[n.a], whole[n.b])
    BY <1>0
  <2>1. val[i] = NodeItv(n, env, x, y)
    BY <1>0
  <2>2. IsNode(n, i, uses) /\ i \in Nat
    BY Nodes
  <2>3. CASE IsLeaf(n)
    <3>1. CASE n.op = "CST"
      <4>1. NodeItv(n, env, x, y) = n.itv
        BY <3>1 DEF NodeItv, Unary, Binary
      <4> QED BY <2>1, <2>2, <3>1, <4>1, NodeKinds
    <3>2. CASE n.op = "DIM"
      <4>1. NodeItv(n, env, x, y) = env[n.dim]
        BY <3>2 DEF NodeItv, Unary, Binary
      <4>2. n.dim \in uses
        BY <2>2, <3>2, NodeKinds
      <4>3. whole[i] <=> n.dim < int
        BY <3>2, <2>0 DEF NodeWhole
      <4> QED BY <2>1, <4>1, <4>2, <4>3 DEF ProperEnv
    <3> QED BY <2>3, <3>1, <3>2 DEF IsLeaf
  <2>4. CASE ~IsLeaf(n)
    <3>1. IsOperator(n) /\ n.a \in 1 .. i - 1 /\ n.b \in 1 .. i - 1
      BY <2>4, Nodes
    <3>2. /\ IsItv(x) /\ IsItv(y) /\ ~IsEmptyItv(x) /\ ~IsEmptyItv(y)
          /\ (whole[n.a] => IntegerItv(x)) /\ (whole[n.b] => IntegerItv(y))
      <4>1. n.a \in 1 .. N /\ n.b \in 1 .. N
        BY <3>1, <1>0
      <4> QED BY <1>0, <1>1, <3>1, <4>1
    <3>3. n.op = "DIV" => y.sup[1] >= 0
      <4>1. n.op = "DIV" => BoundSgn(y.sup) >= 0
        BY <1>0 DEF DividesUp
      <4>2. IsBound(y.sup)
        BY <3>2, ItvSides
      <4> QED BY <4>1, <4>2, BoundKinds
    <3>4. n.op = "MOD" => whole[n.a] /\ whole[n.b]
      BY <1>0 DEF FitsDim
    <3>5. n.op = "NEG" => (whole[i] <=> whole[n.a])
      BY <2>0 DEF NodeWhole
    <3> HIDE DEF x, y, n, whole
    <3>6. CASE n.op \in Unary
      <4>1. n.op # "DIV" /\ n.op # "MOD"
        BY <3>6 DEF Unary
      <4>2. NodeItv(n, env, x, y) = EvalNode(n, x, x)
        BY <3>1, <3>2, <3>6, NodeItvOfOperator
      <4>3. ~IsEmptyItv(EvalNode(n, x, x)) /\ (n.op # "NEG" => IntegerItv(EvalNode(n, x, x)))
            /\ (n.op = "NEG" /\ IntegerItv(x) => IntegerItv(EvalNode(n, x, x)))
        BY <3>1, <3>2, <4>1, EvalNodeIs
      <4> QED BY <2>1, <3>2, <3>5, <4>2, <4>3
    <3>7. CASE n.op \in Binary
      <4>1. n.op # "NEG"
        BY <3>7 DEF Binary
      <4>2. NodeItv(n, env, x, y) = EvalNode(n, x, y)
        BY <3>1, <3>2, <3>7, NodeItvOfOperator
      <4>3. ~IsEmptyItv(EvalNode(n, x, y)) /\ IntegerItv(EvalNode(n, x, y))
        BY <3>1, <3>2, <3>3, <3>4, <4>1, EvalNodeIs
      <4> QED BY <2>1, <4>2, <4>3
    <3> QED BY <3>1, <3>6, <3>7, NodeItvOfOperator
  <2> QED BY <2>3, <2>4
<1>2. 1 .. N \subseteq S
  <2> HIDE DEF S
  <2> QED BY <1>0, <1>1, InCourse
<1>3. EvalTexpr(expr, env) = val[N] /\ IsItv(val[N]) /\ ~IsEmptyItv(val[N]) /\ (whole[N] => IntegerItv(val[N]))
  BY <1>0, <1>2 DEF EvalTexpr
<1>4. dim < int => whole[N]
  BY DEF FitsDim
<1> HIDE DEF val, whole, N
<1> QED BY <1>3, <1>4

-----------------------------------------------------------------------------
(***************************************************************************)
(* Linear expressions.                                                     *)
(***************************************************************************)
(* A bound times a number that is not negative.                            *)
LEMMA ScaleUp ==
  ASSUME NEW b, NEW c, IsBound(b), IsFrac(c), c[1] >= 0
  PROVE  /\ IsBound(BoundMul(b, c))
         /\ ~IsInfty(b) => ~IsInfty(BoundMul(b, c))
         /\ \A q : IsFrac(q) /\ AtMost(q, b) => AtMost(FracMul(q, c), BoundMul(b, c))
<1>1. IsBound(c) /\ IsFrac(BoundNeg(c)) /\ IsBound(BoundNeg(c)) /\ BoundNeg(BoundNeg(c)) = c
      /\ BoundNeg(c)[1] = -c[1] /\ c[1] \in Int /\ c[2] \in Int /\ c[2] > 0 /\ BoundNeg(c)[2] = c[2]
  BY FracIs, NegIs
<1>2. b[1] \in Int
  BY BoundKinds
<1>3. AtMost(c, c) /\ AtMost(BoundNeg(c), BoundNeg(c))
  BY <1>1 DEF AtMost
<1>6. ~IsInfty(b) => ~IsInfty(BoundMul(b, c))
  <2> SUFFICES ASSUME ~IsInfty(b) PROVE ~IsInfty(BoundMul(b, c))
    OBVIOUS
  <2>1. IsFrac(b) /\ ~IsInfty(c) /\ b[1] \in Int /\ b[2] \in Int /\ b[2] > 0
    BY BoundKinds, FracIs
  <2>2. b[1] * c[1] \in Int /\ b[2] * c[2] \in Int /\ b[2] * c[2] > 0
    BY <1>1, <2>1
  <2>3. IsFrac(Num(b[1] * c[1], b[2] * c[2]))
    BY <2>2, NumIs
  <2>4. ~IsInfty(Num(b[1] * c[1], b[2] * c[2])) /\ ~IsInfty(Zero)
    BY <2>3, FracIs, ZeroIs
  <2> QED BY <2>1, <2>4 DEF BoundMul
<1>4. CASE b[1] >= 0
  <2>1. IsBound(BoundMul(b, c))
    BY <1>1, <1>4, MulUp
  <2>2. \A q : IsFrac(q) /\ AtMost(q, b) => AtMost(FracMul(q, c), BoundMul(b, c))
    BY <1>1, <1>3, <1>4, MulUp
  <2> QED BY <1>6, <2>1, <2>2
<1>5. CASE b[1] < 0
  <2> DEFINE n == BoundNeg(c)
  <2>1. IsBound(n) /\ n[1] <= 0 /\ b[1] <= 0 /\ BoundNeg(n) = c /\ AtMost(BoundNeg(c), n)
    BY <1>1, <1>2, <1>3, <1>5
  <2> HIDE DEF n
  <2>2. IsBound(BoundMul(b, c))
    BY <2>1, MulDown
  <2>3. \A q : IsFrac(q) /\ AtMost(q, b) => AtMost(FracMul(q, c), BoundMul(b, c))
    BY <2>1, MulDown
  <2> QED BY <1>6, <2>2, <2>3
<1> QED BY <1>2, <1>4, <1>5, <1>6

LEMMA ItvMulBoundIs ==
  ASSUME NEW b, IsItv(b), NEW c, IsFrac(c)
  PROVE  /\ IsItv(ItvMulBound(b, c))
         /\ ~IsInfty(b.inf) /\ ~IsInfty(b.sup) => ~IsInfty(ItvMulBound(b, c).inf) /\ ~IsInfty(ItvMulBound(b, c).sup)
         /\ \A q : IsFrac(q) /\ In(q, b) => In(FracMul(q, c), ItvMulBound(b, c))
<1>1. IsBound(b.inf) /\ IsBound(b.sup)
  BY ItvSides
<1>2. IsFrac(BoundNeg(c)) /\ BoundNeg(c)[1] = -c[1] /\ c[1] \in Int /\ IsBound(c)
  BY FracIs, NegIs
<1>3. BoundSgn(c) >= 0 <=> c[1] >= 0
  BY <1>2 DEF BoundSgn, SgnOf
<1>4. ASSUME NEW q, IsFrac(q)
      PROVE  /\ BoundNeg(FracMul(q, c)) = FracMul(BoundNeg(q), c)
             /\ BoundNeg(FracMul(q, c)) = FracMul(q, BoundNeg(c))
             /\ FracMul(BoundNeg(q), BoundNeg(c)) = FracMul(q, c)
             /\ IsFrac(BoundNeg(q))
  BY <1>4, FracOps, FracMulIs, NegIs
<1>5. CASE c[1] >= 0
  <2>1. ItvMulBound(b, c) = Itv(BoundMul(b.inf, c), BoundMul(b.sup, c))
    BY <1>3, <1>5 DEF ItvMulBound
  <2>2. IsBound(BoundMul(b.inf, c)) /\ IsBound(BoundMul(b.sup, c))
    BY <1>1, <1>5, ScaleUp
  <2>3. ASSUME NEW q, IsFrac(q), In(q, b)
        PROVE  In(FracMul(q, c), ItvMulBound(b, c))
    <3>1. AtMost(q, b.sup) /\ AtMost(BoundNeg(q), b.inf)
      BY <2>3 DEF In
    <3>2. AtMost(FracMul(q, c), BoundMul(b.sup, c)) /\ AtMost(FracMul(BoundNeg(q), c), BoundMul(b.inf, c))
      BY <1>1, <1>4, <1>5, <2>3, <3>1, ScaleUp
    <3> QED BY <2>1, <2>2, <3>2, <1>4, <2>3, ItvIs DEF In
  <2> QED BY <1>1, <1>5, <2>1, <2>2, <2>3, ScaleUp, ItvIs
<1>6. CASE c[1] < 0
  <2> DEFINE n == BoundNeg(c)
  <2>0. n[1] >= 0 /\ IsFrac(n)
    BY <1>2, <1>6
  <2>1. ItvMulBound(b, c) = Swap(Itv(BoundMul(b.inf, n), BoundMul(b.sup, n)))
    BY <1>2, <1>3, <1>6 DEF ItvMulBound
  <2> HIDE DEF n
  <2>2. IsBound(BoundMul(b.inf, n)) /\ IsBound(BoundMul(b.sup, n))
    BY <1>1, <2>0, ScaleUp
  <2>5. IsItv(ItvMulBound(b, c)) /\ ItvMulBound(b, c).inf = BoundMul(b.sup, n) /\ ItvMulBound(b, c).sup = BoundMul(b.inf, n)
    BY <2>1, <2>2, ItvIs DEF Swap
  <2>3. ASSUME NEW q, IsFrac(q), In(q, b)
        PROVE  In(FracMul(q, c), ItvMulBound(b, c))
    <3>1. AtMost(q, b.sup) /\ AtMost(BoundNeg(q), b.inf)
      BY <2>3 DEF In
    <3>2. IsFrac(BoundNeg(q))
      BY <1>4, <2>3
    <3>3. AtMost(FracMul(q, n), BoundMul(b.sup, n)) /\ AtMost(FracMul(BoundNeg(q), n), BoundMul(b.inf, n))
      BY <1>1, <2>0, <2>3, <3>1, <3>2, ScaleUp
    <3> QED BY <2>5, <3>3, <1>4, <2>3 DEF In, n
  <2>4. ~IsInfty(b.inf) => ~IsInfty(BoundMul(b.inf, n))
    BY <1>1, <2>0, ScaleUp
  <2>6. ~IsInfty(b.sup) => ~IsInfty(BoundMul(b.sup, n))
    BY <1>1, <2>0, ScaleUp
  <2> QED BY <2>3, <2>4, <2>5, <2>6
<1> QED BY <1>2, <1>5, <1>6

(* A point holds one number.                                               *)
LEMMA PointIs ==
  ASSUME NEW a, IsItv(a), ItvIsPoint(a)
  PROVE  /\ IsFrac(a.sup) /\ IsFrac(a.inf) /\ ~IsEmptyItv(a) /\ In(a.sup, a)
         /\ BoundNeg(a.sup) = a.inf /\ BoundNeg(a.inf) = a.sup
         /\ \A q : IsFrac(q) /\ In(q, a) => q = a.sup
<1>1. IsFrac(a.sup) /\ IsFrac(a.inf) /\ BoundNeg(a.inf) = a.sup
  BY ItvSides, BoundKinds DEF ItvIsPoint
<1>2. BoundNeg(a.sup) = a.inf
  BY <1>1, NegIs
<1>3. \A q : IsFrac(q) => AtMost(q, q)
  BY FracIs DEF AtMost
<1>4. In(a.sup, a)
  BY <1>1, <1>2, <1>3 DEF In
<1>5. ASSUME NEW q, IsFrac(q), In(q, a)
      PROVE  q = a.sup
  <2>1. q[1] * a.sup[2] <= a.sup[1] * q[2] /\ (-q[1]) * a.sup[2] <= (-a.sup[1]) * q[2]
    BY <1>1, <1>2, <1>5, NegIs DEF In, AtMost
  <2>2. q[1] \in Int /\ q[2] \in Int /\ a.sup[1] \in Int /\ a.sup[2] \in Int
    BY <1>1, <1>5, FracIs
  <2>3. q[1] * a.sup[2] >= a.sup[1] * q[2]
    BY <2>1, <2>2
  <2> QED BY <1>1, <1>5, <2>1, <2>2, <2>3, SameFrac
<1> QED BY <1>1, <1>2, <1>4, <1>5, NonEmptyIs

Proper(a) == IsItv(a) /\ ~IsEmptyItv(a)

LEMMA EvalTermIs ==
  ASSUME NEW itv, Proper(itv), NEW coeff, Proper(coeff)
  PROVE  /\ Proper(EvalTerm(itv, coeff))
         /\ \A q, r : IsFrac(q) /\ IsFrac(r) /\ In(q, itv) /\ In(r, coeff) => In(FracMul(q, r), EvalTerm(itv, coeff))
<1>0. IsItv(itv) /\ ~IsEmptyItv(itv) /\ IsItv(coeff) /\ ~IsEmptyItv(coeff)
  BY DEF Proper
<1>1. PICK q, r : IsFrac(q) /\ IsFrac(r) /\ In(q, itv) /\ In(r, coeff)
  BY <1>0, SomeFrac
<1>2. ASSUME NEW x, NEW y, IsFrac(x), IsFrac(y), In(x, itv), In(y, coeff)
      PROVE  In(FracMul(x, y), EvalTerm(itv, coeff)) /\ IsItv(EvalTerm(itv, coeff)) /\ IsFrac(FracMul(x, y))
  <2>0. IsFrac(FracMul(x, y))
    BY <1>2, FracOps
  <2>1. CASE ItvIsPoint(coeff)
    <3>1. IsFrac(coeff.sup) /\ y = coeff.sup
      BY <1>0, <1>2, <2>1, PointIs
    <3>2. IsItv(ItvMulBound(itv, coeff.sup)) /\ In(FracMul(x, coeff.sup), ItvMulBound(itv, coeff.sup))
      BY <1>0, <1>2, <3>1, ItvMulBoundIs
    <3> QED BY <2>0, <2>1, <3>1, <3>2 DEF EvalTerm
  <2>2. CASE ~ItvIsPoint(coeff)
    <3>1. IsItv(ItvMul(itv, coeff)) /\ In(FracMul(x, y), ItvMul(itv, coeff))
      BY <1>0, <1>2, ItvMulIs
    <3> QED BY <2>0, <2>2, <3>1 DEF EvalTerm
  <2> QED BY <2>1, <2>2
<1>3. ~IsEmptyItv(EvalTerm(itv, coeff)) /\ IsItv(EvalTerm(itv, coeff))
  BY <1>1, <1>2, NonEmptyIs
<1> QED BY <1>2, <1>3 DEF Proper

Itvs == {a \in [inf : Int \X Int, sup : Int \X Int] : Proper(a)}

LEMMA ItvsAre ==
  ASSUME NEW a
  PROVE  a \in Itvs <=> Proper(a)
<1>1. ASSUME Proper(a) PROVE a \in [inf : Int \X Int, sup : Int \X Int]
  <2>1. a = Itv(a.inf, a.sup) /\ IsBound(a.inf) /\ IsBound(a.sup)
    BY <1>1 DEF Proper, IsItv
  <2>2. \A b : IsBound(b) => b \in Int \X Int
    BY DEF IsBound, IsFrac, PlusOo, Infty
  <2>3. a.inf \in Int \X Int /\ a.sup \in Int \X Int
    BY <2>1, <2>2
  <2> QED BY <2>1, <2>3 DEF Itv
<1> QED BY <1>1 DEF Itvs

LEMMA AddIsProper ==
  ASSUME NEW a, NEW b, Proper(a), Proper(b)
  PROVE  Proper(ItvAdd(a, b)) /\ Proper(ItvSub(a, b)) /\ Proper(ItvMul(a, b)) /\ Proper(ItvNeg(a))
<1>1. IsItv(a) /\ ~IsEmptyItv(a) /\ IsItv(b) /\ ~IsEmptyItv(b)
  BY DEF Proper
<1>2. PICK q, r : IsFrac(q) /\ IsFrac(r) /\ In(q, a) /\ In(r, b)
  BY <1>1, SomeFrac
<1>3. /\ IsItv(ItvAdd(a, b)) /\ In(FracAdd(q, r), ItvAdd(a, b)) /\ IsFrac(FracAdd(q, r))
      /\ IsItv(ItvSub(a, b)) /\ In(FracAdd(q, BoundNeg(r)), ItvSub(a, b)) /\ IsFrac(FracAdd(q, BoundNeg(r)))
  BY <1>1, <1>2, ItvAddIs, FracOps, NegIs
<1>4. IsItv(ItvMul(a, b)) /\ In(FracMul(q, r), ItvMul(a, b)) /\ IsFrac(FracMul(q, r))
  BY <1>1, <1>2, ItvMulIs, FracOps
<1>5. IsItv(ItvNeg(a)) /\ In(BoundNeg(q), ItvNeg(a)) /\ IsFrac(BoundNeg(q))
  <2>1. ItvNeg(a) = Itv(a.sup, a.inf) /\ IsBound(a.sup) /\ IsBound(a.inf)
    BY <1>1, ItvSides DEF ItvNeg, Swap
  <2> QED BY <1>2, <2>1, ItvIs, NegIs DEF In
<1> QED BY <1>3, <1>4, <1>5, NonEmptyIs DEF Proper

(* The terms are of the dimensions in use, with proper numbers.            *)
ProperLin(l, uses) ==
  /\ Proper(l.cst) /\ l.eq \in BOOLEAN
  /\ DOMAIN l.terms \subseteq uses
  /\ \A d \in DOMAIN l.terms : Proper(l.terms[d])

LEMMA EvalLinIs ==
  ASSUME NEW uses, uses \subseteq Nat, IsFiniteSet(uses), NEW l, ProperLin(l, uses), NEW env, ProperEnv(env, uses)
  PROVE  LET dims == Ascending(DOMAIN l.terms)
         IN \E sum \in [0 .. Len(dims) -> Itvs] :
              /\ sum[0] = l.cst
              /\ \A k \in 1 .. Len(dims) :
                   sum[k] = ItvAdd(sum[k - 1], EvalTerm(env[dims[k]], l.terms[dims[k]]))
              /\ EvalLin(l, env) = sum[Len(dims)]
<1> DEFINE dims == Ascending(DOMAIN l.terms)
           n == Len(dims)
           st == [k \in 1 .. n |-> [x \in Itvs |-> ItvAdd(x, EvalTerm(env[dims[k]], l.terms[dims[k]]))]]
           F(g) == [k \in 0 .. n |-> IF k = 0 THEN l.cst
                      ELSE ItvAdd(g[k - 1], EvalTerm(env[dims[k]], l.terms[dims[k]]))]
<1>1. n \in Nat /\ \A k \in 1 .. n : dims[k] \in DOMAIN l.terms
  BY FS_Subset, AscendingIs DEF ProperLin
<1>2. l.cst \in Itvs
  BY ItvsAre DEF ProperLin
<1>3. st \in [1 .. n -> [Itvs -> Itvs]]
  <2> SUFFICES ASSUME NEW k \in 1 .. n, NEW x \in Itvs
               PROVE  ItvAdd(x, EvalTerm(env[dims[k]], l.terms[dims[k]])) \in Itvs
    OBVIOUS
  <2>1. Proper(env[dims[k]]) /\ Proper(l.terms[dims[k]])
    BY <1>1 DEF ProperEnv, ProperLin, Proper
  <2> HIDE DEF dims, n
  <2>2. Proper(EvalTerm(env[dims[k]], l.terms[dims[k]]))
    BY <2>1, EvalTermIs
  <2> QED BY <2>2, AddIsProper, ItvsAre
<1>4. PICK sum \in [0 .. n -> Itvs] : sum[0] = l.cst /\ \A k \in 1 .. n : sum[k] = st[k][sum[k - 1]]
  <2>1. n \in Nat
    BY <1>1
  <2> DEFINE a == l.cst
  <2>2. a \in Itvs
    BY <1>2
  <2> HIDE DEF n, st, dims, F, a
  <2>3. \E g : g \in [0 .. n -> Itvs] /\ Steps(g, a, st, n)
    BY ONLY <2>1, <2>2, <1>3, SomeSequence
  <2> QED BY <2>3 DEF a, Steps
<1>5. \A k \in 1 .. n : sum[k - 1] \in Itvs
  BY <1>1
<1>6. \A k \in 1 .. n : sum[k] = ItvAdd(sum[k - 1], EvalTerm(env[dims[k]], l.terms[dims[k]]))
  BY <1>4, <1>5
<1>7. sum = F(sum)
  <2> HIDE DEF n, dims, st
  <2>1. ASSUME NEW k \in 0 .. n
        PROVE  sum[k] = F(sum)[k]
    BY <1>1, <1>4, <1>6
  <2>2. sum = [k \in 0 .. n |-> sum[k]] /\ F(sum) = [k \in 0 .. n |-> F(sum)[k]]
    BY <1>4
  <2> HIDE DEF F
  <2> QED BY <2>1, <2>2
<1> DEFINE val == CHOOSE g : g = F(g)
<1>8. val = F(val)
  <2> HIDE DEF F
  <2> QED BY <1>7
<1>9. EvalLin(l, env) = val[n]
  BY DEF EvalLin
<1>10. \A k \in 0 .. n : val[k] = IF k = 0 THEN l.cst
                      ELSE ItvAdd(val[k - 1], EvalTerm(env[dims[k]], l.terms[dims[k]]))
  <2> HIDE DEF n, dims, val
  <2> QED BY <1>8
<1> HIDE DEF val, n, dims, st, F
<1> DEFINE S == {k \in 0 .. n : val[k] = sum[k]}
<1>11. 0 .. n \subseteq S
  <2>1. 0 \in S
    BY <1>1, <1>4, <1>10
  <2>2. \A i \in 0 .. n - 1 : i \in S => i + 1 \in S
    <3> SUFFICES ASSUME NEW i \in 0 .. n - 1, i \in S PROVE i + 1 \in S
      OBVIOUS
    <3>1. i + 1 \in 1 .. n /\ i + 1 \in 0 .. n /\ (i + 1) - 1 = i /\ i + 1 # 0
      BY <1>1
    <3> QED BY <3>1, <1>6, <1>10
  <2> HIDE DEF S
  <2> QED BY <1>1, <2>1, <2>2, UpTo
<1>12. val[n] = sum[n]
  BY <1>1, <1>11
<1> QED BY <1>4, <1>6, <1>9, <1>12 DEF dims, n

-----------------------------------------------------------------------------
(***************************************************************************)
(* Products that are not zero, and products that are finite.               *)
(***************************************************************************)
Bounded(a) == ~IsInfty(a.inf) /\ ~IsInfty(a.sup)
NonZero(a) == a.inf[1] # 0 \/ a.sup[1] # 0
Signed(x)  == x[1] \in Int /\ x[2] \in Int /\ x[2] >= 0 /\ (x[2] = 0 => x[1] # 0)

LEMMA SignedIs ==
  ASSUME NEW x, IsBound(x)
  PROVE  /\ Signed(x) /\ Signed(BoundNeg(x))
         /\ BoundNeg(x)[1] = -x[1] /\ (IsInfty(BoundNeg(x)) <=> IsInfty(x)) /\ x[1] \in Int
         /\ x[1] <= 0 => ~IsInfty(x)
<1>1. IsFrac(x) \/ x = PlusOo
  BY DEF IsBound
<1>2. x[1] \in Int /\ x[2] \in Int /\ x[2] >= 0 /\ (x[2] = 0 => x[1] > 0)
  BY <1>1, FracIs, PlusOoIs
<1>3. BoundNeg(x)[1] = -x[1] /\ BoundNeg(x)[2] = x[2]
  BY DEF BoundNeg
<1> QED BY <1>2, <1>3 DEF Signed, IsInfty

LEMMA MulKinds ==
  ASSUME NEW x, NEW y, Signed(x), Signed(y)
  PROVE  /\ BoundMul(x, y)[1] \in Int
         /\ BoundMul(x, y)[1] = 0 <=> x[1] = 0 \/ y[1] = 0
         /\ IsInfty(BoundMul(x, y)) <=> x[1] # 0 /\ y[1] # 0 /\ (IsInfty(x) \/ IsInfty(y))
         /\ x[1] > 0 /\ y[1] > 0 => BoundMul(x, y)[1] > 0
<1>1. /\ x[1] \in Int /\ x[2] \in Int /\ x[2] >= 0 /\ (x[2] = 0 => x[1] # 0)
      /\ y[1] \in Int /\ y[2] \in Int /\ y[2] >= 0 /\ (y[2] = 0 => y[1] # 0)
  BY DEF Signed
<1>2. /\ BoundSgn(x) \in {-1, 0, 1} /\ (BoundSgn(x) = 0 <=> x[1] = 0) /\ (BoundSgn(x) = 1 <=> x[1] > 0)
      /\ BoundSgn(y) \in {-1, 0, 1} /\ (BoundSgn(y) = 0 <=> y[1] = 0) /\ (BoundSgn(y) = 1 <=> y[1] > 0)
  BY <1>1 DEF BoundSgn, SgnOf
<1>3. CASE x[1] = 0 \/ y[1] = 0
  <2>1. BoundMul(x, y) = Zero
    BY <1>2, <1>3 DEF BoundMul
  <2> QED BY <1>1, <1>3, <2>1, ZeroIs, FracIs
<1>4. CASE x[1] # 0 /\ y[1] # 0 /\ (IsInfty(x) \/ IsInfty(y))
  <2>1. BoundMul(x, y) = <<BoundSgn(x) * BoundSgn(y), 0>>
    BY <1>2, <1>4 DEF BoundMul, Infty
  <2>2. \A u, v \in {-1, 0, 1} : u # 0 /\ v # 0 => u * v \in {-1, 1} /\ (u = 1 /\ v = 1 => u * v = 1)
    OBVIOUS
  <2>3. BoundSgn(x) * BoundSgn(y) \in {-1, 1} /\ (x[1] > 0 /\ y[1] > 0 => BoundSgn(x) * BoundSgn(y) = 1)
    BY <1>2, <1>4, <2>2
  <2> QED BY <1>4, <2>1, <2>3 DEF IsInfty
<1>5. CASE x[1] # 0 /\ y[1] # 0 /\ ~IsInfty(x) /\ ~IsInfty(y)
  <2>1. BoundMul(x, y) = Num(x[1] * y[1], x[2] * y[2])
    BY <1>2, <1>5 DEF BoundMul
  <2>2. x[1] * y[1] \in Int /\ x[2] * y[2] \in Int /\ x[2] * y[2] > 0 /\ x[1] * y[1] # 0
        /\ (x[1] > 0 /\ y[1] > 0 => x[1] * y[1] > 0)
    <3>1. x[2] > 0 /\ y[2] > 0
      BY <1>1, <1>5 DEF IsInfty
    <3>2. \A u, v \in Int : (u > 0 /\ v > 0 => u * v > 0) /\ (u # 0 /\ v # 0 => u * v # 0)
      OBVIOUS
    <3> QED BY <1>1, <1>5, <3>1, <3>2
  <2> DEFINE n == x[1] * y[1]  d == x[2] * y[2]
  <2> HIDE DEF n, d
  <2>3. IsFrac(Num(n, d)) /\ (Num(n, d)[1] >= 0 <=> n >= 0) /\ (Num(n, d)[1] <= 0 <=> n <= 0)
    BY <2>2, AtMostNum DEF n, d
  <2>4. Num(n, d)[1] \in Int /\ ~IsInfty(Num(n, d))
    BY <2>3, FracIs
  <2> QED BY <1>5, <2>1, <2>2, <2>3, <2>4 DEF n, d
<1> QED BY <1>3, <1>4, <1>5

LEMMA SidesOfProper ==
  ASSUME NEW a, Proper(a)
  PROVE  /\ IsItv(a) /\ IsBound(a.inf) /\ IsBound(a.sup)
         /\ Signed(a.inf) /\ Signed(a.sup) /\ Signed(BoundNeg(a.inf)) /\ Signed(BoundNeg(a.sup))
         /\ BoundNeg(a.inf)[1] = -a.inf[1] /\ BoundNeg(a.sup)[1] = -a.sup[1]
         /\ a.inf[1] \in Int /\ a.sup[1] \in Int
         /\ IsInfty(BoundNeg(a.inf)) <=> IsInfty(a.inf)
         /\ IsInfty(BoundNeg(a.sup)) <=> IsInfty(a.sup)
         /\ Positive(a) <=> a.inf[1] <= 0
         /\ Negative(a) <=> a.sup[1] <= 0
         /\ a.inf[1] <= 0 => ~IsInfty(a.inf) /\ a.sup[1] >= 0
         /\ a.sup[1] <= 0 => ~IsInfty(a.sup) /\ a.inf[1] >= 0
         /\ a.inf[1] < 0 => a.sup[1] > 0
         /\ a.sup[1] < 0 => a.inf[1] > 0
<1>1. PICK q : IsFrac(q) /\ In(q, a)
  BY SomeFrac DEF Proper
<1>2. IsItv(a) /\ IsBound(a.inf) /\ IsBound(a.sup)
  BY ItvSides DEF Proper
<1>3. /\ Signed(a.inf) /\ Signed(a.sup) /\ Signed(BoundNeg(a.inf)) /\ Signed(BoundNeg(a.sup))
      /\ BoundNeg(a.inf)[1] = -a.inf[1] /\ BoundNeg(a.sup)[1] = -a.sup[1]
      /\ a.inf[1] \in Int /\ a.sup[1] \in Int
      /\ IsInfty(BoundNeg(a.inf)) <=> IsInfty(a.inf)
      /\ IsInfty(BoundNeg(a.sup)) <=> IsInfty(a.sup)
      /\ a.inf[1] <= 0 => ~IsInfty(a.inf)
      /\ a.sup[1] <= 0 => ~IsInfty(a.sup)
  BY <1>2, SignedIs
<1>4. /\ Positive(a) <=> a.inf[1] <= 0
      /\ Negative(a) <=> a.sup[1] <= 0
      /\ a.inf[1] <= 0 => a.sup[1] >= 0
      /\ a.sup[1] <= 0 => a.inf[1] >= 0
      /\ a.inf[1] < 0 => a.sup[1] > 0
      /\ a.sup[1] < 0 => a.inf[1] > 0
  BY <1>1, <1>2, ItvSides
<1> QED BY <1>2, <1>3, <1>4

(* A factor that is finite, or not zero, on the sides that matter.         *)
LEMMA MulPKinds ==
  ASSUME NEW b, Proper(b), NEW c, Proper(c), c.inf[1] <= 0, b.inf[1] # 0 \/ b.sup[1] # 0, c.sup[1] > 0
  PROVE  /\ NonZero(MulP(b, c))
         /\ Bounded(MulP(b, c)) <=> Bounded(b) /\ Bounded(c)
         /\ b.inf[1] > 0 => /\ MulP(b, c).inf[1] > 0
                            /\ IsInfty(b.inf) \/ IsInfty(c.sup) => IsInfty(MulP(b, c).inf)
         /\ b.sup[1] > 0 /\ IsInfty(b.sup) => IsInfty(MulP(b, c).sup)
<1>1. CASE b.inf[1] <= 0
  <2>1. MulP(b, c).inf = BoundMul(b.inf, BoundNeg(c.inf)) /\ MulP(b, c).sup = BoundMul(b.sup, c.sup)
    BY <1>1, SidesOfProper DEF MulP, MulPP, Itv
  <2> QED BY <1>1, <2>1, SidesOfProper, MulKinds DEF NonZero, Bounded
<1>2. CASE b.inf[1] > 0 /\ b.sup[1] <= 0
  <2>1. MulP(b, c).inf = BoundMul(c.sup, b.inf) /\ MulP(b, c).sup = BoundMul(BoundNeg(c.inf), b.sup)
    BY <1>2, SidesOfProper DEF MulP, MulPN, Itv
  <2> QED BY <1>2, <2>1, SidesOfProper, MulKinds DEF NonZero, Bounded
<1>3. CASE b.inf[1] > 0 /\ b.sup[1] > 0
  <2>1. MulP(b, c).inf = BoundMul(b.inf, c.sup) /\ MulP(b, c).sup = BoundMul(b.sup, c.sup)
    BY <1>3, SidesOfProper DEF MulP, Itv
  <2> QED BY <1>3, <2>1, SidesOfProper, MulKinds DEF NonZero, Bounded
<1> QED BY <1>1, <1>2, <1>3, SidesOfProper

LEMMA MulNKinds ==
  ASSUME NEW b, Proper(b), NEW c, Proper(c), c.sup[1] <= 0, b.inf[1] # 0 \/ b.sup[1] # 0, c.inf[1] > 0
  PROVE  /\ NonZero(MulN(b, c))
         /\ Bounded(MulN(b, c)) <=> Bounded(b) /\ Bounded(c)
         /\ b.inf[1] > 0 => /\ MulN(b, c).sup[1] > 0
                            /\ IsInfty(b.inf) \/ IsInfty(c.inf) => IsInfty(MulN(b, c).sup)
<1>1. CASE b.inf[1] <= 0
  <2>1. MulN(b, c).inf = BoundMul(b.sup, c.inf) /\ MulN(b, c).sup = BoundMul(BoundNeg(b.inf), c.sup)
    BY <1>1, SidesOfProper DEF MulN, MulPN, Itv
  <2> QED BY <1>1, <2>1, SidesOfProper, MulKinds DEF NonZero, Bounded
<1>2. CASE b.inf[1] > 0 /\ b.sup[1] <= 0
  <2>1. MulN(b, c).inf = BoundMul(b.sup, BoundNeg(c.sup)) /\ MulN(b, c).sup = BoundMul(b.inf, c.inf)
    BY <1>2, SidesOfProper DEF MulN, MulNN, Itv
  <2> QED BY <1>2, <2>1, SidesOfProper, MulKinds DEF NonZero, Bounded
<1>3. CASE b.inf[1] > 0 /\ b.sup[1] > 0
  <2>1. MulN(b, c).inf = BoundMul(b.sup, c.inf) /\ MulN(b, c).sup = BoundMul(b.inf, c.inf)
    BY <1>3, SidesOfProper DEF MulN, Itv
  <2> QED BY <1>3, <2>1, SidesOfProper, MulKinds DEF NonZero, Bounded
<1> QED BY <1>1, <1>2, <1>3, SidesOfProper

LEMMA MaxKinds ==
  ASSUME NEW x, NEW y
  PROVE  /\ BoundMax(x, y) \in {x, y}
         /\ IsBound(x) /\ IsBound(y) /\ (IsInfty(x) \/ IsInfty(y)) => IsInfty(BoundMax(x, y))
         /\ IsBound(x) /\ IsBound(y) /\ (x[1] > 0 \/ y[1] > 0) => BoundMax(x, y)[1] > 0
<1>1. BoundMax(x, y) \in {x, y}
  BY DEF BoundMax
<1>2. ASSUME IsBound(x), IsBound(y)
      PROVE  /\ IsInfty(x) \/ IsInfty(y) => IsInfty(BoundMax(x, y))
             /\ x[1] > 0 \/ y[1] > 0 => BoundMax(x, y)[1] > 0
  <2> DEFINE m == BoundMax(x, y)
  <2>1. IsBound(m) /\ BoundCmp(x, m) <= 0 /\ BoundCmp(y, m) <= 0
    <3>1. \A z : IsBound(z) => BoundCmp(z, z) <= 0
      BY BoundCmpIs
    <3>2. BoundCmp(x, y) >= 0 <=> BoundCmp(y, x) <= 0
      BY <1>2, BoundCmpIs
    <3>3. BoundCmp(x, y) <= 0 \/ BoundCmp(y, x) <= 0
      BY <1>2, BoundCmpIs
    <3> QED BY <1>2, <3>1, <3>2, <3>3 DEF BoundMax
  <2> HIDE DEF m
  <2>2. \A z : IsBound(z) /\ BoundCmp(z, m) <= 0 => (IsInfty(z) => IsInfty(m)) /\ (z[1] > 0 => m[1] > 0)
    <3> SUFFICES ASSUME NEW z, IsBound(z), BoundCmp(z, m) <= 0
                 PROVE  (IsInfty(z) => IsInfty(m)) /\ (z[1] > 0 => m[1] > 0)
      OBVIOUS
    <3>1. CASE z = PlusOo
      BY <2>1, <3>1, BoundCmpIs, PlusOoIs
    <3>2. CASE IsFrac(z)
      <4>1. AtMost(z, m)
        BY <2>1, <3>2, BoundCmpIs
      <4>2. ~IsInfty(z) /\ z[1] \in Int /\ m[1] \in Int
        BY <2>1, <3>2, FracIs, SignedIs
      <4> QED BY <2>1, <3>2, <4>1, <4>2, AtMostSign
    <3> QED BY <3>1, <3>2 DEF IsBound
  <2> QED BY <1>2, <2>1, <2>2 DEF m
<1> QED BY <1>1, <1>2

LEMMA ItvMulKinds ==
  ASSUME NEW b, Proper(b), NEW c, Proper(c), NonZero(b), NonZero(c)
  PROVE  NonZero(ItvMul(b, c)) /\ (Bounded(ItvMul(b, c)) => Bounded(b) /\ Bounded(c))
<1>1. CASE c.inf[1] <= 0
  <2>1. ItvMul(b, c) = MulP(b, c)
    BY <1>1, SidesOfProper DEF ItvMul
  <2>2. c.sup[1] > 0
    BY <1>1, SidesOfProper DEF NonZero
  <2> QED BY <1>1, <2>1, <2>2, MulPKinds DEF NonZero
<1>2. CASE c.inf[1] > 0 /\ b.inf[1] <= 0 /\ c.sup[1] > 0
  <2>1. ItvMul(b, c) = MulP(c, b)
    BY <1>2, SidesOfProper DEF ItvMul
  <2>2. b.sup[1] > 0
    BY <1>2, SidesOfProper DEF NonZero
  <2> QED BY <1>2, <2>1, <2>2, MulPKinds DEF NonZero
<1>3. CASE c.inf[1] > 0 /\ c.sup[1] <= 0
  <2>1. ItvMul(b, c) = MulN(b, c)
    BY <1>3, SidesOfProper DEF ItvMul
  <2> QED BY <1>3, <2>1, MulNKinds DEF NonZero
<1>4. CASE c.inf[1] > 0 /\ c.sup[1] > 0 /\ b.inf[1] > 0
  <2> DEFINE u == Itv(Zero, c.sup)  v == Itv(c.inf, Zero)  p == MulP(b, u)  n == MulN(b, v)
  <2>1. ItvMul(b, c) = ItvJoin(p, n)
    BY <1>4, SidesOfProper DEF ItvMul
  <2>2. Proper(u) /\ Proper(v) /\ u.inf = Zero /\ u.sup = c.sup /\ v.inf = c.inf /\ v.sup = Zero
    <3>1. IsItv(u) /\ IsItv(v) /\ u.inf = Zero /\ u.sup = c.sup /\ v.inf = c.inf /\ v.sup = Zero
      BY SidesOfProper, ZeroIs, ItvIs
    <3>2. BoundNeg(Zero) = Zero /\ IsFrac(Zero) /\ Zero[1] = 0 /\ Zero[2] = 1
      BY IntBoundIs DEF Zero
    <3>3. AtMost(Zero, c.sup) /\ AtMost(Zero, c.inf) /\ AtMost(Zero, Zero)
      BY <1>4, <3>2, SidesOfProper, SignedIs DEF AtMost, Signed
    <3> QED BY <3>1, <3>2, <3>3, NonEmptyIs DEF In, Proper
  <2> HIDE DEF u, v
  <2>3. /\ Bounded(p) <=> Bounded(b) /\ Bounded(u)
        /\ p.inf[1] > 0
        /\ IsInfty(b.inf) \/ IsInfty(c.sup) => IsInfty(p.inf)
        /\ b.sup[1] > 0 /\ IsInfty(b.sup) => IsInfty(p.sup)
    BY <1>4, <2>2, ZeroIs, MulPKinds DEF p
  <2>4. /\ Bounded(n) <=> Bounded(b) /\ Bounded(v)
        /\ n.sup[1] > 0
        /\ IsInfty(b.inf) \/ IsInfty(c.inf) => IsInfty(n.sup)
    BY <1>4, <2>2, ZeroIs, MulNKinds DEF n
  <2>5. IsItv(p) /\ IsItv(n)
    <3>1. PICK q : IsFrac(q) /\ In(q, b)
      BY SomeFrac DEF Proper
    <3>2. PICK r : IsFrac(r) /\ In(r, u)
      BY <2>2, SomeFrac DEF Proper
    <3>3. PICK s : IsFrac(s) /\ In(s, v)
      BY <2>2, SomeFrac DEF Proper
    <3>4. IsItv(b) /\ IsItv(u) /\ IsItv(v) /\ Positive(u) /\ Negative(v)
      BY <2>2, ZeroIs, SidesOfProper
    <3> QED BY <3>1, <3>2, <3>3, <3>4, MulPIs, MulNIs DEF p, n
  <2>6. IsBound(p.inf) /\ IsBound(p.sup) /\ IsBound(n.inf) /\ IsBound(n.sup)
    BY <2>5, ItvSides
  <2>7. p # ItvBottom /\ n # ItvBottom
    BY <2>3, <2>4, IntBoundIs DEF ItvBottom, Itv
  <2> HIDE DEF p, n
  <2>8. ItvMul(b, c).inf = BoundMax(p.inf, n.inf) /\ ItvMul(b, c).sup = BoundMax(p.sup, n.sup)
    BY <2>1, <2>7 DEF ItvJoin, Itv
  <2>9. NonZero(ItvMul(b, c))
    BY <2>3, <2>6, <2>8, MaxKinds DEF NonZero
  <2>10. ASSUME Bounded(ItvMul(b, c))
         PROVE  Bounded(p) /\ Bounded(n)
    BY <2>6, <2>8, <2>10, MaxKinds DEF Bounded
  <2> QED BY <2>2, <2>3, <2>4, <2>9, <2>10 DEF Bounded
<1> QED BY <1>1, <1>2, <1>3, <1>4, SidesOfProper

(* Products of finite intervals are finite.                                *)
LEMMA ItvMulBounded ==
  ASSUME NEW b, Proper(b), NEW c, Proper(c), Bounded(b), Bounded(c)
  PROVE  Bounded(ItvMul(b, c))
<1> DEFINE Fin(a) == /\ Signed(a.inf) /\ Signed(a.sup) /\ Signed(BoundNeg(a.inf)) /\ Signed(BoundNeg(a.sup))
                     /\ ~IsInfty(a.inf) /\ ~IsInfty(a.sup) /\ ~IsInfty(BoundNeg(a.inf)) /\ ~IsInfty(BoundNeg(a.sup))
<1>1. Fin(b) /\ Fin(c)
  BY SidesOfProper DEF Bounded
<1>2. \A x, y : Fin(x) /\ Fin(y) => Bounded(MulPP(x, y)) /\ Bounded(MulNN(x, y)) /\ Bounded(MulPN(x, y))
  BY MulKinds DEF MulPP, MulNN, MulPN, Bounded, Itv
<1>3. \A x, y : Fin(x) /\ Fin(y) => Bounded(MulP(x, y)) /\ Bounded(MulN(x, y))
  <2> SUFFICES ASSUME NEW x, NEW y, Fin(x), Fin(y)
               PROVE  Bounded(MulP(x, y)) /\ Bounded(MulN(x, y))
    OBVIOUS
  <2>1. Bounded(Itv(BoundMul(x.inf, y.sup), BoundMul(x.sup, y.sup)))
        /\ Bounded(Itv(BoundMul(x.sup, y.inf), BoundMul(x.inf, y.inf)))
    BY MulKinds DEF Bounded, Itv
  <2>2. /\ Bounded(MulPP(x, y)) /\ Bounded(MulNN(x, y)) /\ Bounded(MulPN(x, y))
        /\ Bounded(MulPN(y, x))
    BY <1>2
  <2> HIDE DEF Fin
  <2> QED BY <2>1, <2>2 DEF MulP, MulN
<1>4. Fin(Itv(Zero, c.sup)) /\ Fin(Itv(c.inf, Zero))
  <2>1. Signed(Zero) /\ BoundNeg(Zero) = Zero /\ ~IsInfty(Zero)
    BY ZeroIs, SignedIs, FracIs, IntBoundIs DEF Zero
  <2> QED BY <1>1, <2>1 DEF Itv
<1>5. \A x, y : Bounded(x) /\ Bounded(y) => Bounded(ItvJoin(x, y))
  BY MaxKinds DEF ItvJoin, Bounded, Itv
<1> HIDE DEF Fin
<1>6. /\ Bounded(MulP(b, c)) /\ Bounded(MulP(c, b)) /\ Bounded(MulN(b, c))
      /\ Bounded(MulP(b, Itv(Zero, c.sup))) /\ Bounded(MulN(b, Itv(c.inf, Zero)))
  BY <1>1, <1>3, <1>4
<1> QED BY <1>5, <1>6 DEF ItvMul

-----------------------------------------------------------------------------
(***************************************************************************)
(* Linear forms: no coefficient is zero, and a form that says that its     *)
(* constant is a point has a finite constant unless a coefficient is       *)
(* infinite.                                                               *)
(***************************************************************************)
GoodLin(l, uses) ==
  /\ ProperLin(l, uses)
  /\ \A d \in DOMAIN l.terms : NonZero(l.terms[d])
  /\ l.eq /\ DOMAIN l.terms # {} /\ (\A d \in DOMAIN l.terms : Bounded(l.terms[d])) => Bounded(l.cst)

LEMMA NonZeroIs ==
  ASSUME NEW a, Proper(a)
  PROVE  NonZero(a) <=> a # Itv(Zero, Zero)
<1>1. IsItv(a) /\ IsBound(a.inf) /\ IsBound(a.sup) /\ a = Itv(a.inf, a.sup)
  BY SidesOfProper DEF IsItv
<1>2. ASSUME NEW x, IsBound(x), x[1] = 0 PROVE x = Zero
  <2>1. IsFrac(x)
    BY <1>2, PlusOoIs DEF IsBound
  <2>2. x[1] * Zero[2] = Zero[1] * x[2]
    BY <1>2, <2>1, ZeroIs, FracIs
  <2> QED BY <2>1, <2>2, ZeroIs, SameFrac
<1>3. Itv(Zero, Zero).inf = Zero /\ Itv(Zero, Zero).sup = Zero
  BY DEF Itv
<1> QED BY <1>1, <1>2, <1>3, ZeroIs DEF NonZero

LEMMA PointBounded ==
  ASSUME NEW a, ItvIsPoint(a)
  PROVE  Bounded(a)
  BY DEF ItvIsPoint, Bounded

LEMMA GoodLinCst ==
  ASSUME NEW m, Proper(m), NEW uses
  PROVE  GoodLin(LinCst(m), uses)
<1>1. LinCst(m).cst = m /\ LinCst(m).eq = ItvIsPoint(m) /\ DOMAIN LinCst(m).terms = {}
  BY DEF LinCst, Lin
<1>2. ItvIsPoint(m) \in BOOLEAN
  BY DEF ItvIsPoint
<1> QED BY <1>1, <1>2 DEF GoodLin, ProperLin

LEMMA ItvIntIs ==
  ASSUME NEW n \in Int
  PROVE  /\ Proper(ItvInt(n)) /\ Bounded(ItvInt(n)) /\ (n # 0 => NonZero(ItvInt(n)))
         /\ ItvIsPoint(ItvInt(n)) /\ ItvInt(n).sup = IntBound(n) /\ ItvInt(n).inf = IntBound(-n)
<1>1. ItvInt(n).sup = IntBound(n) /\ ItvInt(n).inf = IntBound(-n) /\ IsItv(ItvInt(n)) /\ IntBound(n)[1] = n
  BY IntBoundIs, ItvIs DEF ItvInt
<1>2. BoundNeg(IntBound(-n)) = IntBound(n) /\ ~IsInfty(IntBound(n)) /\ ~IsInfty(IntBound(-n))
  BY IntBoundIs, FracIs DEF IntBound, BoundNeg
<1>3. ItvIsPoint(ItvInt(n))
  BY <1>1, <1>2 DEF ItvIsPoint
<1> QED BY <1>1, <1>3, PointIs, PointBounded DEF Proper, NonZero

LEMMA GoodLinDim ==
  ASSUME NEW uses, NEW dim \in uses
  PROVE  GoodLin(LinDim(dim), uses)
<1>1. /\ LinDim(dim).cst = ItvInt(0) /\ LinDim(dim).eq = TRUE /\ DOMAIN LinDim(dim).terms = {dim}
      /\ \A d \in {dim} : LinDim(dim).terms[d] = ItvInt(1)
  BY DEF LinDim, Lin
<1>2. Proper(ItvInt(0)) /\ Bounded(ItvInt(0)) /\ Proper(ItvInt(1)) /\ NonZero(ItvInt(1))
  BY ItvIntIs
<1> QED BY <1>1, <1>2 DEF GoodLin, ProperLin

LEMMA GoodLinNeg ==
  ASSUME NEW uses, NEW l, GoodLin(l, uses)
  PROVE  GoodLin(LinNeg(l), uses)
<1>1. /\ LinNeg(l).cst = ItvNeg(l.cst) /\ LinNeg(l).eq = l.eq /\ DOMAIN LinNeg(l).terms = DOMAIN l.terms
      /\ \A d \in DOMAIN l.terms : LinNeg(l).terms[d] = ItvNeg(l.terms[d])
  BY DEF LinNeg, Lin
<1>2. \A a : Proper(a) => Proper(ItvNeg(a)) /\ (Bounded(ItvNeg(a)) <=> Bounded(a)) /\ (NonZero(ItvNeg(a)) <=> NonZero(a))
  BY AddIsProper DEF ItvNeg, Swap, Itv, Bounded, NonZero
<1> QED BY <1>1, <1>2 DEF GoodLin, ProperLin

LEMMA GoodLinScale ==
  ASSUME NEW uses, NEW l, GoodLin(l, uses), NEW c, Proper(c)
  PROVE  GoodLin(LinScale(l, c), uses)
<1>0. Proper(l.cst) /\ l.eq \in BOOLEAN /\ DOMAIN l.terms \subseteq uses
      /\ \A d \in DOMAIN l.terms : Proper(l.terms[d]) /\ NonZero(l.terms[d])
  BY DEF GoodLin, ProperLin
<1>1. CASE c = Itv(Zero, Zero)
  <2>1. LinScale(l, c).cst = c /\ LinScale(l, c).eq = l.eq /\ DOMAIN LinScale(l, c).terms = {}
    BY <1>1 DEF LinScale, Lin
  <2> QED BY <1>0, <2>1 DEF GoodLin, ProperLin
<1> DEFINE m == ItvMul(l.cst, c)
<1>2. Proper(m)
  BY <1>0, AddIsProper
<1>3. CASE c # Itv(Zero, Zero) /\ ItvIsTop(m)
  <2>1. LinScale(l, c).cst = ItvTop /\ LinScale(l, c).eq = l.eq /\ DOMAIN LinScale(l, c).terms = {}
    BY <1>3 DEF LinScale, Lin
  <2>2. Proper(ItvTop)
    BY ItvTopIs, ZeroIs, NonEmptyIs DEF Proper
  <2> QED BY <1>0, <2>1, <2>2 DEF GoodLin, ProperLin
<1>4. CASE c # Itv(Zero, Zero) /\ ~ItvIsTop(m)
  <2>1. /\ LinScale(l, c).cst = m /\ LinScale(l, c).eq = l.eq /\ DOMAIN LinScale(l, c).terms = DOMAIN l.terms
        /\ \A d \in DOMAIN l.terms : LinScale(l, c).terms[d] = ItvMul(l.terms[d], c)
    BY <1>4 DEF LinScale, Lin
  <2>2. NonZero(c)
    BY <1>4, NonZeroIs
  <2>3. \A d \in DOMAIN l.terms : /\ Proper(ItvMul(l.terms[d], c)) /\ NonZero(ItvMul(l.terms[d], c))
                                  /\ Bounded(ItvMul(l.terms[d], c)) => Bounded(l.terms[d]) /\ Bounded(c)
    BY <1>0, <2>2, AddIsProper, ItvMulKinds
  <2>4. Bounded(l.cst) /\ Bounded(c) => Bounded(m)
    BY <1>0, ItvMulBounded
  <2> HIDE DEF m
  <2> QED BY <1>0, <1>2, <2>1, <2>3, <2>4 DEF GoodLin, ProperLin
<1> QED BY <1>1, <1>3, <1>4

LEMMA AddKinds ==
  ASSUME NEW a, NEW b, Proper(a), Proper(b)
  PROVE  Bounded(ItvAdd(a, b)) <=> Bounded(a) /\ Bounded(b)
<1>1. IsBound(a.inf) /\ IsBound(a.sup) /\ IsBound(b.inf) /\ IsBound(b.sup)
  BY SidesOfProper
<1>2. ItvAdd(a, b).inf = BoundAdd(a.inf, b.inf) /\ ItvAdd(a, b).sup = BoundAdd(a.sup, b.sup)
  BY DEF ItvAdd, Itv
<1> QED BY <1>1, <1>2, AddUp DEF Bounded

LEMMA GoodLinAdd ==
  ASSUME NEW uses, NEW k, NEW l, GoodLin(k, uses), GoodLin(l, uses)
  PROVE  GoodLin(LinAdd(k, l), uses)
<1> DEFINE cst == ItvAdd(k.cst, l.cst)
           Coeff(d) == IF d \notin DOMAIN k.terms THEN l.terms[d]
                       ELSE IF d \notin DOMAIN l.terms THEN k.terms[d]
                       ELSE ItvAdd(k.terms[d], l.terms[d])
           Kept == {d \in DOMAIN k.terms \union DOMAIN l.terms :
                      d \in DOMAIN k.terms \intersect DOMAIN l.terms => Coeff(d) # Itv(Zero, Zero)}
           r == LinAdd(k, l)
<1>0. /\ Proper(k.cst) /\ k.eq \in BOOLEAN /\ DOMAIN k.terms \subseteq uses
      /\ \A d \in DOMAIN k.terms : Proper(k.terms[d]) /\ NonZero(k.terms[d])
      /\ Proper(l.cst) /\ l.eq \in BOOLEAN /\ DOMAIN l.terms \subseteq uses
      /\ \A d \in DOMAIN l.terms : Proper(l.terms[d]) /\ NonZero(l.terms[d])
  BY DEF GoodLin, ProperLin
<1>1. r.cst = cst /\ r.eq = (k.eq /\ l.eq /\ ItvIsPoint(cst))
      /\ r.terms = IF ItvIsTop(cst) THEN << >> ELSE [d \in Kept |-> Coeff(d)]
  BY DEF LinAdd, Lin
<1>2. Proper(cst)
  BY <1>0, AddIsProper
<1>3. r.eq \in BOOLEAN /\ (r.eq => Bounded(r.cst))
  <2> HIDE DEF r, cst
  <2> QED BY <1>1, PointBounded DEF ItvIsPoint
<1>4. \A d \in Kept : Proper(Coeff(d)) /\ NonZero(Coeff(d)) /\ d \in uses
  <2> SUFFICES ASSUME NEW d \in Kept PROVE Proper(Coeff(d)) /\ NonZero(Coeff(d)) /\ d \in uses
    OBVIOUS
  <2>0. d \in DOMAIN k.terms \union DOMAIN l.terms /\ d \in uses
    BY <1>0
  <2>1. CASE d \in DOMAIN k.terms \intersect DOMAIN l.terms
    <3>1. Coeff(d) = ItvAdd(k.terms[d], l.terms[d]) /\ Coeff(d) # Itv(Zero, Zero)
      BY <2>1
    <3> HIDE DEF Coeff
    <3>2. Proper(Coeff(d))
      BY <1>0, <2>1, <3>1, AddIsProper
    <3> QED BY <2>0, <3>1, <3>2, NonZeroIs
  <2>2. CASE d \notin DOMAIN k.terms
    BY <1>0, <2>0, <2>2
  <2>3. CASE d \notin DOMAIN l.terms
    BY <1>0, <2>0, <2>3
  <2> QED BY <2>1, <2>2, <2>3
<1>5. DOMAIN r.terms \subseteq uses /\ \A d \in DOMAIN r.terms : Proper(r.terms[d]) /\ NonZero(r.terms[d])
  <2> HIDE DEF r, cst, Kept, Coeff
  <2>1. CASE ItvIsTop(cst)
    <3>1. DOMAIN r.terms = {}
      BY <1>1, <2>1
    <3> QED BY <3>1
  <2>2. CASE ~ItvIsTop(cst)
    <3>1. r.terms = [d \in Kept |-> Coeff(d)]
      BY <1>1, <2>2
    <3> QED BY <1>4, <3>1
  <2> QED BY <2>1, <2>2
<1> HIDE DEF r, cst
<1> QED BY <1>1, <1>2, <1>3, <1>5 DEF GoodLin, ProperLin, r

-----------------------------------------------------------------------------
(***************************************************************************)
(* Linearisation: every node has a form that is proper, or one that is     *)
(* empty throughout.                                                       *)
(***************************************************************************)
ProperForm(f, uses) == Proper(f.itv) /\ GoodLin(f.lin, uses)
EmptyForm(f) ==
  /\ f.type = "INT" /\ IsItv(f.itv) /\ IsEmptyItv(f.itv)
  /\ IsItv(f.lin.cst) /\ IsEmptyItv(f.lin.cst) /\ f.lin.eq \in BOOLEAN /\ DOMAIN f.lin.terms = {}
FormOK(f, uses) == f.type \in {"INT", "REAL"} /\ (ProperForm(f, uses) \/ EmptyForm(f))

LEMMA FormIs ==
  ASSUME NEW type, NEW lin, NEW itv
  PROVE  Form(type, lin, itv).type = type /\ Form(type, lin, itv).lin = lin /\ Form(type, lin, itv).itv = itv
  BY DEF Form

LEMMA LinCstIs ==
  ASSUME NEW m
  PROVE  LinCst(m).cst = m /\ LinCst(m).eq = ItvIsPoint(m) /\ LinCst(m).eq \in BOOLEAN /\ DOMAIN LinCst(m).terms = {}
  BY DEF LinCst, Lin, ItvIsPoint

LEMMA BottomIsEmpty == IsItv(ItvBottom) /\ IsEmptyItv(ItvBottom)
  BY ItvBottomIs, NonEmptyIs

LEMMA EmptyForms ==
  ASSUME NEW m, IsItv(m), IsEmptyItv(m), NEW uses
  PROVE  FormOK(Form("INT", LinCst(m), m), uses)
<1>1. EmptyForm(Form("INT", LinCst(m), m))
  BY FormIs, LinCstIs DEF EmptyForm
<1> QED BY <1>1, FormIs DEF FormOK

(* The form of a constant.                                                 *)
LEMMA CstForms ==
  ASSUME NEW m, IsItv(m), NEW uses
  PROVE  FormOK(Form("INT", LinCst(m), m), uses)
<1>1. CASE IsEmptyItv(m)
  BY <1>1, EmptyForms
<1>2. CASE ~IsEmptyItv(m)
  <2>1. Proper(m)
    BY <1>2 DEF Proper
  <2>2. GoodLin(LinCst(m), uses)
    BY <2>1, GoodLinCst
  <2> QED BY <2>1, <2>2, FormIs DEF FormOK, ProperForm
<1> QED BY <1>1, <1>2

LEMMA GoodLinSub ==
  ASSUME NEW uses, NEW k, NEW l, GoodLin(k, uses), GoodLin(l, uses)
  PROVE  GoodLin(LinSub(k, l), uses)
  BY GoodLinNeg, GoodLinAdd DEF LinSub

LEMMA ZeroNeg == BoundNeg(Zero) = Zero
<1>1. IsFrac(Zero) /\ IsFrac(BoundNeg(Zero)) /\ Zero[1] = 0 /\ Zero[2] = 1
  BY ZeroIs, FracIs
<1>2. BoundNeg(Zero)[1] = -Zero[1] /\ BoundNeg(Zero)[2] = Zero[2]
  BY DEF BoundNeg
<1>3. \A k, m \in Int : k = 0 /\ m = -k => m = k
  <2>1. \A k, m \in Int : m = -k => k + m = 0
    OBVIOUS
  <2>2. \A k, m \in Int : k = 0 /\ k + m = 0 => m = k
    OBVIOUS
  <2> QED BY <2>1, <2>2
<1>4. BoundNeg(Zero)[1] = Zero[1]
  <2>1. Zero[1] \in Int /\ BoundNeg(Zero)[1] \in Int
    BY <1>1, FracIs
  <2> QED BY <1>1, <1>2, <1>3, <2>1
<1>5. BoundNeg(Zero)[1] * Zero[2] = Zero[1] * BoundNeg(Zero)[2]
  BY <1>1, <1>2, <1>4
<1> QED BY <1>1, <1>5, SameFrac

(* The errors of a conversion.                                             *)
LEMMA ItvHalfIs == Proper(ItvHalf)
<1>1. Gcd[<<1, 2>>] = 1
  <2>1. Gcd[<<1, 2>>] = Gcd[<<2, 1 % 2>>] /\ 1 % 2 = 1
    BY GcdUnfolds
  <2>2. Gcd[<<2, 1>>] = Gcd[<<1, 2 % 1>>] /\ 2 % 1 = 0
    BY GcdUnfolds
  <2>3. Gcd[<<1, 0>>] = 1
    BY GcdUnfolds
  <2> QED BY <2>1, <2>2, <2>3
<1>2. IsFrac(<<1, 2>>)
  <2>1. Abs(1) = 1 /\ Abs(2) = 2 /\ SgnOf(2) = 1 /\ 1 * 1 = 1 /\ 1 \div 1 = 1 /\ 2 \div 1 = 2
    BY DEF Abs, SgnOf
  <2>2. Num(1, 2) = <<1, 2>>
    BY <1>1, <2>1 DEF Num
  <2> QED BY <2>2 DEF IsFrac
<1>3. IsItv(ItvHalf) /\ ItvHalf.inf = <<1, 2>> /\ ItvHalf.sup = <<1, 2>>
  BY <1>2, FracIs, ItvIs DEF ItvHalf
<1>4. AtMost(Zero, <<1, 2>>) /\ BoundNeg(Zero) = Zero
  BY ZeroIs, ZeroNeg DEF AtMost
<1>5. In(Zero, ItvHalf) /\ IsFrac(Zero)
  BY <1>3, <1>4, ZeroIs DEF In
<1> QED BY <1>3, <1>5, NonEmptyIs DEF Proper

LEMMA ErrorsAreProper ==
  ASSUME NEW m \in {0, 1}, NEW n \in {0, 1}
  PROVE  Proper(Itv(IntBound(m), IntBound(n)))
<1>1. IsFrac(IntBound(m)) /\ IsFrac(IntBound(n)) /\ IsBound(IntBound(m)) /\ IsBound(IntBound(n))
  BY IntBoundIs
<1>2. AtMost(Zero, IntBound(m)) /\ AtMost(Zero, IntBound(n)) /\ BoundNeg(Zero) = Zero
  <2>1. \A k \in {0, 1} : k \in Int /\ k >= 0 /\ 0 * 1 <= k * 1
    OBVIOUS
  <2>2. IntBound(m)[1] = m /\ IntBound(n)[1] = n /\ IntBound(m)[2] = 1 /\ IntBound(n)[2] = 1
    BY IntBoundIs
  <2> QED BY <2>1, <2>2, ZeroIs, ZeroNeg DEF AtMost
<1> QED BY <1>1, <1>2, ItvIs, ZeroIs, NonEmptyIs DEF Proper, In

LEMMA LinToIntIs ==
  ASSUME NEW uses, NEW l, GoodLin(l, uses), NEW i, NEW dir \in Directions
  PROVE  GoodLin(LinToInt(l, i, dir), uses)
<1>0. Proper(l.cst) /\ DOMAIN l.terms \subseteq uses
      /\ \A d \in DOMAIN l.terms : Proper(l.terms[d]) /\ NonZero(l.terms[d])
  BY DEF GoodLin, ProperLin
<1>1. ASSUME NEW e, Proper(e)
      PROVE  GoodLin(Lin(ItvAdd(l.cst, e), FALSE, l.terms), uses)
  <2> DEFINE r == Lin(ItvAdd(l.cst, e), FALSE, l.terms)
  <2>1. r.cst = ItvAdd(l.cst, e) /\ r.eq = FALSE /\ r.terms = l.terms
    BY DEF Lin
  <2>2. Proper(ItvAdd(l.cst, e))
    BY <1>0, <1>1, AddIsProper
  <2> HIDE DEF r
  <2>3. GoodLin(r, uses)
    BY <1>0, <2>1, <2>2 DEF GoodLin, ProperLin
  <2> QED BY <2>3 DEF r
<1>2. \E e : Proper(e) /\ LinToInt(l, i, dir) = Lin(ItvAdd(l.cst, e), FALSE, l.terms)
  <2>1. CASE dir = "UP"
    BY <2>1, ErrorsAreProper DEF LinToInt
  <2>2. CASE dir = "DOWN"
    BY <2>2, ErrorsAreProper DEF LinToInt
  <2>3. CASE dir = "RND"
    BY <2>3, ErrorsAreProper DEF LinToInt
  <2>4. CASE dir = "NEAREST"
    BY <2>4, ItvHalfIs DEF LinToInt
  <2>5. CASE dir = "ZERO"
    <3> DEFINE down == IF BoundSgn(i.sup) > 0 THEN 1 ELSE 0
               up == IF BoundSgn(i.inf) > 0 THEN 1 ELSE 0
    <3>1. down \in {0, 1} /\ up \in {0, 1}
      OBVIOUS
    <3>2. LinToInt(l, i, dir) = Lin(ItvAdd(l.cst, Itv(IntBound(down), IntBound(up))), FALSE, l.terms)
      BY <2>5 DEF LinToInt
    <3> HIDE DEF down, up
    <3> QED BY <3>1, <3>2, ErrorsAreProper
  <2> QED BY <2>1, <2>2, <2>3, <2>4, <2>5 DEF Directions
<1> QED BY <1>1, <1>2

(* The environment of a linearisation.                                     *)
LEMMA EvalLinIsProper ==
  ASSUME NEW uses, uses \subseteq Nat, IsFiniteSet(uses), NEW l, ProperLin(l, uses), NEW env, ProperEnv(env, uses)
  PROVE  Proper(EvalLin(l, env))
<1> DEFINE dims == Ascending(DOMAIN l.terms)
<1>1. Len(dims) \in Nat
  BY FS_Subset, AscendingIs DEF ProperLin
<1>2. PICK sum \in [0 .. Len(dims) -> Itvs] : EvalLin(l, env) = sum[Len(dims)]
  BY EvalLinIs
<1> HIDE DEF dims
<1> QED BY <1>1, <1>2, ItvsAre

LEMMA ReduceFormIs ==
  ASSUME NEW uses, uses \subseteq Nat, IsFiniteSet(uses), NEW env, ProperEnv(env, uses),
         NEW l, NEW i, ProperForm(Form("INT", l, i), uses) \/ EmptyForm(Form("INT", l, i))
  PROVE  FormOK(Form("INT", ReduceForm(l, i, env)[1], ReduceForm(l, i, env)[2]), uses)
<1> DEFINE m == ItvMeet(i, EvalLin(l, env))
<1>0. ReduceForm(l, i, env) = IF IsEmptyItv(m) \/ IsEmptyItv(l.cst) THEN <<LinBottom, ItvBottom>>
                              ELSE IF IsCst(l) THEN <<LinCst(m), m>> ELSE <<l, m>>
  BY DEF ReduceForm
<1> HIDE DEF m
<1>1. CASE IsEmptyItv(m) \/ IsEmptyItv(l.cst)
  <2>1. ReduceForm(l, i, env) = <<LinCst(ItvBottom), ItvBottom>>
    BY <1>0, <1>1 DEF LinBottom
  <2>2. FormOK(Form("INT", LinCst(ItvBottom), ItvBottom), uses)
    BY BottomIsEmpty, EmptyForms
  <2> QED BY <2>1, <2>2
<1>2. CASE ~IsEmptyItv(m) /\ ~IsEmptyItv(l.cst)
  <2>1. Proper(i) /\ GoodLin(l, uses)
    BY <1>2, FormIs DEF ProperForm, EmptyForm
  <2>2. Proper(EvalLin(l, env))
    BY <2>1, EvalLinIsProper DEF GoodLin
  <2>3. Proper(m)
    BY <1>2, <2>1, <2>2, ItvLattice DEF Proper, m
  <2>4. CASE IsCst(l)
    <3>1. ReduceForm(l, i, env) = <<LinCst(m), m>>
      BY <1>0, <1>2, <2>4
    <3>2. FormOK(Form("INT", LinCst(m), m), uses)
      BY <2>3, CstForms DEF Proper
    <3> QED BY <3>1, <3>2
  <2>5. CASE ~IsCst(l)
    <3>1. ReduceForm(l, i, env) = <<l, m>>
      BY <1>0, <1>2, <2>5
    <3>2. FormOK(Form("INT", l, m), uses)
      BY <2>1, <2>3, FormIs DEF FormOK, ProperForm
    <3> QED BY <3>1, <3>2
  <2> QED BY <2>4, <2>5
<1> QED BY <1>1, <1>2

(* What is left of an exact form after rounding and reduction.             *)
LEMMA RoundedFormIs ==
  ASSUME NEW uses, uses \subseteq Nat, IsFiniteSet(uses), NEW env, ProperEnv(env, uses),
         NEW n, n.type = "INT", n.dir \in Directions, NEW l, NEW i, NEW org \in {"INT", "REAL"},
         ProperForm(Form(org, l, i), uses) \/ EmptyForm(Form(org, l, i))
  PROVE  FormOK(RoundedForm(n, l, i, org, env), uses)
<1> DEFINE r == RoundForm(l, i, org, n)
<1>1. RoundedForm(n, l, i, org, env) = Form("INT", ReduceForm(r[1], r[2], env)[1], ReduceForm(r[1], r[2], env)[2])
  BY DEF RoundedForm
<1>2. CASE org = "INT"
  <2>1. r = <<l, i>>
    BY <1>2 DEF RoundForm
  <2>2. r[1] = l /\ r[2] = i
    BY <2>1
  <2> HIDE DEF r
  <2> QED BY <1>1, <1>2, <2>2, ReduceFormIs
<1>3. CASE org = "REAL"
  <2>1. r = <<LinToInt(l, i, n.dir), Round(i, "INT", n.dir)>>
    BY <1>3 DEF RoundForm
  <2>2. r[1] = LinToInt(l, i, n.dir) /\ r[2] = Round(i, "INT", n.dir)
    BY <2>1
  <2>3. Proper(i) /\ GoodLin(l, uses)
    BY <1>3, FormIs DEF ProperForm, EmptyForm
  <2> HIDE DEF r
  <2>4. Proper(r[2]) /\ GoodLin(r[1], uses)
    BY <2>2, <2>3, LinToIntIs, RoundIsProper DEF Proper
  <2>5. ProperForm(Form("INT", r[1], r[2]), uses)
    BY <2>4, FormIs DEF ProperForm
  <2> QED BY <1>1, <2>5, ReduceFormIs
<1> QED BY <1>2, <1>3

-----------------------------------------------------------------------------
LEMMA LinearizeNodeIs ==
  ASSUME NEW uses, uses \subseteq Nat, IsFiniteSet(uses), NEW env, ProperEnv(env, uses),
         NEW n, IsOperator(n), n.op # "DIV", NEW x, NEW y, FormOK(x, uses), FormOK(y, uses)
  PROVE  FormOK(LinearizeNode(n, x, y, env), uses)
<1> DEFINE Empty == IsEmptyItv(x.itv) \/ IsEmptyItv(y.itv)
           r == LinearizeNode(n, x, y, env)
<1>0. /\ n.op \in {"NEG", "CAST", "ADD", "SUB", "MUL", "MOD"} /\ n.type = "INT" /\ n.dir \in Directions
      /\ x.type \in {"INT", "REAL"} /\ IsItv(x.itv) /\ (~IsEmptyItv(x.itv) => ProperForm(x, uses))
      /\ y.type \in {"INT", "REAL"} /\ IsItv(y.itv) /\ (~IsEmptyItv(y.itv) => ProperForm(y, uses))
      /\ (IsEmptyItv(x.itv) => EmptyForm(x))
  BY DEF IsOperator, Operators, Unary, Binary, FormOK, ProperForm, EmptyForm, Proper
<1>1. CASE n.op = "NEG"
  <2>1. r = Form(x.type, LinNeg(x.lin), ItvNeg(x.itv))
    BY <1>1 DEF LinearizeNode, Binary
  <2>2. CASE IsEmptyItv(x.itv)
    <3>1. EmptyForm(x)
      BY <1>0, <2>2
    <3>2. \A a : IsItv(a) /\ IsEmptyItv(a) => IsItv(ItvNeg(a)) /\ IsEmptyItv(ItvNeg(a))
      <4> SUFFICES ASSUME NEW a, IsItv(a), IsEmptyItv(a) PROVE IsItv(ItvNeg(a)) /\ IsEmptyItv(ItvNeg(a))
        OBVIOUS
      <4>1. IsItv(ItvNeg(a)) /\ ItvNeg(a).inf = a.sup /\ ItvNeg(a).sup = a.inf
        BY ItvSides DEF ItvNeg
      <4>2. ASSUME ~IsEmptyItv(ItvNeg(a)) PROVE FALSE
        <5>1. Proper(ItvNeg(a))
          BY <4>1, <4>2 DEF Proper
        <5>2. Proper(ItvNeg(ItvNeg(a)))
          BY <5>1, AddIsProper
        <5>3. ItvNeg(ItvNeg(a)) = a
          BY <4>1 DEF ItvNeg, Swap, IsItv
        <5> QED BY <5>2, <5>3 DEF Proper
      <4> QED BY <4>1, <4>2
    <3>3. /\ LinNeg(x.lin).cst = ItvNeg(x.lin.cst) /\ LinNeg(x.lin).eq = x.lin.eq
          /\ DOMAIN LinNeg(x.lin).terms = DOMAIN x.lin.terms
      BY DEF LinNeg, Lin
    <3>4. EmptyForm(r)
      BY <2>1, <3>1, <3>2, <3>3, FormIs DEF EmptyForm
    <3> QED BY <1>0, <2>1, <3>4, FormIs DEF FormOK
  <2>3. CASE ~IsEmptyItv(x.itv)
    <3>1. Proper(x.itv) /\ GoodLin(x.lin, uses)
      BY <1>0, <2>3 DEF ProperForm
    <3>2. Proper(ItvNeg(x.itv)) /\ GoodLin(LinNeg(x.lin), uses)
      BY <3>1, AddIsProper, GoodLinNeg
    <3> QED BY <1>0, <2>1, <3>2, FormIs DEF FormOK, ProperForm
  <2> QED BY <2>2, <2>3
<1>2. CASE n.op \in {"ADD", "SUB", "MUL", "MOD"} /\ Empty
  <2>1. n.op \in Binary /\ n.op # "NEG" /\ ~(n.op = "MOD" /\ ~IsEmptyItv(x.itv) /\ ~IsEmptyItv(y.itv))
    BY <1>2 DEF Binary
  <2>2. r = Form("INT", LinCst(ItvBottom), ItvBottom)
    BY <1>0, <1>2, <2>1 DEF LinearizeNode, LinBottom
  <2> QED BY <2>2, BottomIsEmpty, EmptyForms
<1>3. CASE n.op = "MOD" /\ ~Empty
  <2>1. n.op # "NEG"
    BY <1>3
  <2>2. r = Form("INT", LinCst(ItvMod(x.itv, y.itv, TRUE)), ItvMod(x.itv, y.itv, TRUE))
    BY <1>0, <1>3, <2>1 DEF LinearizeNode
  <2>3. IsItv(ItvMod(x.itv, y.itv, TRUE))
    <3>1. PICK p, q : IsFrac(p) /\ IsFrac(q) /\ In(p, x.itv) /\ In(q, y.itv)
      BY <1>0, <1>3, SomeFrac
    <3> QED BY <1>0, <3>1, ItvModIs
  <2> QED BY <2>2, <2>3, CstForms
<1>4. CASE n.op = "CAST"
  <2>1. r = RoundedForm(n, x.lin, x.itv, x.type, env)
    BY <1>4 DEF LinearizeNode, Binary
  <2>2. ProperForm(Form(x.type, x.lin, x.itv), uses) \/ EmptyForm(Form(x.type, x.lin, x.itv))
    BY <1>0, FormIs DEF ProperForm, EmptyForm
  <2> QED BY <1>0, <2>1, <2>2, RoundedFormIs
<1>5. CASE n.op \in {"ADD", "SUB", "MUL"} /\ ~Empty
  <2>0. n.op \in Binary /\ n.op \notin {"NEG", "CAST", "MOD", "DIV"}
    BY <1>5 DEF Binary
  <2>1. Proper(x.itv) /\ GoodLin(x.lin, uses) /\ Proper(y.itv) /\ GoodLin(y.lin, uses)
    BY <1>0, <1>5 DEF ProperForm
  <2>2. BothInt(x, y) \in {"INT", "REAL"}
    BY DEF BothInt
  <2>3. CASE n.op = "ADD"
    <3>1. r = RoundedForm(n, LinAdd(x.lin, y.lin), ItvAdd(x.itv, y.itv), BothInt(x, y), env)
      BY <1>5, <2>3, <2>0 DEF LinearizeNode
    <3>2. ProperForm(Form(BothInt(x, y), LinAdd(x.lin, y.lin), ItvAdd(x.itv, y.itv)), uses)
      BY <2>1, GoodLinAdd, AddIsProper, FormIs DEF ProperForm
    <3> QED BY <1>0, <2>2, <3>1, <3>2, RoundedFormIs
  <2>4. CASE n.op = "SUB"
    <3>1. r = RoundedForm(n, LinSub(x.lin, y.lin), ItvSub(x.itv, y.itv), BothInt(x, y), env)
      BY <1>5, <2>4, <2>0 DEF LinearizeNode
    <3>2. ProperForm(Form(BothInt(x, y), LinSub(x.lin, y.lin), ItvSub(x.itv, y.itv)), uses)
      BY <2>1, GoodLinSub, AddIsProper, FormIs DEF ProperForm
    <3> QED BY <1>0, <2>2, <3>1, <3>2, RoundedFormIs
  <2>5. CASE n.op = "MUL"
    <3> DEFINE k == LinScale((IF KeepFirst(x, y) THEN y ELSE x).lin, (IF KeepFirst(x, y) THEN x ELSE y).itv)
    <3>1. r = RoundedForm(n, k, ItvMul(x.itv, y.itv), BothInt(x, y), env)
      BY <1>5, <2>5, <2>0 DEF LinearizeNode
    <3>2. GoodLin(k, uses)
      <4>1. CASE KeepFirst(x, y)
        <5>1. k = LinScale(y.lin, x.itv)
          BY <4>1
        <5> QED BY <2>1, <5>1, GoodLinScale
      <4>2. CASE ~KeepFirst(x, y)
        <5>1. k = LinScale(x.lin, y.itv)
          BY <4>2
        <5> QED BY <2>1, <5>1, GoodLinScale
      <4> QED BY <4>1, <4>2
    <3> HIDE DEF k
    <3>3. ProperForm(Form(BothInt(x, y), k, ItvMul(x.itv, y.itv)), uses)
      BY <2>1, <3>2, AddIsProper, FormIs DEF ProperForm
    <3> QED BY <1>0, <2>2, <3>1, <3>3, RoundedFormIs
  <2> QED BY <1>5, <2>3, <2>4, <2>5
<1>6. n.op = "NEG" \/ n.op = "CAST" \/ n.op \in {"ADD", "SUB", "MUL"} \/ n.op = "MOD"
  BY <1>0
<1>7. n.op \in {"ADD", "SUB", "MUL"} \/ n.op = "MOD" => n.op \in {"ADD", "SUB", "MUL", "MOD"}
  OBVIOUS
<1> HIDE DEF Empty
<1> QED BY <1>1, <1>2, <1>3, <1>4, <1>5, <1>6, <1>7

(* The form of a node, from those of its operands.                         *)
NodeForm(n, env, intdim, x, y) ==
  CASE n.op = "CST" -> Form(IF ItvIsInt(n.itv) THEN "INT" ELSE "REAL", LinCst(n.itv), n.itv)
    [] n.op = "DIM" -> Form(IF n.dim < intdim THEN "INT" ELSE "REAL", LinDim(n.dim), env[n.dim])
    [] OTHER -> LinearizeNode(n, x, y, env)

LEMMA NodeFormIs ==
  ASSUME NEW uses, uses \subseteq Nat, IsFiniteSet(uses), NEW env, ProperEnv(env, uses), NEW intdim,
         NEW i \in Nat, NEW n, IsNode(n, i, uses), n.op # "DIV", NEW x, NEW y,
         IsLeaf(n) \/ (FormOK(x, uses) /\ FormOK(y, uses))
  PROVE  FormOK(NodeForm(n, env, intdim, x, y), uses)
<1>1. CASE n.op = "CST"
  <2> DEFINE type == IF ItvIsInt(n.itv) THEN "INT" ELSE "REAL"
  <2>1. NodeForm(n, env, intdim, x, y) = Form(type, LinCst(n.itv), n.itv) /\ type \in {"INT", "REAL"}
    BY <1>1 DEF NodeForm
  <2>2. Proper(n.itv)
    BY <1>1, NodeKinds DEF Proper
  <2> HIDE DEF type
  <2> QED BY <2>1, <2>2, GoodLinCst, FormIs DEF FormOK, ProperForm
<1>2. CASE n.op = "DIM"
  <2> DEFINE type == IF n.dim < intdim THEN "INT" ELSE "REAL"
  <2>1. NodeForm(n, env, intdim, x, y) = Form(type, LinDim(n.dim), env[n.dim]) /\ type \in {"INT", "REAL"}
    BY <1>2 DEF NodeForm
  <2>2. n.dim \in uses
    BY <1>2, NodeKinds
  <2>3. Proper(env[n.dim])
    BY <2>2 DEF ProperEnv, Proper
  <2> HIDE DEF type
  <2> QED BY <2>1, <2>2, <2>3, GoodLinDim, FormIs DEF FormOK, ProperForm
<1>3. CASE ~IsLeaf(n)
  <2>1. IsOperator(n)
    BY <1>3, NodeKinds DEF IsOperator
  <2>2. NodeForm(n, env, intdim, x, y) = LinearizeNode(n, x, y, env)
    BY <1>3 DEF NodeForm, IsLeaf
  <2> QED BY <1>3, <2>1, <2>2, LinearizeNodeIs
<1> QED BY <1>1, <1>2, <1>3 DEF IsLeaf

LEMMA LinearizeIs ==
  ASSUME NEW uses, uses \subseteq Nat, IsFiniteSet(uses), NEW env, ProperEnv(env, uses), NEW intdim,
         NEW expr, IsTexpr(expr, uses), \A i \in DOMAIN expr : expr[i].op # "DIV"
  PROVE  FormOK(Linearize(expr, env, intdim), uses)
<1> DEFINE N == Len(expr)
           E(i, g) == NodeForm(expr[i], env, intdim, g[expr[i].a], g[expr[i].b])
           F(g) == [i \in DOMAIN expr |->
                      CASE expr[i].op = "CST" -> Form(IF ItvIsInt(expr[i].itv) THEN "INT" ELSE "REAL", LinCst(expr[i].itv), expr[i].itv)
                        [] expr[i].op = "DIM" -> Form(IF expr[i].dim < intdim THEN "INT" ELSE "REAL", LinDim(expr[i].dim), env[expr[i].dim])
                        [] OTHER -> LinearizeNode(expr[i], g[expr[i].a], g[expr[i].b], env)]
           form == CHOOSE g : g = F(g)
           P(m, g) == g = [i \in 1 .. m |-> g[i]] /\ \A i \in 1 .. m : g[i] = E(i, g)
           S == {m \in 0 .. N : \E g : P(m, g)}
           T == {i \in 1 .. N : FormOK(form[i], uses)}
<1>0. N \in Nat /\ N # 0 /\ DOMAIN expr = 1 .. N /\ N \in 1 .. N
  BY Nodes
<1>1. Linearize(expr, env, intdim) = form[N]
  BY DEF Linearize
<1>2. \A g : F(g) = [i \in 1 .. N |-> F(g)[i]]
  BY <1>0
<1>3. \A g : \A i \in 1 .. N : F(g)[i] = E(i, g)
  BY <1>0 DEF NodeForm
<1>4. ASSUME NEW k \in 1 .. N, NEW g, NEW h, \A j \in 1 .. k - 1 : g[j] = h[j]
      PROVE  E(k, g) = E(k, h)
  <2>1. CASE IsLeaf(expr[k])
    BY <2>1 DEF NodeForm, IsLeaf
  <2>2. CASE ~IsLeaf(expr[k])
    <3>1. expr[k].a \in 1 .. k - 1 /\ expr[k].b \in 1 .. k - 1
      BY <2>2, Nodes
    <3>2. g[expr[k].a] = h[expr[k].a] /\ g[expr[k].b] = h[expr[k].b]
      BY <3>1, <1>4
    <3> QED BY <3>2
  <2> QED BY <2>1, <2>2
<1>10. ASSUME NEW i \in 1 .. N, NEW g, IsLeaf(expr[i]) \/ (FormOK(g[expr[i].a], uses) /\ FormOK(g[expr[i].b], uses))
       PROVE  FormOK(E(i, g), uses)
  <2>1. IsNode(expr[i], i, uses) /\ i \in Nat /\ expr[i].op # "DIV"
    BY <1>0, Nodes
  <2> QED BY <1>10, <2>1, NodeFormIs
<1> HIDE DEF E, F, N
<1>5. 0 \in S
  <2> DEFINE g == [i \in 1 .. 0 |-> 0]
  <2>1. P(0, g)
    OBVIOUS
  <2> HIDE DEF P
  <2> QED BY <1>0, <2>1
<1>6. ASSUME NEW m \in 0 .. N - 1, m \in S
      PROVE  m + 1 \in S
  <2>1. PICK g : P(m, g)
    BY <1>6
  <2> DEFINE h == [i \in 1 .. m + 1 |-> IF i = m + 1 THEN E(m + 1, g) ELSE g[i]]
  <2>2. m \in Nat /\ m + 1 \in 0 .. N /\ m + 1 \in 1 .. N
    BY <1>0
  <2>3. h = [i \in 1 .. m + 1 |-> h[i]] /\ \A i \in 1 .. m + 1 : h[i] = IF i = m + 1 THEN E(m + 1, g) ELSE g[i]
    OBVIOUS
  <2> HIDE DEF h
  <2>4. ASSUME NEW i \in 1 .. m + 1
        PROVE  h[i] = E(i, h)
    <3>1. i \in 1 .. N /\ \A j \in 1 .. i - 1 : j \in 1 .. m + 1 /\ j # m + 1
      BY <2>2, <1>0
    <3>2. E(i, g) = E(i, h)
      BY <1>4, <3>1, <2>3
    <3>3. CASE i = m + 1
      BY <2>3, <3>2, <3>3
    <3>4. CASE i # m + 1
      <4>1. i \in 1 .. m
        BY <3>4, <2>2
      <4> QED BY <4>1, <3>4, <3>2, <2>1, <2>3
    <3> QED BY <3>3, <3>4
  <2>5. P(m + 1, h)
    BY <2>3, <2>4
  <2> HIDE DEF P
  <2> QED BY <2>2, <2>5
<1>7. PICK g : P(N, g)
  <2> HIDE DEF P
  <2>1. 0 .. N \subseteq S
    <3> HIDE DEF S
    <3> QED BY <1>0, <1>5, <1>6, UpTo
  <2>2. N \in 0 .. N
    BY <1>0
  <2> QED BY <2>1, <2>2
<1>9. g = F(g)
  <2>1. \A i \in 1 .. N : g[i] = F(g)[i]
    BY <1>3, <1>7
  <2> QED BY <1>2, <1>7, <2>1
<1>8. form = F(form)
  BY <1>9
<1> HIDE DEF form
<1>11. \A i \in 1 .. N : form[i] = E(i, form)
  BY <1>3, <1>8
<1>12. ASSUME NEW i \in 1 .. N, \A j \in 1 .. i - 1 : j \in T
       PROVE  i \in T
  <2>1. IsLeaf(expr[i]) \/ (expr[i].a \in 1 .. i - 1 /\ expr[i].b \in 1 .. i - 1)
    BY Nodes DEF N
  <2>2. IsLeaf(expr[i]) \/ (FormOK(form[expr[i].a], uses) /\ FormOK(form[expr[i].b], uses))
    BY <1>12, <2>1
  <2> QED BY <1>10, <1>11, <2>2
<1>13. 1 .. N \subseteq T
  <2> HIDE DEF T
  <2> QED BY <1>0, <1>12, InCourse
<1> QED BY <1>0, <1>1, <1>13

-----------------------------------------------------------------------------
(***************************************************************************)
(* Constraints.                                                            *)
(***************************************************************************)
(* A constraint that can be reduced, and one that can be turned into       *)
(* bounds.                                                                 *)
ProperCons(c, uses) == c.typ \in Types /\ ProperLin(c.lin, uses)
ReadyCons(c, uses) ==
  /\ ProperCons(c, uses)
  /\ c.lin.eq /\ DOMAIN c.lin.terms # {} /\ (\A d \in DOMAIN c.lin.terms : Bounded(c.lin.terms[d])) =>
       Bounded(c.lin.cst)

LEMMA LinconsIs ==
  ASSUME NEW typ, NEW lin
  PROVE  Lincons(typ, lin).typ = typ /\ Lincons(typ, lin).lin = lin
  BY DEF Lincons

LEMMA LinIs ==
  ASSUME NEW cst, NEW eq, NEW terms
  PROVE  Lin(cst, eq, terms).cst = cst /\ Lin(cst, eq, terms).eq = eq /\ Lin(cst, eq, terms).terms = terms
  BY DEF Lin

LEMMA FalseConsIs ==
  ASSUME NEW uses
  PROVE  ReadyCons(FalseCons, uses)
<1>1. FalseCons.typ = "EQ" /\ FalseCons.lin = LinCst(ItvInt(1))
  BY LinconsIs DEF FalseCons
<1>2. Proper(ItvInt(1))
  BY ItvIntIs
<1>3. GoodLin(LinCst(ItvInt(1)), uses)
  BY <1>2, GoodLinCst
<1>4. DOMAIN LinCst(ItvInt(1)).terms = {}
  BY LinCstIs
<1> QED BY <1>1, <1>3, <1>4 DEF ReadyCons, ProperCons, GoodLin, Types

(* Sequences of constraints.                                               *)
LEMMA SequenceIs ==
  ASSUME NEW q, NEW n \in Nat, DOMAIN q = 1 .. n
  PROVE  IsSequence(q) /\ Len(q) = n
<1>1. Len(q) = n
  OBVIOUS
<1> QED BY <1>1 DEF IsSequence

LEMMA OneConsIs ==
  ASSUME NEW uses
  PROVE  IsSequence(<<FalseCons>>) /\ \A k \in DOMAIN <<FalseCons>> : ReadyCons(<<FalseCons>>[k], uses)
<1>1. DOMAIN <<FalseCons>> = 1 .. 1 /\ \A k \in 1 .. 1 : <<FalseCons>>[k] = FalseCons
  OBVIOUS
<1> QED BY <1>1, FalseConsIs, SequenceIs

LEMMA LinearizeArrayIs ==
  ASSUME NEW uses, uses \subseteq Nat, IsFiniteSet(uses), NEW env, ProperEnv(env, uses), NEW intdim,
         NEW tcons, IsSequence(tcons), \A k \in DOMAIN tcons : IsTcons(tcons[k], uses)
  PROVE  LET cons == LinearizeArray(tcons, env, intdim)
         IN IsSequence(cons) /\ \A k \in DOMAIN cons : ReadyCons(cons[k], uses)
<1> DEFINE form == [i \in DOMAIN tcons |-> Linearize(tcons[i].expr, env, intdim)]
           within(typ, itv) == CASE typ = "EQ" -> ItvMeet(itv, ItvInt(0))
                            [] typ \in {"SUPEQ", "SUP"} -> ItvMeet(itv, NonNegative)
                            [] OTHER -> itv
           unsat(typ, f) == \/ IsEmptyItv(within(typ, f.itv))
                            \/ IsEmptyItv(f.lin.cst)
                            \/ IsFalseCst(Lincons(typ, f.lin))
           cons == LinearizeArray(tcons, env, intdim)
<1>1. cons = IF \E i \in DOMAIN tcons : unsat(tcons[i].typ, form[i]) THEN <<FalseCons>>
             ELSE [i \in DOMAIN tcons |-> Lincons(tcons[i].typ, form[i].lin)]
  BY DEF LinearizeArray
<1>2. ASSUME NEW i \in DOMAIN tcons
      PROVE  FormOK(form[i], uses) /\ tcons[i].typ \in Types
  <2>1. IsTcons(tcons[i], uses) /\ form[i] = Linearize(tcons[i].expr, env, intdim)
    OBVIOUS
  <2> QED BY <2>1, LinearizeIs DEF IsTcons
<1>3. \A i \in DOMAIN tcons : ~unsat(tcons[i].typ, form[i]) => ~IsEmptyItv(form[i].lin.cst)
  OBVIOUS
<1> HIDE DEF unsat, form, cons
<1>4. CASE \E i \in DOMAIN tcons : unsat(tcons[i].typ, form[i])
  <2>1. cons = <<FalseCons>>
    BY <1>1, <1>4
  <2> QED BY <2>1, OneConsIs DEF cons
<1>5. CASE ~\E i \in DOMAIN tcons : unsat(tcons[i].typ, form[i])
  <2>1. cons = [i \in DOMAIN tcons |-> Lincons(tcons[i].typ, form[i].lin)]
    BY <1>1, <1>5
  <2>2. ASSUME NEW i \in DOMAIN cons
        PROVE  ReadyCons(cons[i], uses)
    <3>1. i \in DOMAIN tcons /\ cons[i] = Lincons(tcons[i].typ, form[i].lin)
      BY <2>1
    <3>2. GoodLin(form[i].lin, uses)
      BY <1>2, <1>3, <1>5, <3>1 DEF FormOK, ProperForm, EmptyForm
    <3> QED BY <1>2, <3>1, <3>2, LinconsIs DEF ReadyCons, ProperCons, GoodLin
  <2>3. Len(tcons) \in Nat /\ DOMAIN cons = 1 .. Len(tcons)
    BY <2>1 DEF IsSequence
  <2> QED BY <2>2, <2>3, SequenceIs DEF cons
<1> QED BY <1>4, <1>5

-----------------------------------------------------------------------------
LEMMA ScaleIsProper ==
  ASSUME NEW b, Proper(b), NEW c, IsFrac(c)
  PROVE  Proper(ItvMulBound(b, c)) /\ (Bounded(b) => Bounded(ItvMulBound(b, c)))
<1>1. PICK q : IsFrac(q) /\ In(q, b)
  BY SomeFrac DEF Proper
<1>2. IsItv(b)
  BY DEF Proper
<1>3. IsItv(ItvMulBound(b, c)) /\ In(FracMul(q, c), ItvMulBound(b, c)) /\ IsFrac(FracMul(q, c))
  BY <1>1, <1>2, ItvMulBoundIs, FracOps
<1>4. Bounded(b) => Bounded(ItvMulBound(b, c))
  BY <1>2, ItvMulBoundIs DEF Bounded
<1> QED BY <1>3, <1>4, NonEmptyIs DEF Proper

LEMMA TightenedIs ==
  ASSUME NEW typ, NEW b, IsFrac(b)
  PROVE  IsFrac(Tightened(typ, b)) /\ Integral(Tightened(typ, b))
<1>1. IsBound(BoundFloor(b)) /\ Integral(BoundFloor(b)) /\ ~IsInfty(BoundFloor(b))
  <2>1. IsBound(b) /\ BoundFloor(b) = IntBound(b[1] \div b[2])
    BY FracIs DEF BoundFloor
  <2>2. ~IsInfty(BoundFloor(b))
    BY <2>1 DEF IntBound, IsInfty
  <2> QED BY <2>1, <2>2, RoundBound
<1>2. IsFrac(BoundFloor(b))
  BY <1>1, BoundKinds
<1>3. CASE typ = "SUP" /\ BoundFloor(b) = b
  <2>1. IsBound(b) /\ IsBound(IntBound(-1)) /\ ~IsInfty(b) /\ ~IsInfty(IntBound(-1))
    BY IntBoundIs, FracIs
  <2>2. IsBound(BoundAdd(b, IntBound(-1))) /\ ~IsInfty(BoundAdd(b, IntBound(-1)))
    BY <2>1, AddUp
  <2>3. WholeBound(b) /\ WholeBound(IntBound(-1))
    BY <1>1, <1>3, <2>1, WholeBoundIs
  <2>4. Integral(BoundAdd(b, IntBound(-1)))
    BY <2>3, WholeBounds, WholeBoundIs
  <2>5. Tightened(typ, b) = BoundAdd(b, IntBound(-1))
    BY <1>3 DEF Tightened
  <2> QED BY <2>2, <2>4, <2>5, BoundKinds
<1>4. CASE ~(typ = "SUP" /\ BoundFloor(b) = b)
  <2>1. Tightened(typ, b) = BoundFloor(b)
    BY <1>4 DEF Tightened
  <2> QED BY <1>1, <1>2, <2>1
<1> QED BY <1>3, <1>4

LEMMA LcmIs ==
  ASSUME NEW m \in Nat, NEW n \in Nat, m > 0, n > 0
  PROVE  Lcm(m, n) \in Nat /\ Lcm(m, n) > 0
<1> DEFINE g == Gcd[<<m, n>>]
<1>1. g \in Nat /\ g > 0 /\ Divides(g, m)
  BY GcdDivides
<1> HIDE DEF g
<1>2. PICK k \in Int : m = k * g
  BY <1>1 DEF Divides
<1>3. k > 0
  BY <1>1, <1>2
<1>4. m * n = (k * n) * g /\ k * n \in Int /\ k * n > 0
  BY <1>1, <1>2, <1>3
<1>5. (m * n) \div g = k * n
  BY <1>1, <1>4, ExactQuotient
<1> QED BY <1>4, <1>5 DEF Lcm, g

LEMMA GcdIsNat ==
  ASSUME NEW m \in Nat, NEW n \in Nat
  PROVE  Gcd[<<m, n>>] \in Nat
<1>1. CASE m > 0 \/ n > 0
  BY <1>1, GcdDivides
<1>2. CASE ~(m > 0 \/ n > 0)
  <2>1. m = 0 /\ n = 0
    BY <1>2
  <2> QED BY <2>1, GcdUnfolds
<1> QED BY <1>1, <1>2

-----------------------------------------------------------------------------
FactorStep(itv, f) == [lcm |-> Lcm(f.lcm, itv.sup[2]), gcd |-> Gcd[<<f.gcd, Abs(itv.sup[1])>>]]

LEMMA CommonFactorIs ==
  ASSUME NEW terms, DOMAIN terms \in SUBSET Int, IsFiniteSet(DOMAIN terms),
         \A d \in DOMAIN terms : Proper(terms[d]) /\ ItvIsPoint(terms[d])
  PROVE  /\ CommonFactor(terms).lcm \in Nat /\ CommonFactor(terms).lcm > 0 /\ CommonFactor(terms).gcd \in Nat
         /\ DOMAIN terms = {} => CommonFactor(terms).gcd = 0
         /\ LET dims == Ascending(DOMAIN terms)
            IN \E fold : /\ fold[0] = [lcm |-> 1, gcd |-> 0]
                         /\ \A k \in 1 .. Len(dims) : fold[k] = FactorStep(terms[dims[k]], fold[k - 1])
                         /\ CommonFactor(terms) = fold[Len(dims)]
<1> DEFINE dims == Ascending(DOMAIN terms)
           n == Len(dims)
           R == [lcm : Nat \ {0}, gcd : Nat]
           a == [lcm |-> 1, gcd |-> 0]
           St(k, x) == [lcm |-> Lcm(x.lcm, terms[dims[k]].sup[2]), gcd |-> Gcd[<<x.gcd, Abs(terms[dims[k]].sup[1])>>]]
           st == [k \in 1 .. n |-> [x \in R |-> St(k, x)]]
           F(g) == [k \in 0 .. n |-> IF k = 0 THEN [lcm |-> 1, gcd |-> 0]
                      ELSE [lcm |-> Lcm(g[k - 1].lcm, terms[dims[k]].sup[2]),
                            gcd |-> Gcd[<<g[k - 1].gcd, Abs(terms[dims[k]].sup[1])>>]]]
           fold == CHOOSE g : g = F(g)
           T == {k \in 0 .. n : fold[k] \in R}
<1>1. n \in Nat /\ (\A k \in 1 .. n : dims[k] \in DOMAIN terms) /\ (DOMAIN terms = {} => n = 0)
  BY AscendingIs, FS_EmptySet
<1>2. a \in R
  OBVIOUS
<1>3. ASSUME NEW k \in 1 .. n, NEW x \in R
      PROVE  St(k, x) \in R
  <2>1. IsItv(terms[dims[k]]) /\ ItvIsPoint(terms[dims[k]])
    BY <1>1 DEF Proper
  <2> DEFINE b == terms[dims[k]].sup
  <2>2. IsFrac(b)
    BY <2>1, PointIs
  <2>3. b[2] \in Nat /\ b[2] > 0 /\ Abs(b[1]) \in Nat
    BY <2>2, FracIs DEF Abs
  <2>4. x.lcm \in Nat /\ x.lcm > 0 /\ x.gcd \in Nat
    OBVIOUS
  <2> HIDE DEF b
  <2>5. Lcm(x.lcm, b[2]) \in Nat /\ Lcm(x.lcm, b[2]) > 0
    BY <2>3, <2>4, LcmIs
  <2>6. Gcd[<<x.gcd, Abs(b[1])>>] \in Nat
    BY <2>3, <2>4, GcdIsNat
  <2> DEFINE m == Lcm(x.lcm, b[2])  g == Gcd[<<x.gcd, Abs(b[1])>>]
  <2>7. St(k, x) = [lcm |-> m, gcd |-> g]
    BY DEF b
  <2> HIDE DEF m, g, St
  <2> QED BY <2>5, <2>6, <2>7 DEF m, g
<1>4. \E g : g = F(g)
  <2>0. \A g : \A k \in 1 .. n : F(g)[k] = St(k, g[k - 1])
    <3> HIDE DEF n, dims
    <3>1. \A k \in 1 .. n : k \in 0 .. n /\ k # 0
      BY <1>1
    <3> QED BY <3>1
  <2>6. \A g : F(g) = [k \in 0 .. n |-> F(g)[k]] /\ (0 \in 0 .. n => F(g)[0] = a)
    OBVIOUS
  <2> HIDE DEF St, F, n, dims
  <2>1. st \in [1 .. n -> [R -> R]]
    BY <1>3
  <2>2. \A k \in 1 .. n : \A x \in R : st[k][x] = St(k, x)
    OBVIOUS
  <2> HIDE DEF st, R, a
  <2>3. PICK g : g \in [0 .. n -> R] /\ Steps(g, a, st, n)
    BY ONLY <1>1, <1>2, <2>1, SomeSequence
  <2>4. \A k \in 0 .. n : g[k] = F(g)[k]
    <3>1. g[0] = F(g)[0]
      BY <1>1, <2>3, <2>6 DEF Steps
    <3>2. ASSUME NEW k \in 1 .. n
          PROVE  g[k] = F(g)[k]
      <4>1. g[k - 1] \in R
        BY <1>1, <2>3
      <4> QED BY <4>1, <2>0, <2>2, <2>3 DEF Steps
    <3> QED BY <1>1, <3>1, <3>2
  <2>5. g = F(g)
    BY <2>3, <2>4, <2>6
  <2> QED BY <2>5
<1>5. fold = F(fold)
  BY <1>4
<1>6. CommonFactor(terms) = fold[n]
  BY DEF CommonFactor
<1> HIDE DEF fold
<1>7. fold[0] = a /\ \A k \in 1 .. n : fold[k] = St(k, fold[k - 1])
  <2>1. \A g : \A k \in 1 .. n : F(g)[k] = St(k, g[k - 1])
    <3> HIDE DEF n, dims
    <3>1. \A k \in 1 .. n : k \in 0 .. n /\ k # 0
      BY <1>1
    <3> QED BY <3>1
  <2>2. \A g : (0 \in 0 .. n => F(g)[0] = a)
    OBVIOUS
  <2> HIDE DEF F, St, n, a
  <2> QED BY <1>1, <1>5, <2>1, <2>2
<1>11. /\ fold[0] = [lcm |-> 1, gcd |-> 0]
       /\ \A k \in 1 .. n : fold[k] = FactorStep(terms[dims[k]], fold[k - 1])
       /\ CommonFactor(terms) = fold[n]
  BY <1>6, <1>7 DEF FactorStep
<1> HIDE DEF St, n, dims, a, R
<1>8. 0 .. n \subseteq T
  <2>1. 0 \in T
    BY <1>1, <1>2, <1>7
  <2>2. \A i \in 0 .. n - 1 : i \in T => i + 1 \in T
    <3> SUFFICES ASSUME NEW i \in 0 .. n - 1, i \in T PROVE i + 1 \in T
      OBVIOUS
    <3>1. i + 1 \in 1 .. n /\ i + 1 \in 0 .. n /\ (i + 1) - 1 = i
      BY <1>1
    <3> QED BY <3>1, <1>3, <1>7
  <2> HIDE DEF T
  <2> QED BY <1>1, <2>1, <2>2, UpTo
<1>9. fold[n] \in R
  BY <1>1, <1>8
<1>10. n = 0 => fold[n].gcd = 0
  BY <1>7 DEF a
<1>12. /\ CommonFactor(terms).lcm \in Nat /\ CommonFactor(terms).lcm > 0 /\ CommonFactor(terms).gcd \in Nat
       /\ DOMAIN terms = {} => CommonFactor(terms).gcd = 0
  BY <1>1, <1>6, <1>9, <1>10 DEF R
<1> QED BY <1>11, <1>12 DEF n, dims

(* The reduction of a constraint over integers.                            *)
LEMMA ReduceIntegerIs ==
  ASSUME NEW uses, uses \subseteq Nat, IsFiniteSet(uses), NEW c, ReadyCons(c, uses), NEW intdim
  PROVE  ProperCons(ReduceInteger(c, intdim), uses)
<1> DEFINE l == c.lin
           factor == CommonFactor(l.terms)
           q == Num(factor.lcm, factor.gcd)
           terms == [d \in DOMAIN l.terms |-> ItvMulBound(l.terms[d], q)]
           cst == ItvMulBound(l.cst, q)
           sup == IF IsInfty(cst.sup) THEN cst.sup ELSE Tightened(c.typ, cst.sup)
           typ == IF c.typ = "SUP" /\ ~IsInfty(cst.sup) THEN "SUPEQ" ELSE c.typ
           eqInf == IF IsInfty(cst.inf) THEN cst.inf
                    ELSE IF l.eq THEN BoundNeg(sup) ELSE BoundFloor(cst.inf)
           Same == \/ c.typ = "DISEQ"
                   \/ \E d \in DOMAIN l.terms : d >= intdim \/ ~ItvIsPoint(l.terms[d])
                   \/ factor.gcd = 0
           r == ReduceInteger(c, intdim)
<1>1. r = IF Same THEN c
          ELSE IF typ = "EQ"
          THEN IF IsEmptyItv(Itv(eqInf, sup)) THEN FalseCons
               ELSE Lincons(typ, Lin(Itv(eqInf, sup), l.eq, terms))
          ELSE IF IsInfty(sup) THEN Lincons(typ, Lin(cst, l.eq, terms))
          ELSE Lincons(typ, Lin(Itv(BoundNeg(sup), sup), TRUE, terms))
  BY DEF ReduceInteger
<1>2. /\ c.typ \in Types /\ Proper(l.cst) /\ l.eq \in BOOLEAN /\ DOMAIN l.terms \subseteq uses
      /\ \A d \in DOMAIN l.terms : Proper(l.terms[d])
      /\ l.eq /\ DOMAIN l.terms # {} /\ (\A d \in DOMAIN l.terms : Bounded(l.terms[d])) => Bounded(l.cst)
  BY DEF ReadyCons, ProperCons, ProperLin
<1>3. CASE Same
  <2>1. r = c
    <3> HIDE DEF r, Same
    <3> QED BY <1>1, <1>3
  <2> QED BY <2>1 DEF ReadyCons
<1>4. CASE ~Same
  <2>1. (\A d \in DOMAIN l.terms : ItvIsPoint(l.terms[d])) /\ factor.gcd # 0
    BY <1>4
  <2>2. DOMAIN l.terms \in SUBSET Int /\ IsFiniteSet(DOMAIN l.terms)
    <3> DEFINE D == DOMAIN l.terms
    <3>1. D \subseteq uses
      BY <1>2
    <3> HIDE DEF D
    <3>2. D \in SUBSET Int
      BY <3>1
    <3>3. D \in SUBSET uses
      BY <3>1
    <3>4. IsFiniteSet(D)
      BY <3>3, FS_Subset
    <3> QED BY <3>2, <3>4 DEF D
  <2>3. factor.lcm \in Nat /\ factor.lcm > 0 /\ factor.gcd \in Nat /\ (DOMAIN l.terms = {} => factor.gcd = 0)
    <3> HIDE DEF l
    <3> QED BY <1>2, <2>1, <2>2, CommonFactorIs DEF factor
  <2> HIDE DEF factor
  <2>4. IsFrac(q)
    BY <2>1, <2>3, NumIs
  <2>5. (\A d \in DOMAIN l.terms : Bounded(l.terms[d])) /\ (l.eq => Bounded(l.cst))
    BY <1>2, <2>1, <2>3, PointBounded
  <2> HIDE DEF q
  <2>6. Proper(cst) /\ (l.eq => Bounded(cst))
    BY <1>2, <2>4, <2>5, ScaleIsProper
  <2>7. DOMAIN terms = DOMAIN l.terms /\ \A d \in DOMAIN terms : Proper(terms[d])
    BY <1>2, <2>4, ScaleIsProper
  <2>8. IsBound(cst.inf) /\ IsBound(cst.sup)
    BY <2>6, SidesOfProper
  <2>9. ASSUME NEW k, Proper(k), NEW e \in BOOLEAN, NEW t \in Types
        PROVE  ProperCons(Lincons(t, Lin(k, e, terms)), uses)
    <3> HIDE DEF terms, l
    <3> QED BY <1>2, <2>7, <2>9, LinIs, LinconsIs DEF ProperCons, ProperLin
  <2>10. typ \in Types /\ (typ = "EQ" => c.typ = "EQ")
    BY <1>2 DEF Types
  <2> HIDE DEF cst, terms, typ, Same, r
  <2>11. IsBound(sup) /\ (~IsInfty(cst.sup) => IsFrac(sup))
    <3>1. CASE IsInfty(cst.sup)
      BY <2>8, <3>1
    <3>2. CASE ~IsInfty(cst.sup)
      <4>1. IsFrac(cst.sup)
        BY <2>8, <3>2, BoundKinds
      <4> QED BY <3>2, <4>1, TightenedIs, FracIs
    <3> QED BY <3>1, <3>2
  <2>12. CASE typ = "EQ"
    <3>1. IsBound(eqInf)
      <4>1. CASE IsInfty(cst.inf)
        BY <2>8, <4>1
      <4>2. CASE ~IsInfty(cst.inf) /\ l.eq
        <5>1. IsFrac(sup)
          BY <4>2, <2>6, <2>11 DEF Bounded
        <5> HIDE DEF sup, l
        <5> QED BY <4>2, <5>1, FracIs
      <4>3. CASE ~IsInfty(cst.inf) /\ ~l.eq
        BY <2>8, <4>3, RoundBound
      <4> QED BY <1>2, <4>1, <4>2, <4>3
    <3> HIDE DEF eqInf, sup
    <3>2. CASE IsEmptyItv(Itv(eqInf, sup))
      <4>1. r = FalseCons
        BY <1>1, <1>4, <2>12, <3>2
      <4> QED BY <4>1, FalseConsIs DEF ReadyCons, r
    <3>3. CASE ~IsEmptyItv(Itv(eqInf, sup))
      <4>1. r = Lincons(typ, Lin(Itv(eqInf, sup), l.eq, terms))
        BY <1>1, <1>4, <2>12, <3>3
      <4>2. Proper(Itv(eqInf, sup))
        BY <2>11, <3>1, <3>3, ItvIs DEF Proper
      <4> HIDE DEF l
      <4> QED BY <1>2, <2>9, <2>10, <4>1, <4>2 DEF r
    <3> QED BY <3>2, <3>3
  <2>13. CASE typ # "EQ" /\ IsInfty(sup)
    <3> HIDE DEF sup, eqInf
    <3>1. r = Lincons(typ, Lin(cst, l.eq, terms))
      BY <1>1, <1>4, <2>13
    <3> HIDE DEF l
    <3> QED BY <1>2, <2>6, <2>9, <2>10, <3>1 DEF r
  <2>14. CASE typ # "EQ" /\ ~IsInfty(sup)
    <3> HIDE DEF sup, eqInf
    <3>1. r = Lincons(typ, Lin(Itv(BoundNeg(sup), sup), TRUE, terms))
      BY <1>1, <1>4, <2>14
    <3>2. IsFrac(sup)
      BY <2>11, <2>14, BoundKinds
    <3>3. IsFrac(BoundNeg(sup)) /\ IsBound(BoundNeg(sup)) /\ BoundNeg(BoundNeg(sup)) = sup
      BY <3>2, FracIs
    <3>4. IsItv(Itv(BoundNeg(sup), sup)) /\ ItvIsPoint(Itv(BoundNeg(sup), sup))
      BY <2>11, <3>2, <3>3, ItvIs, FracIs DEF ItvIsPoint
    <3>5. Proper(Itv(BoundNeg(sup), sup))
      BY <3>4, PointIs DEF Proper
    <3> QED BY <2>9, <2>10, <3>1, <3>5 DEF r
  <2> QED BY <2>12, <2>13, <2>14
<1> QED BY <1>3, <1>4

-----------------------------------------------------------------------------
LEMMA FrontIs ==
  ASSUME NEW V, NEW q \in Seq(V), NEW i \in 1 .. Len(q)
  PROVE  Front([q EXCEPT ![i] = Last(q)]) \in Seq(V)
<1> DEFINE p == [q EXCEPT ![i] = Last(q)]
<1>1. Len(q) \in Nat /\ Len(q) > 0 /\ \A k \in 1 .. Len(q) : q[k] \in V
  OBVIOUS
<1>2. Len(p) = Len(q) /\ \A k \in 1 .. Len(q) : p[k] \in V
  BY <1>1 DEF Last
<1> HIDE DEF p
<1>3. Len(p) - 1 \in Int /\ \A k \in 1 .. Len(p) - 1 : p[k] \in V
  BY <1>1, <1>2
<1>4. SubSeq(p, 1, Len(p) - 1) \in Seq(V)
  BY <1>3, SubSeqProperties
<1> QED BY <1>4 DEF Front, p

LEMMA ReduceArrayIs ==
  ASSUME NEW uses, NEW V, \A v \in V : ProperCons(v, uses), NEW cons \in Seq(V)
  PROVE  LET r == ReduceArray(cons)
         IN /\ IsSequence(r) /\ \A k \in DOMAIN r : ProperCons(r[k], uses)
            /\ \/ r = <<FalseCons>> /\ \E i \in DOMAIN cons : IsFalseCst(cons[i])
               \/ \A k \in DOMAIN r : r[k] \in V
            /\ (\A i \in DOMAIN cons : ~IsFalseCst(cons[i]) /\ ~IsUselessForMeet(cons[i])) => r = cons
<1> DEFINE n == Len(cons)
           R == [i : Nat \ {0}, left : Seq(V)]
           a == [i |-> 1, left |-> cons]
           St(s) == IF s.i > Len(s.left) THEN s
                    ELSE IF IsUselessForMeet(s.left[s.i])
                    THEN [s EXCEPT !.left = Front([s.left EXCEPT ![s.i] = Last(s.left)])]
                    ELSE [s EXCEPT !.i = @ + 1]
           st == [k \in 1 .. n |-> [x \in R |-> St(x)]]
           F(g) == [k \in 0 .. n |->
                      IF k = 0 THEN [i |-> 1, left |-> cons]
                      ELSE LET s == g[k - 1]
                           IN IF s.i > Len(s.left) THEN s
                              ELSE IF IsUselessForMeet(s.left[s.i])
                              THEN [s EXCEPT !.left = Front([s.left EXCEPT ![s.i] = Last(s.left)])]
                              ELSE [s EXCEPT !.i = @ + 1]]
           scan == CHOOSE g : g = F(g)
           T == {k \in 0 .. n : scan[k] \in R}
<1>1. n \in Nat /\ \A k \in 1 .. n : k \in 0 .. n /\ k # 0
  OBVIOUS
<1>2. a \in R
  OBVIOUS
<1>3. ASSUME NEW x \in R
      PROVE  St(x) \in R
  <2>1. x.i \in Nat /\ x.i > 0 /\ x.left \in Seq(V) /\ x = [i |-> x.i, left |-> x.left]
    OBVIOUS
  <2>2. CASE x.i > Len(x.left)
    BY <2>2
  <2>3. CASE ~(x.i > Len(x.left)) /\ IsUselessForMeet(x.left[x.i])
    <3> DEFINE front == Front([x.left EXCEPT ![x.i] = Last(x.left)])
    <3>1. x.i \in 1 .. Len(x.left)
      BY <2>1, <2>3
    <3>2. front \in Seq(V)
      BY <2>1, <3>1, FrontIs
    <3>3. St(x) = [x EXCEPT !.left = front]
      BY <2>3
    <3> HIDE DEF front, St
    <3> QED BY <2>1, <3>2, <3>3
  <2>4. CASE ~(x.i > Len(x.left)) /\ ~IsUselessForMeet(x.left[x.i])
    <3>1. St(x) = [x EXCEPT !.i = @ + 1]
      BY <2>4
    <3>2. x.i + 1 \in Nat \ {0}
      BY <2>1
    <3> HIDE DEF St
    <3> QED BY <2>1, <3>1, <3>2
  <2> QED BY <2>2, <2>3, <2>4
<1>4. \A g : /\ \A k \in 1 .. n : F(g)[k] = St(g[k - 1])
             /\ F(g) = [k \in 0 .. n |-> F(g)[k]]
             /\ 0 \in 0 .. n => F(g)[0] = a
  <2> HIDE DEF n
  <2> QED BY <1>1
<1>5. \E g : g = F(g)
  <2> HIDE DEF St, F, n
  <2>1. st \in [1 .. n -> [R -> R]]
    BY <1>3
  <2>2. \A k \in 1 .. n : \A x \in R : st[k][x] = St(x)
    OBVIOUS
  <2> HIDE DEF st, R, a
  <2>3. PICK g : g \in [0 .. n -> R] /\ Steps(g, a, st, n)
    BY ONLY <1>1, <1>2, <2>1, SomeSequence
  <2>4. \A k \in 0 .. n : g[k] = F(g)[k]
    <3>1. g[0] = F(g)[0]
      BY <1>1, <1>4, <2>3 DEF Steps
    <3>2. ASSUME NEW k \in 1 .. n
          PROVE  g[k] = F(g)[k]
      <4>1. g[k - 1] \in R
        BY <1>1, <2>3
      <4> QED BY <4>1, <1>4, <2>2, <2>3 DEF Steps
    <3> QED BY <1>1, <3>1, <3>2
  <2>5. g = F(g)
    BY <1>4, <2>3, <2>4
  <2> QED BY <2>5
<1>6. scan = F(scan)
  BY <1>5
<1>7. ReduceArray(cons) = IF \E i \in DOMAIN cons : IsFalseCst(cons[i]) THEN <<FalseCons>> ELSE scan[n].left
  BY DEF ReduceArray
<1> HIDE DEF scan
<1>8. scan[0] = a /\ \A k \in 1 .. n : scan[k] = St(scan[k - 1])
  <2> HIDE DEF F, St, n, a
  <2> QED BY <1>1, <1>4, <1>6
<1>13. ASSUME \A i \in DOMAIN cons : ~IsUselessForMeet(cons[i])
       PROVE  scan[n].left = cons
  <2> DEFINE U == {k \in 0 .. n : scan[k] = [i |-> k + 1, left |-> cons]}
  <2>1. 0 \in U
    BY <1>1, <1>8
  <2>2. ASSUME NEW k \in 0 .. n - 1, k \in U
        PROVE  k + 1 \in U
    <3>1. k + 1 \in 1 .. n /\ k + 1 \in 0 .. n /\ (k + 1) - 1 = k /\ k \in Nat
      BY <1>1
    <3> DEFINE s == [i |-> k + 1, left |-> cons]
    <3>2. ~(s.i > Len(s.left)) /\ ~IsUselessForMeet(s.left[s.i])
      BY <2>2, <3>1, <1>13
    <3>3. St(s) = [s EXCEPT !.i = @ + 1]
      BY <3>2
    <3>4. [s EXCEPT !.i = @ + 1] = [i |-> (k + 1) + 1, left |-> cons]
      OBVIOUS
    <3>5. scan[k] = s
      BY <2>2
    <3>6. scan[k + 1] = St(scan[k])
      BY <1>8, <3>1
    <3> HIDE DEF St, s, n
    <3> QED BY <3>1, <3>3, <3>4, <3>5, <3>6
  <2>3. 0 .. n \subseteq U
    <3> HIDE DEF U, n
    <3> QED BY <1>1, <2>1, <2>2, UpTo
  <2>4. n \in U
    <3>1. n \in 0 .. n
      BY <1>1
    <3> HIDE DEF U, n
    <3> QED BY <2>3, <3>1
  <2> QED BY <2>4
<1> HIDE DEF St, n, a, F
<1>9. 0 .. n \subseteq T
  <2> HIDE DEF R
  <2>1. 0 \in T
    BY <1>1, <1>2, <1>8
  <2>2. \A i \in 0 .. n - 1 : i \in T => i + 1 \in T
    <3> SUFFICES ASSUME NEW i \in 0 .. n - 1, i \in T PROVE i + 1 \in T
      OBVIOUS
    <3>1. i + 1 \in 1 .. n /\ i + 1 \in 0 .. n /\ (i + 1) - 1 = i
      BY <1>1
    <3> QED BY <3>1, <1>3, <1>8
  <2> HIDE DEF T
  <2> QED BY <1>1, <2>1, <2>2, UpTo
<1>10. scan[n].left \in Seq(V)
  BY <1>1, <1>9
<1>11. CASE \E i \in DOMAIN cons : IsFalseCst(cons[i])
  <2>1. ReduceArray(cons) = <<FalseCons>>
    BY <1>7, <1>11
  <2> QED BY <2>1, <1>11, OneConsIs DEF ReadyCons
<1>12. CASE ~\E i \in DOMAIN cons : IsFalseCst(cons[i])
  <2>1. ReduceArray(cons) = scan[n].left
    BY <1>7, <1>12
  <2>2. ReduceArray(cons) \in Seq(V)
    BY <1>10, <2>1
  <2> DEFINE r == ReduceArray(cons)
  <2>3. r \in Seq(V)
    BY <2>2
  <2> HIDE DEF r
  <2>4. IsSequence(r) /\ \A k \in DOMAIN r : r[k] \in V
    BY <2>3 DEF IsSequence
  <2>5. (\A i \in DOMAIN cons : ~IsUselessForMeet(cons[i])) => r = cons
    BY <1>13, <2>1 DEF r
  <2> QED BY <2>4, <2>5 DEF r
<1> QED BY <1>11, <1>12

-----------------------------------------------------------------------------
(* Quotients that a bound is deduced from.                                 *)
LEMMA QuotientKinds ==
  ASSUME NEW x, NEW y, IsBound(x), IsBound(y)
  PROVE  /\ y[1] > 0 => IsBound(BoundDiv(x, y))
         /\ y[1] < 0 /\ x[1] >= 0 => IsBound(BoundNeg(BoundDiv(x, y)))
<1>1. /\ BoundSgn(x) \in {-1, 0, 1} /\ BoundSgn(x) = 0 <=> x[1] = 0
      /\ BoundSgn(y) = 0 <=> y[1] = 0
      /\ x[1] \in Int /\ y[1] \in Int /\ (IsInfty(x) <=> x = PlusOo) /\ (IsInfty(y) <=> y = PlusOo)
      /\ (~IsInfty(x) => IsFrac(x)) /\ (~IsInfty(y) => IsFrac(y))
  BY BoundKinds
<1>2. IsBound(Zero) /\ BoundNeg(Zero) = Zero
  BY ZeroIs, ZeroNeg
<1>3. CASE BoundSgn(x) = 0 \/ IsInfty(y)
  BY <1>2, <1>3 DEF BoundDiv
<1>4. CASE ~(BoundSgn(x) = 0 \/ IsInfty(y)) /\ y[1] # 0 /\ IsInfty(x)
  <2>1. x = PlusOo /\ BoundSgn(x) = 1
    BY <1>1, <1>4, PlusOoIs
  <2>2. BoundDiv(x, y) = Infty(BoundSgn(x) * BoundSgn(y))
    BY <1>1, <1>4 DEF BoundDiv
  <2>3. y[1] > 0 => BoundSgn(y) = 1
    BY <1>1 DEF BoundSgn, SgnOf
  <2>4. y[1] < 0 => BoundSgn(y) = -1
    BY <1>1 DEF BoundSgn, SgnOf
  <2>5. BoundNeg(Infty(-1)) = PlusOo
    <3>1. \A k, m \in Int : k + m = 0 => -k = m
      OBVIOUS
    <3>2. -1 \in Int /\ 1 \in Int /\ (-1) + 1 = 0
      OBVIOUS
    <3>3. -(-1) = 1
      BY <3>1, <3>2
    <3> QED BY <3>3 DEF BoundNeg, PlusOo, Infty
  <2>6. 1 * 1 = 1 /\ 1 * (-1) = -1
    OBVIOUS
  <2>7. y[1] > 0 => BoundDiv(x, y) = PlusOo
    BY <2>1, <2>2, <2>3, <2>6 DEF PlusOo
  <2>8. y[1] < 0 => BoundDiv(x, y) = Infty(-1)
    BY <2>1, <2>2, <2>4, <2>6
  <2> QED BY <2>5, <2>7, <2>8, PlusOoIs
<1>5. CASE ~(BoundSgn(x) = 0 \/ IsInfty(y)) /\ y[1] # 0 /\ ~IsInfty(x)
  <2>1. IsFrac(x) /\ IsFrac(y) /\ x[2] \in Int /\ x[2] > 0 /\ y[2] \in Int /\ y[2] > 0
    BY <1>1, <1>5, FracIs
  <2>2. BoundDiv(x, y) = Num(x[1] * y[2], x[2] * y[1])
    BY <1>1, <1>5 DEF BoundDiv
  <2> DEFINE u == x[1] * y[2]  v == x[2] * y[1]
  <2>3. u \in Int /\ v \in Int /\ (y[1] > 0 => v > 0) /\ (y[1] < 0 => v < 0)
    BY <1>1, <2>1
  <2> HIDE DEF u, v
  <2>4. y[1] > 0 => IsFrac(Num(u, v))
    BY <2>3, NumIs
  <2>5. y[1] < 0 => IsFrac(Num(u, v))
    <3> SUFFICES ASSUME y[1] < 0 PROVE IsFrac(Num(u, v))
      OBVIOUS
    <3>1. -u \in Int /\ -v \in Int /\ -v > 0 /\ Num(u, v) = Num(-u, -v)
      BY <2>3, NumOfNegative
    <3> QED BY <3>1, NumIs
  <2>6. IsFrac(Num(u, v))
    BY <1>1, <1>5, <2>4, <2>5
  <2> QED BY <2>2, <2>6, FracIs DEF u, v
<1> QED BY <1>1, <1>3, <1>4, <1>5

-----------------------------------------------------------------------------
LEMMA DeducedIs ==
  ASSUME NEW c, NEW dim, NEW coeff, Proper(coeff), NEW eval, Proper(eval), NEW intdim
  PROVE  IsItv(Deduced(c, dim, coeff, eval, intdim))
<1> DEFINE Rounded(b) == IF dim >= intdim \/ IsInfty(b) THEN b ELSE Tightened(c.typ, b)
           m == coeff.inf  M == coeff.sup  e == eval.inf  E == eval.sup
           sgn == BoundSgn(M)
           sgnitv == IF BoundSgn(m) < 0 THEN 1 ELSE IF BoundSgn(M) < 0 THEN -1 ELSE 0
           both == c.typ = "EQ"
           pointInf == IF sgn > 0 THEN BoundDiv(E, M) ELSE BoundDiv(e, m)
           pointSup == IF sgn < 0 THEN BoundDiv(E, m) ELSE BoundDiv(e, M)
           itvInf == IF sgnitv > 0
                     THEN IF BoundSgn(E) <= 0 THEN BoundDiv(E, M) ELSE BoundNeg(BoundDiv(E, m))
                     ELSE IF BoundSgn(e) <= 0 THEN BoundDiv(e, m) ELSE BoundNeg(BoundDiv(e, M))
           itvSup == IF sgnitv < 0
                     THEN IF BoundSgn(E) >= 0 THEN BoundNeg(BoundDiv(E, M)) ELSE BoundDiv(E, m)
                     ELSE IF BoundSgn(e) >= 0 THEN BoundNeg(BoundDiv(e, m)) ELSE BoundDiv(e, M)
           Sides(s, inf, sup) == Itv(IF s > 0 \/ (both /\ s < 0) THEN Rounded(inf) ELSE PlusOo,
                                     IF s < 0 \/ (both /\ s > 0) THEN Rounded(sup) ELSE PlusOo)
           D == Deduced(c, dim, coeff, eval, intdim)
<1>1. D = IF ItvIsTop(eval) THEN ItvTop
          ELSE IF ItvIsPoint(coeff) THEN Sides(sgn, pointInf, pointSup)
          ELSE Sides(sgnitv, itvInf, itvSup)
  BY DEF Deduced
<1>2. /\ IsBound(m) /\ IsBound(M) /\ IsBound(e) /\ IsBound(E)
      /\ m[1] \in Int /\ M[1] \in Int /\ e[1] \in Int /\ E[1] \in Int
  BY SidesOfProper
<1>3. ASSUME NEW x, IsBound(x)
      PROVE  /\ BoundSgn(x) < 0 <=> x[1] < 0
             /\ BoundSgn(x) > 0 <=> x[1] > 0
             /\ BoundSgn(x) <= 0 <=> x[1] <= 0
             /\ BoundSgn(x) >= 0 <=> x[1] >= 0
             /\ BoundSgn(x) \in {-1, 0, 1}
  BY <1>3, BoundKinds DEF BoundSgn, SgnOf
<1>4. \A x : IsBound(x) => IsBound(Rounded(x))
  BY TightenedIs, BoundKinds, FracIs
<1>5. ASSUME NEW s \in {-1, 0, 1}, NEW inf, NEW sup, s # 0 => IsBound(inf) /\ IsBound(sup)
      PROVE  IsItv(Sides(s, inf, sup))
  <2> HIDE DEF Rounded, both
  <2>1. IsBound(IF s > 0 \/ (both /\ s < 0) THEN Rounded(inf) ELSE PlusOo)
    BY <1>4, <1>5, PlusOoIs
  <2>2. IsBound(IF s < 0 \/ (both /\ s > 0) THEN Rounded(sup) ELSE PlusOo)
    BY <1>4, <1>5, PlusOoIs
  <2> QED BY <2>1, <2>2, ItvIs
<1>6. m[1] < 0 => M[1] > 0
  BY SidesOfProper
<1>7. M[1] < 0 => m[1] > 0
  BY SidesOfProper
<1>8. \A x, y : IsBound(x) /\ IsBound(y) =>
        /\ y[1] > 0 => IsBound(BoundDiv(x, y))
        /\ y[1] < 0 /\ x[1] >= 0 => IsBound(BoundNeg(BoundDiv(x, y)))
  BY QuotientKinds
<1>9. CASE ItvIsTop(eval)
  <2>1. D = ItvTop
    <3> HIDE DEF D
    <3> QED BY <1>1, <1>9
  <2> QED BY <2>1, ItvTopIs
<1>10. CASE ~ItvIsTop(eval) /\ ItvIsPoint(coeff)
  <2>1. D = Sides(sgn, pointInf, pointSup)
    <3> HIDE DEF D
    <3> QED BY <1>1, <1>10
  <2>2. M = BoundNeg(m) /\ IsFrac(m)
    BY <1>10, PointIs DEF Proper
  <2>3. M[1] = -m[1]
    BY <2>2 DEF BoundNeg
  <2> HIDE DEF m, M, e, E
  <2>4. sgn \in {-1, 0, 1}
    BY <1>2, <1>3
  <2>5. sgn # 0 => IsBound(pointInf) /\ IsBound(pointSup)
    BY <1>2, <1>3, <1>8, <2>3
  <2> HIDE DEF sgn, pointInf, pointSup, Sides, D
  <2>6. IsItv(D)
    BY <1>5, <2>1, <2>4, <2>5
  <2> QED BY <2>6 DEF D
<1>11. CASE ~ItvIsTop(eval) /\ ~ItvIsPoint(coeff)
  <2>1. D = Sides(sgnitv, itvInf, itvSup)
    <3> HIDE DEF D
    <3> QED BY <1>1, <1>11
  <2> HIDE DEF m, M, e, E
  <2>2. sgnitv \in {-1, 0, 1}
    OBVIOUS
  <2>3. ASSUME sgnitv = 1
        PROVE  IsBound(itvInf) /\ IsBound(itvSup)
    <3>1. m[1] < 0 /\ M[1] > 0
      BY <1>2, <1>3, <1>6, <2>3
    <3>2. /\ itvInf = IF BoundSgn(E) <= 0 THEN BoundDiv(E, M) ELSE BoundNeg(BoundDiv(E, m))
          /\ itvSup = IF BoundSgn(e) >= 0 THEN BoundNeg(BoundDiv(e, m)) ELSE BoundDiv(e, M)
      BY <2>3
    <3> HIDE DEF itvInf, itvSup
    <3> QED BY <1>2, <1>3, <1>8, <3>1, <3>2
  <2>4. ASSUME sgnitv = -1
        PROVE  IsBound(itvInf) /\ IsBound(itvSup)
    <3>1. M[1] < 0 /\ m[1] > 0
      BY <1>2, <1>3, <1>7, <2>4
    <3>2. /\ itvInf = IF BoundSgn(e) <= 0 THEN BoundDiv(e, m) ELSE BoundNeg(BoundDiv(e, M))
          /\ itvSup = IF BoundSgn(E) >= 0 THEN BoundNeg(BoundDiv(E, M)) ELSE BoundDiv(E, m)
      BY <2>4
    <3> HIDE DEF itvInf, itvSup
    <3> QED BY <1>2, <1>3, <1>8, <3>1, <3>2
  <2>5. sgnitv # 0 => IsBound(itvInf) /\ IsBound(itvSup)
    BY <2>2, <2>3, <2>4
  <2> HIDE DEF sgnitv, itvInf, itvSup, Sides, D
  <2>6. IsItv(D)
    BY <1>5, <2>1, <2>2, <2>5
  <2> QED BY <2>6 DEF D
<1> QED BY <1>9, <1>10, <1>11

(* Canonical intervals.                                                    *)
LEMMA CanonicalizeIs ==
  ASSUME NEW a, IsItv(a), NEW integer \in BOOLEAN
  PROVE  IsItv(Canonicalize(a, integer)) /\ (integer => IntegerItv(Canonicalize(a, integer)))
<1>1. IsBound(a.inf) /\ IsBound(a.sup)
  BY ItvSides
<1>2. /\ IsBound(BoundFloor(a.inf)) /\ Integral(BoundFloor(a.inf))
      /\ IsBound(BoundFloor(a.sup)) /\ Integral(BoundFloor(a.sup))
  BY <1>1, RoundBound
<1> QED BY <1>2, ItvIs DEF Canonicalize, IntegerItv

-----------------------------------------------------------------------------
(* What the deduction of bounds goes through: intervals, of integers where *)
(* the dimension is, and none of them empty before the end.                *)
AnyItv == {a \in [inf : Int \X Int, sup : Int \X Int] : IsItv(a)}
Narrowings(D, int) ==
  {s \in [p : [D -> AnyItv], change : BOOLEAN, empty : BOOLEAN] :
     /\ ~s.empty => \A d \in D : ~IsEmptyItv(s.p[d])
     /\ \A d \in D : d < int => IntegerItv(s.p[d])}

LEMMA AnyItvIs ==
  ASSUME NEW a
  PROVE  a \in AnyItv <=> IsItv(a)
<1>1. ASSUME IsItv(a) PROVE a \in [inf : Int \X Int, sup : Int \X Int]
  <2>1. a = Itv(a.inf, a.sup) /\ IsBound(a.inf) /\ IsBound(a.sup)
    BY <1>1 DEF IsItv
  <2>2. \A b : IsBound(b) => b \in Int \X Int
    BY DEF IsBound, IsFrac, PlusOo, Infty
  <2>3. a.inf \in Int \X Int /\ a.sup \in Int \X Int
    BY <2>1, <2>2
  <2> QED BY <2>1, <2>3 DEF Itv
<1> QED BY <1>1 DEF AnyItv

LEMMA NarrowingsAre ==
  ASSUME NEW D, NEW int, NEW p, NEW change, NEW empty
  PROVE  [p |-> p, change |-> change, empty |-> empty] \in Narrowings(D, int) <=>
           /\ p \in [D -> AnyItv] /\ change \in BOOLEAN /\ empty \in BOOLEAN
           /\ ~empty => \A d \in D : ~IsEmptyItv(p[d])
           /\ \A d \in D : d < int => IntegerItv(p[d])
<1> DEFINE s == [p |-> p, change |-> change, empty |-> empty]
<1>1. s.p = p /\ s.change = change /\ s.empty = empty
  OBVIOUS
<1>2. s \in [p : [D -> AnyItv], change : BOOLEAN, empty : BOOLEAN] <=>
        p \in [D -> AnyItv] /\ change \in BOOLEAN /\ empty \in BOOLEAN
  OBVIOUS
<1> HIDE DEF s
<1>3. s \in Narrowings(D, int) <=>
           /\ p \in [D -> AnyItv] /\ change \in BOOLEAN /\ empty \in BOOLEAN
           /\ ~empty => \A d \in D : ~IsEmptyItv(p[d])
           /\ \A d \in D : d < int => IntegerItv(p[d])
  BY <1>1, <1>2 DEF Narrowings
<1> QED BY <1>3 DEF s

(* What a constraint does with the bounds of one dimension.                *)
NarrowStep(c, d, s, int) ==
  LET rest == Lin(c.lin.cst, c.lin.eq, [c.lin.terms EXCEPT ![d] = ItvInt(0)])
      itv == ItvMeet(s.p[d], Deduced(c, d, c.lin.terms[d], EvalLin(rest, s.p), int))
      narrowed == Canonicalize(itv, d < int)
  IN IF s.empty \/ itv = s.p[d] THEN s
     ELSE [p |-> [s.p EXCEPT ![d] = narrowed], change |-> TRUE, empty |-> IsEmptyItv(narrowed)]

(* The states between the dimensions of a constraint.                      *)
NarrowSteps(step, c, env, D, int) ==
  LET dims == Ascending(DOMAIN c.lin.terms)
  IN /\ step \in [0 .. Len(dims) -> Narrowings(D, int)]
     /\ step[0] = [p |-> env, change |-> FALSE, empty |-> FALSE]
     /\ \A k \in 1 .. Len(dims) : step[k] = NarrowStep(c, dims[k], step[k - 1], int)
     /\ BoxizeOne(c, env, int) = step[Len(dims)]

LEMMA BoxizeOneIs ==
  ASSUME NEW D, D \subseteq Nat, IsFiniteSet(D), NEW int \in Nat, NEW c, ProperCons(c, D),
         NEW env, [p |-> env, change |-> FALSE, empty |-> FALSE] \in Narrowings(D, int)
  PROVE  /\ BoxizeOne(c, env, int) \in Narrowings(D, int)
         /\ ~IsFalseCst(c) => \E step : NarrowSteps(step, c, env, D, int)
<1> DEFINE dims == Ascending(DOMAIN c.lin.terms)
           n == Len(dims)
           R == Narrowings(D, int)
           a == [p |-> env, change |-> FALSE, empty |-> FALSE]
           Changed(s, d, narrowed) ==
             [p |-> [s.p EXCEPT ![d] = narrowed], change |-> TRUE, empty |-> IsEmptyItv(narrowed)]
           Met(s, d, itv) ==
             IF s.empty \/ itv = s.p[d] THEN s ELSE Changed(s, d, Canonicalize(itv, d < int))
           Rest(d) == Lin(c.lin.cst, c.lin.eq, [c.lin.terms EXCEPT ![d] = ItvInt(0)])
           St(k, s) == Met(s, dims[k], ItvMeet(s.p[dims[k]],
                              Deduced(c, dims[k], c.lin.terms[dims[k]], EvalLin(Rest(dims[k]), s.p), int)))
           st == [k \in 1 .. n |-> [x \in R |-> St(k, x)]]
           F(g) == [k \in 0 .. n |->
                      IF k = 0 THEN [p |-> env, change |-> FALSE, empty |-> FALSE]
                      ELSE LET s == g[k - 1]
                               d == dims[k]
                               rest == Lin(c.lin.cst, c.lin.eq, [c.lin.terms EXCEPT ![d] = ItvInt(0)])
                           IN Met(s, d, ItvMeet(s.p[d], Deduced(c, d, c.lin.terms[d], EvalLin(rest, s.p), int)))]
           step == CHOOSE g : g = F(g)
           T == {k \in 0 .. n : step[k] \in R}
<1>0. /\ Proper(c.lin.cst) /\ c.lin.eq \in BOOLEAN /\ DOMAIN c.lin.terms \subseteq D
      /\ \A d \in DOMAIN c.lin.terms : Proper(c.lin.terms[d])
  BY DEF ProperCons, ProperLin
<1>1. n \in Nat /\ (\A k \in 1 .. n : k \in 0 .. n /\ k # 0 /\ dims[k] \in DOMAIN c.lin.terms)
  <2> DEFINE U == DOMAIN c.lin.terms
  <2>1. U \in SUBSET D
    BY <1>0
  <2> HIDE DEF U
  <2>5. U \in SUBSET Int
    BY <2>1
  <2>6. IsFiniteSet(U)
    BY <2>1, FS_Subset
  <2>2. U \in SUBSET Int /\ IsFiniteSet(U)
    BY <2>5, <2>6
  <2>3. Len(Ascending(U)) \in Nat /\ \A k \in 1 .. Len(Ascending(U)) : Ascending(U)[k] \in U
    BY <2>2, AscendingIs
  <2>4. \A k \in 1 .. Len(Ascending(U)) : k \in 0 .. Len(Ascending(U)) /\ k # 0
    BY <2>3
  <2> QED BY <2>3, <2>4 DEF U
<1>2. a \in R
  OBVIOUS
<1>3. ASSUME NEW k \in 1 .. n, NEW s \in R
      PROVE  St(k, s) \in R
  <2> DEFINE d == dims[k]
             rest == Rest(d)
             ded == Deduced(c, d, c.lin.terms[d], EvalLin(rest, s.p), int)
             itv == ItvMeet(s.p[d], ded)
             narrowed == Canonicalize(itv, d < int)
  <2>1. d \in DOMAIN c.lin.terms /\ d \in D /\ d \in Nat
    BY <1>0, <1>1
  <2>2. /\ s.p \in [D -> AnyItv] /\ s.change \in BOOLEAN /\ s.empty \in BOOLEAN
        /\ s = [p |-> s.p, change |-> s.change, empty |-> s.empty]
        /\ ~s.empty => \A x \in D : ~IsEmptyItv(s.p[x])
        /\ \A x \in D : x < int => IntegerItv(s.p[x])
    BY DEF Narrowings
  <2>3. St(k, s) = IF s.empty \/ itv = s.p[d] THEN s ELSE Changed(s, d, narrowed)
    OBVIOUS
  <2>4. CASE s.empty \/ itv = s.p[d]
    <3> HIDE DEF itv, narrowed, St, Changed, d
    <3> QED BY <2>3, <2>4
  <2>5. CASE ~s.empty /\ itv # s.p[d]
    <3>1. \A x \in D : IsItv(s.p[x]) /\ ~IsEmptyItv(s.p[x])
      BY <2>2, <2>5, AnyItvIs
    <3>2. ProperEnv(s.p, D)
      BY <3>1 DEF ProperEnv
    <3>3. ProperLin(rest, D)
      <4> DEFINE terms == [c.lin.terms EXCEPT ![d] = ItvInt(0)]
      <4>1. DOMAIN terms = DOMAIN c.lin.terms /\ \A x \in DOMAIN terms : terms[x] \in {ItvInt(0), c.lin.terms[x]}
        OBVIOUS
      <4>2. Proper(ItvInt(0))
        BY ItvIntIs
      <4>3. \A x \in DOMAIN terms : Proper(terms[x])
        BY <1>0, <4>1, <4>2
      <4>4. rest.cst = c.lin.cst /\ rest.eq = c.lin.eq /\ rest.terms = terms
        BY LinIs
      <4> HIDE DEF terms, rest
      <4> QED BY <1>0, <4>1, <4>3, <4>4 DEF ProperLin
    <3> HIDE DEF rest
    <3>4. Proper(EvalLin(rest, s.p))
      BY <3>2, <3>3, EvalLinIsProper
    <3>5. IsItv(ded)
      BY <1>0, <2>1, <3>4, DeducedIs
    <3> HIDE DEF ded
    <3>6. IsItv(itv)
      BY <2>1, <3>1, <3>5, ItvLattice
    <3> HIDE DEF itv
    <3>7. (d < int) \in BOOLEAN
      BY <2>1
    <3>8. IsItv(narrowed) /\ (d < int => IntegerItv(narrowed))
      <4> HIDE DEF d
      <4> QED BY <3>6, <3>7, CanonicalizeIs
    <3> HIDE DEF narrowed
    <3> DEFINE q == [s.p EXCEPT ![d] = narrowed]
    <3> HIDE DEF d
    <3>9. /\ q \in [D -> AnyItv] /\ (\A x \in D : q[x] = IF x = d THEN narrowed ELSE s.p[x])
          /\ IsEmptyItv(narrowed) \in BOOLEAN
      <4>1. narrowed \in AnyItv
        BY <3>8, AnyItvIs
      <4>2. IsEmptyItv(narrowed) \in BOOLEAN
        BY DEF IsEmptyItv
      <4> QED BY <2>1, <2>2, <4>1, <4>2
    <3> HIDE DEF q
    <3>10. /\ ~IsEmptyItv(narrowed) => \A x \in D : ~IsEmptyItv(q[x])
           /\ \A x \in D : x < int => IntegerItv(q[x])
      BY <2>2, <3>1, <3>8, <3>9
    <3>11. [p |-> q, change |-> TRUE, empty |-> IsEmptyItv(narrowed)] \in Narrowings(D, int)
      BY <3>9, <3>10, NarrowingsAre
    <3>12. St(k, s) = [p |-> q, change |-> TRUE, empty |-> IsEmptyItv(narrowed)]
      <4> HIDE DEF St
      <4> QED BY <2>3, <2>5 DEF q
    <3> HIDE DEF St
    <3> QED BY <3>11, <3>12
  <2> QED BY <2>4, <2>5
<1>4. \A g : /\ \A k \in 1 .. n : F(g)[k] = St(k, g[k - 1])
             /\ F(g) = [k \in 0 .. n |-> F(g)[k]]
             /\ 0 \in 0 .. n => F(g)[0] = a
  <2> HIDE DEF n, dims
  <2> QED BY <1>1
<1>13. \A k, s : St(k, s) = NarrowStep(c, dims[k], s, int)
  BY DEF NarrowStep
<1>5. \E g : g = F(g)
  <2> HIDE DEF St, F, n, dims
  <2>1. st \in [1 .. n -> [R -> R]]
    BY <1>3
  <2>2. \A k \in 1 .. n : \A x \in R : st[k][x] = St(k, x)
    OBVIOUS
  <2> HIDE DEF st, R, a
  <2>3. PICK g : g \in [0 .. n -> R] /\ Steps(g, a, st, n)
    BY ONLY <1>1, <1>2, <2>1, SomeSequence
  <2>4. \A k \in 0 .. n : g[k] = F(g)[k]
    <3>1. g[0] = F(g)[0]
      BY <1>1, <1>4, <2>3 DEF Steps
    <3>2. ASSUME NEW k \in 1 .. n
          PROVE  g[k] = F(g)[k]
      <4>1. g[k - 1] \in R
        BY <1>1, <2>3
      <4> QED BY <4>1, <1>4, <2>2, <2>3 DEF Steps
    <3> QED BY <1>1, <3>1, <3>2
  <2>5. g = F(g)
    BY <1>4, <2>3, <2>4
  <2> QED BY <2>5
<1>6. step = F(step)
  BY <1>5
<1>7. BoxizeOne(c, env, int) = IF IsFalseCst(c) THEN [p |-> env, change |-> TRUE, empty |-> TRUE] ELSE step[n]
  BY DEF BoxizeOne
<1>14. step = [k \in 0 .. n |-> step[k]]
  <2> HIDE DEF F, step, n
  <2> QED BY <1>4, <1>6
<1> HIDE DEF step
<1>8. step[0] = a /\ \A k \in 1 .. n : step[k] = St(k, step[k - 1])
  <2> HIDE DEF F, St, n, a
  <2> QED BY <1>1, <1>4, <1>6
<1>10. [p |-> env, change |-> TRUE, empty |-> TRUE] \in R
  BY NarrowingsAre
<1> HIDE DEF St, n, a, F, R
<1>9. 0 .. n \subseteq T
  <2>1. 0 \in T
    BY <1>1, <1>2, <1>8
  <2>2. \A i \in 0 .. n - 1 : i \in T => i + 1 \in T
    <3> SUFFICES ASSUME NEW i \in 0 .. n - 1, i \in T PROVE i + 1 \in T
      OBVIOUS
    <3>1. i + 1 \in 1 .. n /\ i + 1 \in 0 .. n /\ (i + 1) - 1 = i
      BY <1>1
    <3> QED BY <3>1, <1>3, <1>8
  <2> HIDE DEF T
  <2> QED BY <1>1, <2>1, <2>2, UpTo
<1>11. step[n] \in R
  BY <1>1, <1>9
<1>12. BoxizeOne(c, env, int) \in R
  BY <1>7, <1>10, <1>11
<1>15. step \in [0 .. n -> R]
  BY <1>9, <1>14
<1>16. ~IsFalseCst(c) =>
         /\ step \in [0 .. n -> R] /\ step[0] = a
         /\ \A k \in 1 .. n : step[k] = NarrowStep(c, dims[k], step[k - 1], int)
         /\ BoxizeOne(c, env, int) = step[n]
  BY <1>7, <1>8, <1>13, <1>15
<1>17. ~IsFalseCst(c) => NarrowSteps(step, c, env, D, int)
  BY <1>16 DEF NarrowSteps, R, n, a
<1> QED BY <1>12, <1>17 DEF R

-----------------------------------------------------------------------------
LEMMA NarrowingGoesOn ==
  ASSUME NEW D, NEW int, NEW s \in Narrowings(D, int)
  PROVE  /\ ~s.empty => [p |-> s.p, change |-> FALSE, empty |-> FALSE] \in Narrowings(D, int)
         /\ \A b \in BOOLEAN : [s EXCEPT !.change = @ \/ b] \in Narrowings(D, int)
<1>1. s \in [p : [D -> AnyItv], change : BOOLEAN, empty : BOOLEAN]
  BY DEF Narrowings
<1>2. /\ ~s.empty => \A x \in D : ~IsEmptyItv(s.p[x])
      /\ \A x \in D : x < int => IntegerItv(s.p[x])
  BY DEF Narrowings
<1>3. s.p \in [D -> AnyItv] /\ s.change \in BOOLEAN /\ s.empty \in BOOLEAN
  BY <1>1
<1>4. ASSUME ~s.empty
      PROVE  [p |-> s.p, change |-> FALSE, empty |-> FALSE] \in Narrowings(D, int)
  <2>1. \A x \in D : ~IsEmptyItv(s.p[x]) /\ (x < int => IntegerItv(s.p[x]))
    BY <1>2, <1>4
  <2>2. ASSUME NEW e \in BOOLEAN
        PROVE  [p |-> s.p, change |-> e, empty |-> e] \in Narrowings(D, int)
    BY <1>3, <2>1, NarrowingsAre
  <2> QED BY <2>2
<1>5. ASSUME NEW b \in BOOLEAN
      PROVE  [s EXCEPT !.change = @ \/ b] \in Narrowings(D, int)
  <2>1. [s EXCEPT !.change = @ \/ b] = [p |-> s.p, change |-> s.change \/ b, empty |-> s.empty]
    BY <1>1
  <2>2. (s.change \/ b) \in BOOLEAN
    OBVIOUS
  <2>3. [p |-> s.p, change |-> s.change \/ b, empty |-> s.empty] \in Narrowings(D, int)
    BY <1>2, <1>3, <2>2, NarrowingsAre
  <2> QED BY <2>1, <2>3
<1> QED BY <1>4, <1>5

PassStep(c, s, int) ==
  IF s.empty \/ c.typ = "DISEQ" THEN s ELSE [BoxizeOne(c, s.p, int) EXCEPT !.change = @ \/ s.change]

(* The states between the constraints of a pass.                           *)
PassSteps(step, cons, env, D, int) ==
  /\ step \in [0 .. Len(cons) -> Narrowings(D, int)]
  /\ step[0] = [p |-> env, change |-> FALSE, empty |-> FALSE]
  /\ \A k \in 1 .. Len(cons) : step[k] = PassStep(cons[k], step[k - 1], int)
  /\ BoxizePass(cons, env, int) = step[Len(cons)]

LEMMA BoxizePassIs ==
  ASSUME NEW D, D \subseteq Nat, IsFiniteSet(D), NEW int \in Nat,
         NEW cons, IsSequence(cons), \A i \in DOMAIN cons : ProperCons(cons[i], D),
         NEW env, [p |-> env, change |-> FALSE, empty |-> FALSE] \in Narrowings(D, int)
  PROVE  /\ BoxizePass(cons, env, int) \in Narrowings(D, int)
         /\ \E step : PassSteps(step, cons, env, D, int)
<1> DEFINE n == Len(cons)
           R == Narrowings(D, int)
           a == [p |-> env, change |-> FALSE, empty |-> FALSE]
           St(k, s) == IF s.empty \/ cons[k].typ = "DISEQ" THEN s
                       ELSE [BoxizeOne(cons[k], s.p, int) EXCEPT !.change = @ \/ s.change]
           st == [k \in 1 .. n |-> [x \in R |-> St(k, x)]]
           F(g) == [k \in 0 .. n |->
                      IF k = 0 THEN [p |-> env, change |-> FALSE, empty |-> FALSE]
                      ELSE LET s == g[k - 1]
                           IN IF s.empty \/ cons[k].typ = "DISEQ" THEN s
                              ELSE [BoxizeOne(cons[k], s.p, int) EXCEPT !.change = @ \/ s.change]]
           step == CHOOSE g : g = F(g)
           T == {k \in 0 .. n : step[k] \in R}
<1>1. n \in Nat /\ \A k \in 1 .. n : k \in 0 .. n /\ k # 0 /\ ProperCons(cons[k], D)
  BY DEF IsSequence
<1>2. a \in R
  OBVIOUS
<1>3. ASSUME NEW k \in 1 .. n, NEW s \in R
      PROVE  St(k, s) \in R
  <2> DEFINE one == BoxizeOne(cons[k], s.p, int)
  <2>1. /\ s.p \in [D -> AnyItv] /\ s.change \in BOOLEAN /\ s.empty \in BOOLEAN
        /\ ~s.empty => \A x \in D : ~IsEmptyItv(s.p[x])
        /\ \A x \in D : x < int => IntegerItv(s.p[x])
    BY DEF Narrowings
  <2>2. St(k, s) = IF s.empty \/ cons[k].typ = "DISEQ" THEN s ELSE [one EXCEPT !.change = @ \/ s.change]
    OBVIOUS
  <2>3. CASE s.empty \/ cons[k].typ = "DISEQ"
    <3> HIDE DEF St, one
    <3> QED BY <2>2, <2>3
  <2>4. CASE ~(s.empty \/ cons[k].typ = "DISEQ")
    <3>1. [p |-> s.p, change |-> FALSE, empty |-> FALSE] \in Narrowings(D, int)
      BY <2>4, NarrowingGoesOn
    <3>2. one \in Narrowings(D, int)
      BY <1>1, <3>1, BoxizeOneIs
    <3> HIDE DEF one, St
    <3>3. [one EXCEPT !.change = @ \/ s.change] \in Narrowings(D, int)
      BY <2>1, <3>2, NarrowingGoesOn
    <3>4. St(k, s) = [one EXCEPT !.change = @ \/ s.change]
      BY <2>2, <2>4
    <3> QED BY <3>3, <3>4
  <2> QED BY <2>3, <2>4
<1>4. \A g : /\ \A k \in 1 .. n : F(g)[k] = St(k, g[k - 1])
             /\ F(g) = [k \in 0 .. n |-> F(g)[k]]
             /\ 0 \in 0 .. n => F(g)[0] = a
  <2> HIDE DEF n
  <2> QED BY <1>1
<1>13. \A k, s : St(k, s) = PassStep(cons[k], s, int)
  BY DEF PassStep
<1>5. \E g : g = F(g)
  <2> HIDE DEF St, F, n
  <2>1. st \in [1 .. n -> [R -> R]]
    BY <1>3
  <2>2. \A k \in 1 .. n : \A x \in R : st[k][x] = St(k, x)
    OBVIOUS
  <2> HIDE DEF st, R, a
  <2>3. PICK g : g \in [0 .. n -> R] /\ Steps(g, a, st, n)
    BY ONLY <1>1, <1>2, <2>1, SomeSequence
  <2>4. \A k \in 0 .. n : g[k] = F(g)[k]
    <3>1. g[0] = F(g)[0]
      BY <1>1, <1>4, <2>3 DEF Steps
    <3>2. ASSUME NEW k \in 1 .. n
          PROVE  g[k] = F(g)[k]
      <4>1. g[k - 1] \in R
        BY <1>1, <2>3
      <4> QED BY <4>1, <1>4, <2>2, <2>3 DEF Steps
    <3> QED BY <1>1, <3>1, <3>2
  <2>5. g = F(g)
    BY <1>4, <2>3, <2>4
  <2> QED BY <2>5
<1>6. step = F(step)
  BY <1>5
<1>7. BoxizePass(cons, env, int) = step[n]
  BY DEF BoxizePass
<1>14. step = [k \in 0 .. n |-> step[k]]
  <2> HIDE DEF F, step, n
  <2> QED BY <1>4, <1>6
<1> HIDE DEF step
<1>8. step[0] = a /\ \A k \in 1 .. n : step[k] = St(k, step[k - 1])
  <2> HIDE DEF F, St, n, a
  <2> QED BY <1>1, <1>4, <1>6
<1> HIDE DEF St, n, a, F, R
<1>9. 0 .. n \subseteq T
  <2>1. 0 \in T
    BY <1>1, <1>2, <1>8
  <2>2. \A i \in 0 .. n - 1 : i \in T => i + 1 \in T
    <3> SUFFICES ASSUME NEW i \in 0 .. n - 1, i \in T PROVE i + 1 \in T
      OBVIOUS
    <3>1. i + 1 \in 1 .. n /\ i + 1 \in 0 .. n /\ (i + 1) - 1 = i
      BY <1>1
    <3> QED BY <3>1, <1>3, <1>8
  <2> HIDE DEF T
  <2> QED BY <1>1, <2>1, <2>2, UpTo
<1>10. step[n] \in R
  BY <1>1, <1>9
<1>11. BoxizePass(cons, env, int) \in R
  BY <1>7, <1>10
<1>15. step \in [0 .. n -> R]
  BY <1>9, <1>14
<1>16. /\ step \in [0 .. n -> R] /\ step[0] = a
       /\ \A k \in 1 .. n : step[k] = PassStep(cons[k], step[k - 1], int)
       /\ BoxizePass(cons, env, int) = step[n]
  BY <1>7, <1>8, <1>13, <1>15
<1>17. PassSteps(step, cons, env, D, int)
  BY <1>16 DEF PassSteps, R, n, a
<1> QED BY <1>11, <1>17 DEF R

LEMMA BoxizeIs ==
  ASSUME NEW D, D \subseteq Nat, IsFiniteSet(D), NEW int \in Nat,
         NEW cons, IsSequence(cons), \A i \in DOMAIN cons : ProperCons(cons[i], D),
         NEW env, [p |-> env, change |-> TRUE, empty |-> FALSE] \in Narrowings(D, int)
  PROVE  /\ Boxize(cons, env, int) \in Narrowings(D, int)
         /\ LET first == BoxizePass(cons, env, int)
            IN Boxize(cons, env, int) = IF first.empty \/ ~first.change THEN first
                                        ELSE BoxizePass(cons, first.p, int)
<1> DEFINE n == Passes
           R == Narrowings(D, int)
           a == [p |-> env, change |-> TRUE, empty |-> FALSE]
           St(k, s) == IF s.empty \/ ~s.change THEN s ELSE BoxizePass(cons, s.p, int)
           st == [k \in 1 .. n |-> [x \in R |-> St(k, x)]]
           F(g) == [k \in 0 .. n |->
                      IF k = 0 THEN [p |-> env, change |-> TRUE, empty |-> FALSE]
                      ELSE IF g[k - 1].empty \/ ~g[k - 1].change THEN g[k - 1]
                      ELSE BoxizePass(cons, g[k - 1].p, int)]
           step == CHOOSE g : g = F(g)
           T == {k \in 0 .. n : step[k] \in R}
<1>1. n \in Nat /\ \A k \in 1 .. n : k \in 0 .. n /\ k # 0
  BY DEF Passes
<1>2. a \in R
  OBVIOUS
<1>3. ASSUME NEW k \in 1 .. n, NEW s \in R
      PROVE  St(k, s) \in R
  <2>1. /\ s.p \in [D -> AnyItv] /\ s.change \in BOOLEAN /\ s.empty \in BOOLEAN
        /\ ~s.empty => \A x \in D : ~IsEmptyItv(s.p[x])
        /\ \A x \in D : x < int => IntegerItv(s.p[x])
    BY DEF Narrowings
  <2>3. CASE s.empty \/ ~s.change
    <3>1. St(k, s) = s
      BY <2>3
    <3> HIDE DEF St
    <3> QED BY <3>1
  <2>4. CASE ~(s.empty \/ ~s.change)
    <3>1. [p |-> s.p, change |-> FALSE, empty |-> FALSE] \in Narrowings(D, int)
      BY <2>4, NarrowingGoesOn
    <3>2. BoxizePass(cons, s.p, int) \in Narrowings(D, int)
      BY <3>1, BoxizePassIs
    <3>3. St(k, s) = BoxizePass(cons, s.p, int)
      BY <2>4
    <3> HIDE DEF St
    <3> QED BY <3>2, <3>3
  <2> QED BY <2>3, <2>4
<1> HIDE DEF n
<1>4. \A g : /\ \A k \in 1 .. n : F(g)[k] = St(k, g[k - 1])
             /\ F(g) = [k \in 0 .. n |-> F(g)[k]]
             /\ 0 \in 0 .. n => F(g)[0] = a
  BY <1>1
<1>5. \E g : g = F(g)
  <2> HIDE DEF St, F
  <2>1. st \in [1 .. n -> [R -> R]]
    BY <1>3
  <2>2. \A k \in 1 .. n : \A x \in R : st[k][x] = St(k, x)
    OBVIOUS
  <2> HIDE DEF st, R, a
  <2>3. PICK g : g \in [0 .. n -> R] /\ Steps(g, a, st, n)
    BY ONLY <1>1, <1>2, <2>1, SomeSequence
  <2>4. \A k \in 0 .. n : g[k] = F(g)[k]
    <3>1. g[0] = F(g)[0]
      BY <1>1, <1>4, <2>3 DEF Steps
    <3>2. ASSUME NEW k \in 1 .. n
          PROVE  g[k] = F(g)[k]
      <4>1. g[k - 1] \in R
        BY <1>1, <2>3
      <4> QED BY <4>1, <1>4, <2>2, <2>3 DEF Steps
    <3> QED BY <1>1, <3>1, <3>2
  <2>5. g = F(g)
    BY <1>4, <2>3, <2>4
  <2> QED BY <2>5
<1>6. step = F(step)
  BY <1>5
<1>7. Boxize(cons, env, int) = step[n]
  BY DEF Boxize, n
<1> HIDE DEF step
<1>8. step[0] = a /\ \A k \in 1 .. n : step[k] = St(k, step[k - 1])
  <2> HIDE DEF F, St, a
  <2> QED BY <1>1, <1>4, <1>6
<1>12. Boxize(cons, env, int) = St(2, St(1, a))
  <2>1. n = 2 /\ 1 \in 1 .. n /\ 2 \in 1 .. n
    BY DEF n, Passes
  <2> HIDE DEF St, a
  <2>2. step[2] = St(2, step[2 - 1]) /\ step[1] = St(1, step[1 - 1])
    BY <1>8, <2>1
  <2> QED BY <1>7, <1>8, <2>1, <2>2
<1>13. St(1, a) = BoxizePass(cons, env, int)
  OBVIOUS
<1>14. \A s : St(2, s) = IF s.empty \/ ~s.change THEN s ELSE BoxizePass(cons, s.p, int)
  OBVIOUS
<1> HIDE DEF St, a, F, R
<1>9. 0 .. n \subseteq T
  <2>1. 0 \in T
    BY <1>1, <1>2, <1>8
  <2>2. \A i \in 0 .. n - 1 : i \in T => i + 1 \in T
    <3> SUFFICES ASSUME NEW i \in 0 .. n - 1, i \in T PROVE i + 1 \in T
      OBVIOUS
    <3>1. i + 1 \in 1 .. n /\ i + 1 \in 0 .. n /\ (i + 1) - 1 = i
      BY <1>1
    <3> QED BY <3>1, <1>3, <1>8
  <2> HIDE DEF T
  <2> QED BY <1>1, <2>1, <2>2, UpTo
<1>10. step[n] \in R
  BY <1>1, <1>9
<1>11. Boxize(cons, env, int) \in R
  BY <1>7, <1>10
<1> QED BY <1>11, <1>12, <1>13, <1>14 DEF R

-----------------------------------------------------------------------------
(* A box that is what its operations take it for: empty with a null array, *)
(* or an interval that is not empty in every dimension, of integers in the *)
(* integer dimensions.                                                     *)
GoodItvs(p, D, int) ==
  /\ p = [d \in D |-> p[d]]
  /\ \A d \in D : Proper(p[d]) /\ (d < int => IntegerItv(p[d]))
GoodBox(a) ==
  /\ a.int \in Nat /\ a.real \in Nat
  /\ a = BoxBottom(a.int, a.real) \/ (a = Box(a.int, a.real, a.p) /\ GoodItvs(a.p, Dims(a), a.int))

LEMMA BoxParts ==
  ASSUME NEW int, NEW real, NEW p
  PROVE  /\ Box(int, real, p).int = int /\ Box(int, real, p).real = real /\ Box(int, real, p).p = p
         /\ ~Box(int, real, p).null /\ Box(int, real, p).null \in BOOLEAN
BY DEF Box

LEMMA EmptyParts ==
  ASSUME NEW int, NEW real
  PROVE  /\ BoxBottom(int, real).int = int /\ BoxBottom(int, real).real = real /\ BoxBottom(int, real).null
         /\ BoxBottom(int, real).null \in BOOLEAN
BY DEF BoxBottom

LEMMA DimsAre ==
  ASSUME NEW a, a.int \in Nat, a.real \in Nat
  PROVE  Dims(a) \subseteq Nat /\ IsFiniteSet(Dims(a)) /\ Cardinality(Dims(a)) = a.int + a.real
<1>1. Dims(a) = 0 .. (a.int + a.real - 1)
  BY DEF Dims
<1>2. a.int + a.real - 1 \in Int /\ 0 \in Int
  OBVIOUS
<1>3. IsFiniteSet(0 .. (a.int + a.real - 1))
  BY <1>2, FS_Interval
<1>4. Cardinality(0 .. (a.int + a.real - 1)) = IF 0 > a.int + a.real - 1 THEN 0 ELSE (a.int + a.real - 1) - 0 + 1
  BY <1>2, FS_Interval
<1>5. Cardinality(0 .. (a.int + a.real - 1)) = a.int + a.real
  BY <1>4
<1> QED BY <1>1, <1>3, <1>5

LEMMA GoodIs ==
  ASSUME NEW a, GoodBox(a)
  PROVE  /\ a.int \in Nat /\ a.real \in Nat /\ a.null \in BOOLEAN
         /\ Dims(a) \subseteq Nat /\ IsFiniteSet(Dims(a))
         /\ Dims(a) = 0 .. (a.int + a.real - 1)
         /\ a.null => a = BoxBottom(a.int, a.real)
         /\ ~a.null => /\ a = Box(a.int, a.real, a.p) /\ GoodItvs(a.p, Dims(a), a.int)
                       /\ ProperEnv(a.p, Dims(a)) /\ DOMAIN a.p = Dims(a)
<1>1. a.int \in Nat /\ a.real \in Nat /\ Dims(a) = 0 .. (a.int + a.real - 1)
  BY DEF GoodBox, Dims
<1>2. Dims(a) \subseteq Nat /\ IsFiniteSet(Dims(a))
  BY <1>1, DimsAre
<1>3. CASE a = BoxBottom(a.int, a.real)
  <2>1. a.null /\ a.null \in BOOLEAN
    BY <1>3, EmptyParts
  <2> QED BY <1>1, <1>2, <1>3, <2>1
<1>4. CASE a = Box(a.int, a.real, a.p) /\ GoodItvs(a.p, Dims(a), a.int)
  <2>1. ~a.null /\ a.null \in BOOLEAN
    <3> DEFINE int == a.int
               real == a.real
               p == a.p
    <3>1. a = Box(int, real, p)
      BY <1>4
    <3> HIDE DEF int, real, p
    <3> QED BY <3>1, BoxParts
  <2>2. DOMAIN a.p = Dims(a) /\ \A d \in Dims(a) : Proper(a.p[d])
    BY <1>4 DEF GoodItvs
  <2>3. ProperEnv(a.p, Dims(a))
    BY <2>2 DEF ProperEnv, Proper
  <2> QED BY <1>1, <1>2, <1>4, <2>1, <2>2, <2>3
<1> QED BY <1>3, <1>4 DEF GoodBox

LEMMA GoodEmpty ==
  ASSUME NEW int \in Nat, NEW real \in Nat
  PROVE  GoodBox(BoxBottom(int, real))
BY EmptyParts DEF GoodBox

LEMMA GoodSetBottom ==
  ASSUME NEW a, GoodBox(a)
  PROVE  GoodBox(SetBottom(a)) /\ Fit(SetBottom(a), a)
<1>1. a.int \in Nat /\ a.real \in Nat
  BY GoodIs
<1>2. GoodBox(BoxBottom(a.int, a.real))
  BY <1>1, GoodEmpty
<1> QED BY <1>2, EmptyParts DEF SetBottom, Fit

LEMMA GoodFull ==
  ASSUME NEW int \in Nat, NEW real \in Nat, NEW p, p = [d \in 0 .. (int + real - 1) |-> p[d]],
         \A d \in 0 .. (int + real - 1) : Proper(p[d]) /\ (d < int => IntegerItv(p[d]))
  PROVE  GoodBox(Box(int, real, p))
<1> DEFINE a == Box(int, real, p)
<1>1. a.int = int /\ a.real = real /\ a.p = p /\ Dims(a) = 0 .. (int + real - 1)
  BY DEF Box, Dims
<1> HIDE DEF a
<1>2. GoodItvs(a.p, Dims(a), a.int)
  BY <1>1 DEF GoodItvs
<1>3. a = Box(a.int, a.real, a.p)
  BY <1>1 DEF a
<1>4. GoodBox(a)
  BY <1>1, <1>2, <1>3 DEF GoodBox
<1> QED BY <1>4 DEF a

LEMMA GoodWith ==
  ASSUME NEW a, GoodBox(a), NEW p, p = [d \in Dims(a) |-> p[d]],
         \A d \in Dims(a) : Proper(p[d]) /\ (d < a.int => IntegerItv(p[d]))
  PROVE  /\ GoodBox(With(a, p)) /\ Fit(With(a, p), a)
         /\ With(a, p).p = p /\ ~With(a, p).null /\ Dims(With(a, p)) = Dims(a)
<1>1. a.int \in Nat /\ a.real \in Nat /\ Dims(a) = 0 .. (a.int + a.real - 1)
  BY GoodIs
<1>2. GoodBox(Box(a.int, a.real, p))
  BY <1>1, GoodFull
<1>3. /\ With(a, p) = Box(a.int, a.real, p) /\ With(a, p).int = a.int /\ With(a, p).real = a.real
      /\ With(a, p).p = p /\ ~With(a, p).null
  BY BoxParts DEF With
<1>4. Dims(With(a, p)) = Dims(a) /\ Fit(With(a, p), a)
  BY <1>3 DEF Dims, Fit
<1> QED BY <1>2, <1>3, <1>4

LEMMA MeetLinconsIsGood ==
  ASSUME NEW a, GoodBox(a), NEW cons, IsSequence(cons), \A k \in DOMAIN cons : ReadyCons(cons[k], Dims(a))
  PROVE  GoodBox(BoxMeetLincons(a, cons)) /\ Fit(BoxMeetLincons(a, cons), a)
<1> DEFINE reduced == [i \in DOMAIN cons |-> ReduceInteger(cons[i], a.int)]
           left == ReduceArray(reduced)
           boxized == Boxize(left, a.p, a.int)
           p == [d \in Dims(a) |-> boxized.p[d]]
           V == {ReduceInteger(cons[i], a.int) : i \in DOMAIN cons}
<1>1. \/ BoxMeetLincons(a, cons) \in {a, SetBottom(a)}
      \/ ~a.null /\ ~boxized.empty /\ BoxMeetLincons(a, cons) = With(a, p)
  <2>1. BoxMeetLincons(a, cons) = IF a.null THEN a
                                  ELSE IF left = <<FalseCons>> THEN SetBottom(a)
                                  ELSE IF boxized.empty THEN SetBottom(a) ELSE With(a, p)
    BY DEF BoxMeetLincons
  <2> HIDE DEF left, boxized, p
  <2> QED BY <2>1
<1>2. BoxMeetLincons(a, cons) \in {a, SetBottom(a)} => GoodBox(BoxMeetLincons(a, cons)) /\ Fit(BoxMeetLincons(a, cons), a)
  BY GoodSetBottom DEF Fit
<1>3. ASSUME ~a.null, ~boxized.empty
      PROVE  GoodBox(With(a, p)) /\ Fit(With(a, p), a)
  <2>1. /\ a.int \in Nat /\ Dims(a) \subseteq Nat /\ IsFiniteSet(Dims(a))
        /\ GoodItvs(a.p, Dims(a), a.int)
    BY <1>3, GoodIs
  <2>2. \A v \in V : ProperCons(v, Dims(a))
    <3> SUFFICES ASSUME NEW i \in DOMAIN cons PROVE ProperCons(ReduceInteger(cons[i], a.int), Dims(a))
      OBVIOUS
    <3> QED BY <2>1, ReduceIntegerIs
  <2>3. reduced \in Seq(V)
    <3> DEFINE n == Len(cons)
    <3>1. n \in Nat /\ DOMAIN cons = 1 .. n
      BY DEF IsSequence
    <3>2. \A i \in 1 .. n : ReduceInteger(cons[i], a.int) \in V
      BY <3>1
    <3>3. reduced = [i \in 1 .. n |-> ReduceInteger(cons[i], a.int)]
      BY <3>1
    <3> HIDE DEF V, reduced, n
    <3> QED BY <3>1, <3>2, <3>3
  <2> HIDE DEF V, reduced
  <2>4. IsSequence(left) /\ \A k \in DOMAIN left : ProperCons(left[k], Dims(a))
    BY <2>2, <2>3, ReduceArrayIs
  <2>5. [p |-> a.p, change |-> TRUE, empty |-> FALSE] \in Narrowings(Dims(a), a.int)
    <3>1. a.p = [d \in Dims(a) |-> a.p[d]] /\ \A d \in Dims(a) : Proper(a.p[d]) /\ (d < a.int => IntegerItv(a.p[d]))
      BY <2>1 DEF GoodItvs
    <3>2. \A d \in Dims(a) : a.p[d] \in AnyItv /\ ~IsEmptyItv(a.p[d])
      BY <3>1, AnyItvIs DEF Proper
    <3>3. a.p \in [Dims(a) -> AnyItv]
      BY <3>1, <3>2
    <3>4. TRUE \in BOOLEAN /\ FALSE \in BOOLEAN
      OBVIOUS
    <3> QED BY <3>1, <3>2, <3>3, <3>4, NarrowingsAre
  <2> HIDE DEF left
  <2>6. boxized \in Narrowings(Dims(a), a.int)
    BY <2>1, <2>4, <2>5, BoxizeIs
  <2> HIDE DEF boxized
  <2>7. \A d \in Dims(a) : boxized.p[d] \in AnyItv /\ ~IsEmptyItv(boxized.p[d]) /\ (d < a.int => IntegerItv(boxized.p[d]))
    BY <1>3, <2>6 DEF Narrowings
  <2>8. \A d \in Dims(a) : Proper(boxized.p[d]) /\ (d < a.int => IntegerItv(boxized.p[d]))
    BY <2>7, AnyItvIs DEF Proper
  <2>9. p = [d \in Dims(a) |-> p[d]] /\ \A d \in Dims(a) : Proper(p[d]) /\ (d < a.int => IntegerItv(p[d]))
    BY <2>8
  <2> HIDE DEF p
  <2> QED BY <2>9, GoodWith
<1> HIDE DEF p, boxized
<1> QED BY <1>1, <1>2, <1>3

-----------------------------------------------------------------------------
(* The operations on boxes keep them good.                                 *)
LEMMA LatticeIsProper ==
  ASSUME NEW a, NEW b, Proper(a), Proper(b)
  PROVE  /\ Proper(ItvJoin(a, b)) /\ Proper(ItvWidening(a, b)) /\ IsItv(ItvMeet(a, b))
         /\ IntegerItv(a) /\ IntegerItv(b) =>
              IntegerItv(ItvJoin(a, b)) /\ IntegerItv(ItvWidening(a, b)) /\ IntegerItv(ItvMeet(a, b))
<1>1. IsItv(a) /\ IsItv(b) /\ IsBound(a.inf) /\ IsBound(a.sup) /\ IsBound(b.inf) /\ IsBound(b.sup)
  BY DEF Proper, IsItv
<1>2. IsItv(ItvMeet(a, b)) /\ IsItv(ItvJoin(a, b)) /\ IsItv(ItvWidening(a, b))
  BY <1>1, ItvLattice
<1>3. PICK q : IsFrac(q) /\ In(q, a)
  BY SomeFrac DEF Proper
<1>4. In(q, ItvJoin(a, b)) /\ In(q, ItvWidening(a, b))
  BY <1>1, <1>3, ItvLattice
<1>5. Proper(ItvJoin(a, b)) /\ Proper(ItvWidening(a, b))
  BY <1>2, <1>3, <1>4, NonEmptyIs DEF Proper
<1>6. ASSUME IntegerItv(a), IntegerItv(b)
      PROVE  IntegerItv(ItvJoin(a, b)) /\ IntegerItv(ItvWidening(a, b)) /\ IntegerItv(ItvMeet(a, b))
  <2>1. Integral(a.inf) /\ Integral(a.sup) /\ Integral(b.inf) /\ Integral(b.sup) /\ Integral(PlusOo)
    BY <1>6, IntegralIs DEF IntegerItv
  <2>2. \A x, y : IsBound(x) /\ IsBound(y) /\ Integral(x) /\ Integral(y) =>
           Integral(BoundMax(x, y)) /\ Integral(BoundMin(x, y)) /\ Integral(BoundWidening(x, y))
    BY <2>1, MinMax DEF BoundWidening
  <2>3. \A x, y : Itv(x, y).inf = x /\ Itv(x, y).sup = y
    BY DEF Itv
  <2>4. /\ ItvJoin(a, b) \in {a, b} \/ ItvJoin(a, b) = Itv(BoundMax(a.inf, b.inf), BoundMax(a.sup, b.sup))
        /\ ItvWidening(a, b) \in {a, b} \/ ItvWidening(a, b) = Itv(BoundWidening(a.inf, b.inf), BoundWidening(a.sup, b.sup))
        /\ ItvMeet(a, b) = Itv(BoundMin(a.inf, b.inf), BoundMin(a.sup, b.sup))
    BY DEF ItvJoin, ItvWidening, ItvMeet
  <2>5. IntegerItv(Itv(BoundMax(a.inf, b.inf), BoundMax(a.sup, b.sup)))
    BY <1>1, <2>1, <2>2, <2>3 DEF IntegerItv
  <2>6. IntegerItv(Itv(BoundWidening(a.inf, b.inf), BoundWidening(a.sup, b.sup)))
    BY <1>1, <2>1, <2>2, <2>3 DEF IntegerItv
  <2>7. IntegerItv(Itv(BoundMin(a.inf, b.inf), BoundMin(a.sup, b.sup)))
    BY <1>1, <2>1, <2>2, <2>3 DEF IntegerItv
  <2> QED BY <1>6, <2>4, <2>5, <2>6, <2>7
<1> QED BY <1>2, <1>5, <1>6

LEMMA ItvTopIsProper == Proper(ItvTop) /\ IntegerItv(ItvTop)
<1>1. IsItv(ItvTop) /\ In(Zero, ItvTop) /\ IsFrac(Zero)
  BY ItvTopIs, ZeroIs
<1>2. ~IsEmptyItv(ItvTop)
  BY <1>1, NonEmptyIs
<1>3. ItvTop.inf = PlusOo /\ ItvTop.sup = PlusOo
  BY DEF ItvTop, Itv
<1> QED BY <1>1, <1>2, <1>3, IntegralIs DEF Proper, IntegerItv

LEMMA ItvIntIsInteger ==
  ASSUME NEW n \in Int
  PROVE  Proper(ItvInt(n)) /\ IntegerItv(ItvInt(n))
<1>1. Proper(ItvInt(n)) /\ ItvInt(n).sup = IntBound(n) /\ ItvInt(n).inf = IntBound(-n) /\ -n \in Int
  BY ItvIntIs
<1> QED BY <1>1, IntegralIs DEF IntegerItv

LEMMA GoodDim ==
  ASSUME NEW a, GoodBox(a), ~a.null, NEW d \in Dims(a)
  PROVE  Proper(a.p[d]) /\ (d < a.int => IntegerItv(a.p[d]))
<1>1. GoodItvs(a.p, Dims(a), a.int)
  BY GoodIs
<1> QED BY <1>1 DEF GoodItvs

LEMMA FitIs ==
  ASSUME NEW a, NEW b, Fit(a, b)
  PROVE  a.int = b.int /\ a.real = b.real /\ Dims(a) = Dims(b)
BY DEF Fit, Dims

LEMMA JoinIsGood ==
  ASSUME NEW a, GoodBox(a), NEW b, GoodBox(b), Fit(a, b)
  PROVE  GoodBox(BoxJoin(a, b)) /\ Fit(BoxJoin(a, b), a)
<1> DEFINE p == [d \in Dims(a) |-> ItvJoin(a.p[d], b.p[d])]
<1>1. BoxJoin(a, b) = IF a.null THEN b ELSE IF b.null THEN a ELSE With(a, p)
  BY DEF BoxJoin
<1>2. Fit(b, a) /\ Fit(a, a)
  BY DEF Fit
<1>3. ASSUME ~a.null, ~b.null
      PROVE  GoodBox(With(a, p)) /\ Fit(With(a, p), a)
  <2>1. ASSUME NEW d \in Dims(a)
        PROVE  Proper(ItvJoin(a.p[d], b.p[d])) /\ (d < a.int => IntegerItv(ItvJoin(a.p[d], b.p[d])))
    <3>1. Proper(a.p[d]) /\ (d < a.int => IntegerItv(a.p[d]))
      BY <1>3, GoodDim
    <3>2. d \in Dims(b) /\ a.int = b.int
      BY FitIs
    <3>3. Proper(b.p[d]) /\ (d < a.int => IntegerItv(b.p[d]))
      BY <1>3, <3>2, GoodDim
    <3> QED BY <3>1, <3>3, LatticeIsProper
  <2>2. p = [d \in Dims(a) |-> p[d]] /\ \A d \in Dims(a) : Proper(p[d]) /\ (d < a.int => IntegerItv(p[d]))
    BY <2>1
  <2> HIDE DEF p
  <2> QED BY <2>2, GoodWith
<1> HIDE DEF p
<1> QED BY <1>1, <1>2, <1>3

LEMMA WideningIsGood ==
  ASSUME NEW a, GoodBox(a), NEW b, GoodBox(b), Fit(a, b), ~WideningCrashes(a, b)
  PROVE  GoodBox(BoxWidening(a, b)) /\ Fit(BoxWidening(a, b), a)
<1> DEFINE p == [d \in Dims(a) |-> ItvWidening(a.p[d], b.p[d])]
<1>1. BoxWidening(a, b) = IF a.null THEN b ELSE With(a, p)
  BY DEF BoxWidening
<1>2. Fit(b, a)
  BY DEF Fit
<1>3. ASSUME ~a.null
      PROVE  GoodBox(With(a, p)) /\ Fit(With(a, p), a)
  <2>1. ASSUME NEW d \in Dims(a)
        PROVE  Proper(ItvWidening(a.p[d], b.p[d])) /\ (d < a.int => IntegerItv(ItvWidening(a.p[d], b.p[d])))
    <3>1. Proper(a.p[d]) /\ (d < a.int => IntegerItv(a.p[d]))
      BY <1>3, GoodDim
    <3>2. d \in Dims(b) /\ a.int = b.int
      BY FitIs
    <3>3. ~b.null
      BY <1>3 DEF WideningCrashes
    <3>4. Proper(b.p[d]) /\ (d < a.int => IntegerItv(b.p[d]))
      BY <3>2, <3>3, GoodDim
    <3> QED BY <3>1, <3>4, LatticeIsProper
  <2>2. p = [d \in Dims(a) |-> p[d]] /\ \A d \in Dims(a) : Proper(p[d]) /\ (d < a.int => IntegerItv(p[d]))
    BY <2>1
  <2> HIDE DEF p
  <2> QED BY <2>2, GoodWith
<1> HIDE DEF p
<1> QED BY <1>1, <1>2, <1>3

LEMMA MeetIsGood ==
  ASSUME NEW a, GoodBox(a), NEW b, GoodBox(b), Fit(a, b)
  PROVE  GoodBox(BoxMeet(a, b)) /\ Fit(BoxMeet(a, b), a)
<1> DEFINE p == [d \in Dims(a) |-> ItvMeet(a.p[d], b.p[d])]
<1>1. \/ BoxMeet(a, b) = SetBottom(a)
      \/ /\ ~a.null /\ ~b.null /\ BoxMeet(a, b) = With(a, p)
         /\ \A d \in Dims(a) : ~IsEmptyItv(p[d])
  BY DEF BoxMeet
<1>2. GoodBox(SetBottom(a)) /\ Fit(SetBottom(a), a)
  BY GoodSetBottom
<1>3. ASSUME ~a.null, ~b.null, \A d \in Dims(a) : ~IsEmptyItv(p[d])
      PROVE  GoodBox(With(a, p)) /\ Fit(With(a, p), a)
  <2>1. ASSUME NEW d \in Dims(a)
        PROVE  IsItv(ItvMeet(a.p[d], b.p[d])) /\ (d < a.int => IntegerItv(ItvMeet(a.p[d], b.p[d])))
    <3>1. Proper(a.p[d]) /\ (d < a.int => IntegerItv(a.p[d]))
      BY <1>3, GoodDim
    <3>2. d \in Dims(b) /\ a.int = b.int
      BY FitIs
    <3>3. Proper(b.p[d]) /\ (d < a.int => IntegerItv(b.p[d]))
      BY <1>3, <3>2, GoodDim
    <3> QED BY <3>1, <3>3, LatticeIsProper
  <2>2. p = [d \in Dims(a) |-> p[d]] /\ \A d \in Dims(a) : IsItv(p[d]) /\ (d < a.int => IntegerItv(p[d]))
    BY <2>1
  <2> HIDE DEF p
  <2>3. \A d \in Dims(a) : Proper(p[d]) /\ (d < a.int => IntegerItv(p[d]))
    BY <1>3, <2>2 DEF Proper
  <2> QED BY <2>2, <2>3, GoodWith
<1> HIDE DEF p
<1> QED BY <1>1, <1>2, <1>3

LEMMA ForgetIsGood ==
  ASSUME NEW a, GoodBox(a), NEW dims, NEW project
  PROVE  GoodBox(BoxForget(a, dims, project)) /\ Fit(BoxForget(a, dims, project), a)
<1> DEFINE p == [d \in Dims(a) |-> IF d \notin dims THEN a.p[d] ELSE IF project THEN ItvInt(0) ELSE ItvTop]
<1>1. BoxForget(a, dims, project) = IF a.null THEN a ELSE With(a, p)
  BY DEF BoxForget
<1>2. ASSUME ~a.null
      PROVE  GoodBox(With(a, p)) /\ Fit(With(a, p), a)
  <2>1. \A d \in Dims(a) : Proper(a.p[d]) /\ (d < a.int => IntegerItv(a.p[d]))
    BY <1>2, GoodDim
  <2>2. Proper(ItvInt(0)) /\ IntegerItv(ItvInt(0)) /\ Proper(ItvTop) /\ IntegerItv(ItvTop)
    BY ItvIntIsInteger, ItvTopIsProper
  <2>3. p = [d \in Dims(a) |-> p[d]] /\ \A d \in Dims(a) : p[d] \in {a.p[d], ItvInt(0), ItvTop}
    OBVIOUS
  <2> HIDE DEF p
  <2>4. \A d \in Dims(a) : Proper(p[d]) /\ (d < a.int => IntegerItv(p[d]))
    BY <2>1, <2>2, <2>3
  <2> QED BY <2>3, <2>4, GoodWith
<1> HIDE DEF p
<1> QED BY <1>1, <1>2 DEF Fit

LEMMA AddRayIsGood ==
  ASSUME NEW a, GoodBox(a), NEW line, NEW ray
  PROVE  GoodBox(BoxAddRay(a, line, ray)) /\ Fit(BoxAddRay(a, line, ray), a)
<1> DEFINE opened(d) ==
             IF d \notin DOMAIN ray \/ ray[d] = 0 THEN a.p[d]
             ELSE Itv(IF ray[d] < 0 \/ line THEN PlusOo ELSE a.p[d].inf,
                      IF ray[d] > 0 \/ line THEN PlusOo ELSE a.p[d].sup)
           p == [d \in Dims(a) |-> opened(d)]
<1>1. BoxAddRay(a, line, ray) = IF a.null THEN a ELSE With(a, p)
  BY DEF BoxAddRay
<1>2. ASSUME ~a.null
      PROVE  GoodBox(With(a, p)) /\ Fit(With(a, p), a)
  <2>1. ASSUME NEW d \in Dims(a)
        PROVE  Proper(opened(d)) /\ (d < a.int => IntegerItv(opened(d)))
    <3> DEFINE x == a.p[d]
    <3>1. Proper(x) /\ (d < a.int => IntegerItv(x))
      BY <1>2, GoodDim
    <3>2. opened(d) = x \/ \E i \in {x.inf, PlusOo}, s \in {x.sup, PlusOo} : opened(d) = Itv(i, s)
      BY DEF opened
    <3> HIDE DEF opened, x
    <3>3. ASSUME NEW i \in {x.inf, PlusOo}, NEW s \in {x.sup, PlusOo}, opened(d) = Itv(i, s)
          PROVE  Proper(opened(d)) /\ (d < a.int => IntegerItv(opened(d)))
      <4>1. IsItv(x) /\ IsBound(x.inf) /\ IsBound(x.sup) /\ IsBound(PlusOo)
        BY <3>1, PlusOoIs DEF Proper, IsItv
      <4>2. IsBound(i) /\ IsBound(s)
        BY <4>1
      <4>3. IsItv(Itv(i, s)) /\ Itv(i, s).inf = i /\ Itv(i, s).sup = s
        BY <4>2, ItvIs
      <4>4. PICK q : IsFrac(q) /\ In(q, x)
        BY <3>1, SomeFrac DEF Proper
      <4>5. In(q, Itv(i, s))
        <5>1. IsFrac(BoundNeg(q))
          BY <4>4, NegIs
        <5>2. AtMost(q, PlusOo) /\ AtMost(BoundNeg(q), PlusOo)
          BY <4>4, <5>1, PlusOoIs
        <5> QED BY <4>3, <4>4, <5>2 DEF In
      <4>6. ~IsEmptyItv(Itv(i, s))
        BY <4>3, <4>4, <4>5, NonEmptyIs
      <4>7. d < a.int => IntegerItv(Itv(i, s))
        BY <3>1, <4>3, IntegralIs DEF IntegerItv
      <4> QED BY <3>3, <4>3, <4>6, <4>7 DEF Proper
    <3> QED BY <3>1, <3>2, <3>3
  <2>2. p = [d \in Dims(a) |-> p[d]] /\ \A d \in Dims(a) : Proper(p[d]) /\ (d < a.int => IntegerItv(p[d]))
    BY <2>1
  <2> HIDE DEF p
  <2> QED BY <2>2, GoodWith
<1> HIDE DEF p
<1> QED BY <1>1, <1>2 DEF Fit

-----------------------------------------------------------------------------
LEMMA AssignIsGood ==
  ASSUME NEW a, GoodBox(a), NEW dims, IsSequence(dims), NEW exprs,
         ~a.null => \A k \in DOMAIN dims :
           /\ dims[k] \in Dims(a) /\ Proper(EvalTexpr(exprs[k], a.p))
           /\ dims[k] < a.int => IntegerItv(EvalTexpr(exprs[k], a.p))
  PROVE  /\ GoodBox(BoxAssignTexpr(a, dims, exprs)) /\ Fit(BoxAssignTexpr(a, dims, exprs), a)
         /\ ~a.null => \E step \in [0 .. Len(dims) -> [Dims(a) -> Itvs]] :
              /\ step[0] = a.p
              /\ \A k \in 1 .. Len(dims) : step[k] = [step[k - 1] EXCEPT ![dims[k]] = EvalTexpr(exprs[k], a.p)]
              /\ BoxAssignTexpr(a, dims, exprs) = With(a, step[Len(dims)])
<1> DEFINE n == Len(dims)
           D == Dims(a)
           Integers(p) == \A d \in D : d < a.int => IntegerItv(p[d])
           R == {p \in [D -> Itvs] : Integers(p)}
           St(k, p) == [p EXCEPT ![dims[k]] = EvalTexpr(exprs[k], a.p)]
           st == [k \in 1 .. n |-> [x \in R |-> St(k, x)]]
           F(g) == [k \in 0 .. n |->
                      IF k = 0 THEN a.p ELSE [g[k - 1] EXCEPT ![dims[k]] = EvalTexpr(exprs[k], a.p)]]
           step == CHOOSE g : g = F(g)
<1>0. BoxAssignTexpr(a, dims, exprs) = IF a.null THEN a ELSE With(a, step[n])
  BY DEF BoxAssignTexpr
<1>1. CASE a.null
  <2> HIDE DEF step
  <2> QED BY <1>0, <1>1 DEF Fit
<1>2. CASE ~a.null
  <2>1. n \in Nat /\ \A k \in 1 .. n : k \in 0 .. n /\ k # 0 /\ k \in DOMAIN dims
    BY DEF IsSequence
  <2>2. a.p \in R
    <3>1. GoodItvs(a.p, D, a.int)
      BY <1>2, GoodIs
    <3>2. a.p = [d \in D |-> a.p[d]] /\ \A d \in D : a.p[d] \in Itvs /\ (d < a.int => IntegerItv(a.p[d]))
      BY <3>1, ItvsAre DEF GoodItvs
    <3> HIDE DEF D
    <3>3. a.p \in [D -> Itvs]
      BY <3>2
    <3> QED BY <3>2, <3>3
  <2>3. ASSUME NEW k \in 1 .. n, NEW p \in R
        PROVE  St(k, p) \in R
    <3> DEFINE e == EvalTexpr(exprs[k], a.p)
               d0 == dims[k]
    <3>1. d0 \in D /\ e \in Itvs /\ (d0 < a.int => IntegerItv(e))
      BY <1>2, <2>1, ItvsAre
    <3>2. St(k, p) = [p EXCEPT ![d0] = e]
      OBVIOUS
    <3>3. p \in [D -> Itvs] /\ \A d \in D : d < a.int => IntegerItv(p[d])
      OBVIOUS
    <3> HIDE DEF D, St, e, d0
    <3>4. [p EXCEPT ![d0] = e] \in [D -> Itvs]
      BY <3>1, <3>3
    <3>5. \A d \in D : d < a.int => IntegerItv([p EXCEPT ![d0] = e][d])
      BY <3>1, <3>3
    <3> QED BY <3>2, <3>4, <3>5
  <2>4. \A g : /\ \A k \in 1 .. n : F(g)[k] = St(k, g[k - 1])
               /\ F(g) = [k \in 0 .. n |-> F(g)[k]]
               /\ 0 \in 0 .. n => F(g)[0] = a.p
    <3> HIDE DEF n
    <3> QED BY <2>1
  <2>5. \E g : g = F(g) /\ g \in [0 .. n -> R]
    <3> HIDE DEF St, F, n
    <3>1. st \in [1 .. n -> [R -> R]]
      BY <2>3
    <3>2. \A k \in 1 .. n : \A x \in R : st[k][x] = St(k, x)
      OBVIOUS
    <3> HIDE DEF st, R
    <3>3. PICK g : g \in [0 .. n -> R] /\ Steps(g, a.p, st, n)
      BY ONLY <2>1, <2>2, <3>1, SomeSequence
    <3>4. \A k \in 0 .. n : g[k] = F(g)[k]
      <4>1. g[0] = F(g)[0]
        BY <2>1, <2>4, <3>3 DEF Steps
      <4>2. ASSUME NEW k \in 1 .. n
            PROVE  g[k] = F(g)[k]
        <5>1. g[k - 1] \in R
          BY <2>1, <3>3
        <5> QED BY <5>1, <2>4, <3>2, <3>3 DEF Steps
      <4> QED BY <2>1, <4>1, <4>2
    <3>5. g = F(g)
      BY <2>4, <3>3, <3>4
    <3> QED BY <3>3, <3>5
  <2>6. step = F(step)
    BY <2>5
  <2>7. BoxAssignTexpr(a, dims, exprs) = With(a, step[n])
    <3> HIDE DEF step
    <3> QED BY <1>0, <1>2
  <2> HIDE DEF step
  <2>8. step[0] = a.p /\ \A k \in 1 .. n : step[k] = St(k, step[k - 1])
    <3> HIDE DEF F, St, n
    <3> QED BY <2>1, <2>4, <2>6
  <2> DEFINE T == {k \in 0 .. n : step[k] \in R}
  <2>9. 0 .. n \subseteq T
    <3> HIDE DEF St, n, F, R
    <3>1. 0 \in T
      BY <2>1, <2>2, <2>8
    <3>2. \A i \in 0 .. n - 1 : i \in T => i + 1 \in T
      <4> SUFFICES ASSUME NEW i \in 0 .. n - 1, i \in T PROVE i + 1 \in T
        OBVIOUS
      <4>1. i + 1 \in 1 .. n /\ i + 1 \in 0 .. n /\ (i + 1) - 1 = i
        BY <2>1
      <4> QED BY <4>1, <2>3, <2>8
    <3> HIDE DEF T
    <3> QED BY <2>1, <3>1, <3>2, UpTo
  <2>10. step = [k \in 0 .. n |-> step[k]]
    <3> HIDE DEF F, n
    <3> QED BY <2>4, <2>6
  <2>11. \A k \in 0 .. n : step[k] \in [D -> Itvs] /\ Integers(step[k])
    BY <2>9
  <2>12. step \in [0 .. n -> [D -> Itvs]]
    <3> HIDE DEF D, n, Integers
    <3> QED BY <2>10, <2>11
  <2>13. \A k \in 1 .. n : step[k] = [step[k - 1] EXCEPT ![dims[k]] = EvalTexpr(exprs[k], a.p)]
    <3> HIDE DEF n, F
    <3> QED BY <2>8
  <2>14. n \in 0 .. n
    <3> HIDE DEF n
    <3> QED BY <2>1
  <2>15. step[n] \in [D -> Itvs] /\ \A d \in D : d < a.int => IntegerItv(step[n][d])
    BY <2>11, <2>14
  <2> DEFINE p == step[n]
  <2>16. p = [d \in Dims(a) |-> p[d]] /\ \A d \in Dims(a) : Proper(p[d]) /\ (d < a.int => IntegerItv(p[d]))
    <3> HIDE DEF p, n
    <3>1. p \in [D -> Itvs] /\ \A d \in D : d < a.int => IntegerItv(p[d])
      BY <2>15 DEF p
    <3> QED BY <3>1, ItvsAre
  <2>17. GoodBox(With(a, p)) /\ Fit(With(a, p), a)
    <3> HIDE DEF p
    <3> QED BY <2>16, GoodWith
  <2> HIDE DEF n, F, D, R
  <2> QED BY <1>2, <2>7, <2>8, <2>12, <2>13, <2>17 DEF n, D
<1> QED BY <1>1, <1>2

LEMMA MeetTconsIsGood ==
  ASSUME NEW a, GoodBox(a), NEW tcons, IsSequence(tcons), NEW uses \in SUBSET Dims(a),
         \A k \in DOMAIN tcons : IsTcons(tcons[k], uses)
  PROVE  GoodBox(BoxMeetTcons(a, tcons)) /\ Fit(BoxMeetTcons(a, tcons), a)
<1> DEFINE cons == LinearizeArray(tcons, a.p, a.int)
<1>1. BoxMeetTcons(a, tcons) = IF a.null THEN a ELSE BoxMeetLincons(a, cons)
  BY DEF BoxMeetTcons
<1>2. ASSUME ~a.null
      PROVE  GoodBox(BoxMeetLincons(a, cons)) /\ Fit(BoxMeetLincons(a, cons), a)
  <2>1. Dims(a) \subseteq Nat /\ IsFiniteSet(Dims(a)) /\ ProperEnv(a.p, Dims(a))
    BY <1>2, GoodIs
  <2>2. uses \subseteq Nat
    BY <2>1
  <2>3. IsFiniteSet(uses)
    BY <2>1, FS_Subset
  <2>4. ProperEnv(a.p, uses)
    BY <2>1 DEF ProperEnv
  <2>5. IsSequence(cons) /\ \A k \in DOMAIN cons : ReadyCons(cons[k], uses)
    BY <2>2, <2>3, <2>4, LinearizeArrayIs
  <2> HIDE DEF cons
  <2>6. \A k \in DOMAIN cons : ReadyCons(cons[k], Dims(a))
    BY <2>5 DEF ReadyCons, ProperCons, ProperLin
  <2> QED BY <2>5, <2>6, MeetLinconsIsGood
<1> HIDE DEF cons
<1> QED BY <1>1, <1>2 DEF Fit

LEMMA ThresholdIsGood ==
  ASSUME NEW a, GoodBox(a), NEW b, GoodBox(b), Fit(a, b), ~WideningCrashes(a, b),
         NEW cons, IsSequence(cons), NEW uses \in SUBSET Dims(a),
         \A k \in DOMAIN cons : IsLincons(cons[k], uses)
  PROVE  GoodBox(WideningThreshold(a, b, cons)) /\ Fit(WideningThreshold(a, b, cons), a)
<1> DEFINE S == {i \in DOMAIN cons : BoxSatLincons(b, cons[i])}
           holds == Ascending(S)
           kept == [k \in DOMAIN holds |-> cons[holds[k]]]
           w == BoxWidening(a, b)
<1>1. WideningThreshold(a, b, cons) = IF holds = << >> THEN w ELSE BoxMeetLincons(w, kept)
  BY DEF WideningThreshold
<1>2. GoodBox(w) /\ Fit(w, a)
  BY WideningIsGood
<1>3. S \in SUBSET Int /\ IsFiniteSet(S) /\ S \subseteq DOMAIN cons
  <2> DEFINE n == Len(cons)
  <2>1. n \in Nat /\ DOMAIN cons = 1 .. n
    BY DEF IsSequence
  <2>2. IsFiniteSet(1 .. n)
    BY <2>1, FS_Interval
  <2>3. S \in SUBSET (1 .. n)
    BY <2>1
  <2> HIDE DEF n, S
  <2>4. IsFiniteSet(S)
    BY <2>2, <2>3, FS_Subset
  <2>5. S \in SUBSET Int
    BY <2>1, <2>3
  <2> QED BY <2>1, <2>3, <2>4, <2>5
<1> HIDE DEF S
<1>4. Len(holds) \in Nat /\ DOMAIN holds = 1 .. Len(holds) /\ \A k \in 1 .. Len(holds) : holds[k] \in S
  BY <1>3, AscendingIs
<1> HIDE DEF holds
<1>5. DOMAIN kept = 1 .. Len(holds)
  BY <1>4
<1>6. IsSequence(kept)
  <2> HIDE DEF kept
  <2> QED BY <1>4, <1>5, SequenceIs
<1>7. \A k \in DOMAIN kept : kept[k] \in {cons[i] : i \in DOMAIN cons}
  BY <1>3, <1>4
<1>8. \A i \in DOMAIN cons : ReadyCons(cons[i], Dims(a))
  <2> SUFFICES ASSUME NEW c, IsLincons(c, uses) PROVE ReadyCons(c, Dims(a))
    OBVIOUS
  <2>1. ProperCons(c, Dims(a))
    BY DEF IsLincons, ProperCons, ProperLin, Proper
  <2>2. c.lin.eq => Bounded(c.lin.cst)
    BY PointBounded DEF IsLincons
  <2> QED BY <2>1, <2>2 DEF ReadyCons
<1> HIDE DEF kept, w
<1>9. \A k \in DOMAIN kept : ReadyCons(kept[k], Dims(w))
  BY <1>2, <1>7, <1>8, FitIs
<1>10. GoodBox(BoxMeetLincons(w, kept)) /\ Fit(BoxMeetLincons(w, kept), w)
  BY <1>2, <1>6, <1>9, MeetLinconsIsGood
<1> QED BY <1>1, <1>2, <1>10 DEF Fit

-----------------------------------------------------------------------------
LEMMA DistinctIs ==
  ASSUME NEW q, Distinct(q)
  PROVE  /\ Len(q) \in Nat /\ DOMAIN q = 1 .. Len(q)
         /\ IsFiniteSet(ToSet(q)) /\ Cardinality(ToSet(q)) = Len(q)
<1> DEFINE n == Len(q)
           f == [i \in 1 .. n |-> q[i]]
<1>1. n \in Nat /\ DOMAIN q = 1 .. n /\ \A i, j \in 1 .. n : q[i] = q[j] => i = j
  BY DEF Distinct, IsSequence, IsInjective
<1>2. ToSet(q) = {q[i] : i \in 1 .. n}
  BY <1>1 DEF ToSet
<1> HIDE DEF n
<1>3. f \in [1 .. n -> ToSet(q)]
  BY <1>2
<1>4. IsInjective(f)
  BY <1>1 DEF IsInjective
<1>5. f \in Bijection(1 .. n, ToSet(q))
  BY <1>2, <1>3, <1>4 DEF Bijection, Injection, Surjection
<1>6. IsFiniteSet(1 .. n) /\ Cardinality(1 .. n) = n
  <2>1. IsFiniteSet(1 .. n) /\ Cardinality(1 .. n) = IF 1 > n THEN 0 ELSE n - 1 + 1
    BY <1>1, FS_Interval
  <2> QED BY <1>1, <2>1
<1>7. ExistsBijection(1 .. n, ToSet(q))
  BY <1>5 DEF ExistsBijection
<1>8. IsFiniteSet(ToSet(q)) /\ Cardinality(ToSet(q)) = Cardinality(1 .. n)
  BY <1>6, <1>7, FS_Bijection
<1> QED BY <1>1, <1>6, <1>8 DEF n

LEMMA CountUpTo ==
  ASSUME NEW n \in Nat
  PROVE  /\ IsFiniteSet(1 .. n) /\ Cardinality(1 .. n) = n
         /\ IsFiniteSet(0 .. n - 1) /\ Cardinality(0 .. n - 1) = n
<1>1. IsFiniteSet(1 .. n) /\ Cardinality(1 .. n) = IF 1 > n THEN 0 ELSE n - 1 + 1
  BY FS_Interval
<1>2. n - 1 \in Int
  OBVIOUS
<1>3. IsFiniteSet(0 .. n - 1) /\ Cardinality(0 .. n - 1) = IF 0 > n - 1 THEN 0 ELSE (n - 1) - 0 + 1
  BY <1>2, FS_Interval
<1> QED BY <1>1, <1>3

LEMMA ShiftIs ==
  ASSUME NEW change, IsSequence(change), NEW int \in Nat, NEW ints \in 0 .. Len(change),
         \A k \in DOMAIN change : change[k] \in Nat, \A k \in 1 .. ints : change[k] <= int, NEW i \in Nat
  PROVE  /\ Shift(change, i) \in 0 .. Len(change)
         /\ i >= int => Shift(change, i) >= ints
<1> DEFINE n == Len(change)
           T == {k \in DOMAIN change : change[k] <= i}
<1>1. n \in Nat /\ DOMAIN change = 1 .. n /\ ints \in Nat /\ ints <= n
  BY DEF IsSequence
<1>2. T \in SUBSET (1 .. n)
  BY <1>1
<1>3. IsFiniteSet(1 .. n) /\ Cardinality(1 .. n) = n
  BY <1>1, CountUpTo
<1> HIDE DEF n
<1>4. ASSUME i >= int
      PROVE  1 .. ints \in SUBSET T
  BY <1>1, <1>4
<1> HIDE DEF T
<1>5. IsFiniteSet(T) /\ Cardinality(T) <= Cardinality(1 .. n)
  BY <1>2, <1>3, FS_Subset
<1>6. Cardinality(T) \in Nat
  BY <1>5, FS_CardinalityType
<1>7. Shift(change, i) = Cardinality(T)
  BY DEF Shift, T
<1>8. ASSUME i >= int
      PROVE  Cardinality(T) >= ints
  <2>1. Cardinality(1 .. ints) <= Cardinality(T)
    BY <1>4, <1>5, <1>8, FS_Subset
  <2>2. Cardinality(1 .. ints) = ints
    BY <1>1, CountUpTo
  <2> QED BY <1>1, <1>6, <2>1, <2>2
<1> QED BY <1>1, <1>3, <1>5, <1>6, <1>7, <1>8 DEF n

LEMMA AddedDims ==
  ASSUME NEW i \in Nat, NEW r \in Nat, NEW c \in Nat, NEW k \in Nat, k <= c
  PROVE  i + k \in Nat /\ r + c - k \in Nat /\ i + k + (r + c - k) - 1 = i + r + c - 1
OBVIOUS

LEMMA AddIsGood ==
  ASSUME NEW a, GoodBox(a), NEW change, IsSequence(change), NEW ints \in 0 .. Len(change),
         \A k \in DOMAIN change : change[k] \in 0 .. (a.int + a.real),
         \A k \in 1 .. ints : change[k] <= a.int, NEW project
  PROVE  /\ GoodBox(BoxAddDimensions(a, change, ints, project))
         /\ BoxAddDimensions(a, change, ints, project).int = a.int + ints
         /\ BoxAddDimensions(a, change, ints, project).real = a.real + Len(change) - ints
         /\ BoxAddDimensions(a, change, ints, project).null <=> a.null
<1> DEFINE n == a.int + a.real + Len(change)
           moved == {<<i + Shift(change, i), i>> : i \in Dims(a)}
           fresh == IF project THEN ItvInt(0) ELSE ItvTop
           value(d) == IF \E m \in moved : m[1] = d THEN a.p[(CHOOSE m \in moved : m[1] = d)[2]] ELSE fresh
           p == [d \in 0 .. (n - 1) |-> value(d)]
           int == a.int + ints
           real == a.real + Len(change) - ints
<1>1. BoxAddDimensions(a, change, ints, project) = IF a.null THEN BoxBottom(int, real) ELSE Box(int, real, p)
  BY DEF BoxAddDimensions
<1>2. /\ a.int \in Nat /\ a.real \in Nat /\ a.null \in BOOLEAN /\ Dims(a) = 0 .. (a.int + a.real - 1)
      /\ Len(change) \in Nat /\ ints \in Nat /\ ints <= Len(change)
  BY GoodIs DEF IsSequence
<1>3. int \in Nat /\ real \in Nat /\ int + real - 1 = n - 1
  BY ONLY <1>2, AddedDims, SMTT(30) DEF int, real, n
<1>4. ASSUME ~a.null
      PROVE  GoodBox(Box(int, real, p))
  <2>1. ASSUME NEW d \in 0 .. (n - 1)
        PROVE  Proper(value(d)) /\ (d < int => IntegerItv(value(d)))
    <3>1. CASE \E m \in moved : m[1] = d
      <4> DEFINE c == CHOOSE m \in moved : m[1] = d
      <4>1. c \in moved /\ c[1] = d
        BY <3>1
      <4>2. value(d) = a.p[c[2]]
        BY <3>1
      <4> HIDE DEF c, value
      <4>3. PICK i \in Dims(a) : c = <<i + Shift(change, i), i>>
        BY <4>1
      <4>4. c[2] = i /\ d = i + Shift(change, i)
        BY <4>1, <4>3
      <4>5. Proper(a.p[i]) /\ (i < a.int => IntegerItv(a.p[i]))
        BY <1>4, GoodDim
      <4>6. i \in Nat /\ \A k \in DOMAIN change : change[k] \in Nat
        BY <1>2
      <4>7. Shift(change, i) \in 0 .. Len(change) /\ (i >= a.int => Shift(change, i) >= ints)
        BY <1>2, <4>6, ShiftIs
      <4>8. d < int => i < a.int
        BY <1>2, <4>4, <4>6, <4>7
      <4> HIDE DEF int
      <4> QED BY <4>2, <4>4, <4>5, <4>8
    <3>2. CASE ~\E m \in moved : m[1] = d
      <4>1. value(d) = fresh
        BY <3>2
      <4>2. Proper(fresh) /\ IntegerItv(fresh)
        BY ItvIntIsInteger, ItvTopIsProper
      <4> HIDE DEF value, fresh
      <4> QED BY <4>1, <4>2
    <3> QED BY <3>1, <3>2
  <2>2. p = [d \in 0 .. (n - 1) |-> p[d]] /\ \A d \in 0 .. (n - 1) : Proper(p[d]) /\ (d < int => IntegerItv(p[d]))
    BY <2>1
  <2> HIDE DEF p, int, real, n
  <2>3. p = [d \in 0 .. (int + real - 1) |-> p[d]] /\ \A d \in 0 .. (int + real - 1) : Proper(p[d]) /\ (d < int => IntegerItv(p[d]))
    BY <1>3, <2>2
  <2> QED BY <1>3, <2>3, GoodFull
<1>5. GoodBox(BoxBottom(int, real))
  BY <1>3, GoodEmpty
<1> DEFINE r == BoxAddDimensions(a, change, ints, project)
<1> HIDE DEF p, r
<1>6. GoodBox(r)
  BY <1>1, <1>4, <1>5 DEF r
<1>7. r.int = int /\ r.real = real
  <2> HIDE DEF int, real
  <2> QED BY <1>1, BoxParts, EmptyParts DEF r
<1>8. r.null <=> a.null
  <2> HIDE DEF int, real
  <2>1. CASE a.null
    BY <1>1, <1>2, <2>1, EmptyParts DEF r
  <2>2. CASE ~a.null
    BY <1>1, <1>2, <2>2, BoxParts DEF r
  <2> QED BY <1>2, <2>1, <2>2
<1> QED BY <1>6, <1>7, <1>8 DEF r

-----------------------------------------------------------------------------
LEMMA RemoveIsGood ==
  ASSUME NEW a, GoodBox(a), NEW change, Distinct(change), ToSet(change) \subseteq Dims(a), NEW ints,
         ints = Cardinality(ToSet(change) \intersect (0 .. a.int - 1))
  PROVE  GoodBox(BoxRemoveDimensions(a, change, ints))
<1> DEFINE All == Dims(a)
           Ints == 0 .. a.int - 1
           gone == ToSet(change)
           stay == All \ gone
           int == a.int - ints
           real == a.real - (Len(change) - ints)
           p == [d \in 0 .. (Cardinality(stay) - 1) |-> a.p[Nth(d, stay)]]
<1>1. BoxRemoveDimensions(a, change, ints) = IF a.null THEN BoxBottom(int, real) ELSE Box(int, real, p)
  BY DEF BoxRemoveDimensions
<1>2. /\ a.int \in Nat /\ a.real \in Nat /\ a.null \in BOOLEAN /\ All = 0 .. (a.int + a.real - 1)
      /\ IsFiniteSet(All) /\ Cardinality(All) = a.int + a.real
  BY GoodIs, DimsAre
<1>3. /\ Len(change) \in Nat /\ IsFiniteSet(gone) /\ Cardinality(gone) = Len(change)
  BY DistinctIs
<1>4. IsFiniteSet(Ints) /\ Cardinality(Ints) = a.int
  BY <1>2, CountUpTo
<1>5. gone \subseteq All /\ ints = Cardinality(gone \intersect Ints) /\ Ints \subseteq All
  BY <1>2
<1>6. stay \in SUBSET All
  OBVIOUS
<1> HIDE DEF All, Ints, gone, stay
<1>7. IsFiniteSet(stay) /\ Cardinality(stay) = a.int + a.real - Len(change)
  <2>1. IsFiniteSet(All \ gone) /\ Cardinality(All \ gone) = Cardinality(All) - Cardinality(All \intersect gone)
    BY <1>2, FS_Difference
  <2>2. All \intersect gone = gone
    BY <1>5
  <2>3. Cardinality(All \intersect gone) = Cardinality(gone)
    BY <2>2
  <2>4. IsFiniteSet(stay) /\ Cardinality(stay) = Cardinality(All) - Cardinality(All \intersect gone)
    BY <2>1 DEF stay
  <2> QED BY <1>2, <1>3, <2>3, <2>4
<1>8. ints \in Nat /\ Cardinality(Ints \ gone) = a.int - ints /\ IsFiniteSet(Ints \ gone)
  <2>1. IsFiniteSet(Ints \ gone) /\ Cardinality(Ints \ gone) = Cardinality(Ints) - Cardinality(Ints \intersect gone)
    BY <1>4, FS_Difference
  <2>2. Ints \intersect gone = gone \intersect Ints
    OBVIOUS
  <2>3. IsFiniteSet(gone \intersect Ints)
    BY <1>3, FS_Intersection
  <2>4. Cardinality(gone \intersect Ints) \in Nat
    BY <2>3, FS_CardinalityType
  <2> QED BY <1>4, <1>5, <2>1, <2>2, <2>4
<1>9. int \in Nat
  <2>1. Cardinality(Ints \ gone) \in Nat
    BY <1>8, FS_CardinalityType
  <2> QED BY <1>8, <2>1
<1>10. real \in Nat
  <2> DEFINE Reals == All \ Ints
             Left == Reals \ gone
  <2>1. IsFiniteSet(All \ Ints) /\ Cardinality(All \ Ints) = Cardinality(All) - Cardinality(All \intersect Ints)
    BY <1>2, FS_Difference
  <2>2. All \intersect Ints = Ints
    BY <1>5
  <2>8. Cardinality(All \intersect Ints) = Cardinality(Ints)
    BY <2>2
  <2>3. IsFiniteSet(Reals) /\ Cardinality(Reals) = a.real
    BY <1>2, <1>4, <2>1, <2>8
  <2>4. IsFiniteSet(gone \ Ints) /\ Cardinality(gone \ Ints) = Cardinality(gone) - Cardinality(gone \intersect Ints)
    BY <1>3, FS_Difference
  <2>5. gone \ Ints \in SUBSET Reals
    BY <1>5
  <2> HIDE DEF Reals
  <2>6. Cardinality(gone \ Ints) <= Cardinality(Reals)
    BY <2>3, <2>5, FS_Subset
  <2>7. Cardinality(gone \ Ints) \in Nat
    BY <2>4, FS_CardinalityType
  <2> QED BY <1>2, <1>3, <1>5, <1>8, <2>3, <2>4, <2>6, <2>7
<1>11. Cardinality(stay) = int + real
  BY <1>2, <1>3, <1>7, <1>8
<1>12. stay \in SUBSET Int
  BY <1>2, <1>6
<1>13. ASSUME ~a.null
       PROVE  GoodBox(Box(int, real, p))
  <2>1. ASSUME NEW d \in 0 .. (Cardinality(stay) - 1)
        PROVE  Proper(a.p[Nth(d, stay)]) /\ (d < int => IntegerItv(a.p[Nth(d, stay)]))
    <3> DEFINE i == Nth(d, stay)
    <3>1. i \in stay /\ Rank(i, stay) = d
      BY <1>7, <1>12, RankAndNth
    <3> HIDE DEF i
    <3>2. i \in All
      BY <1>6, <3>1
    <3>3. Proper(a.p[i]) /\ (i < a.int => IntegerItv(a.p[i]))
      BY <1>13, <3>2, GoodDim DEF All
    <3>4. ASSUME i >= a.int
          PROVE  d >= int
      <4> DEFINE low == {j \in stay : j < i}
      <4>1. Ints \ gone \in SUBSET low
        <5> SUFFICES ASSUME NEW j \in Ints, j \notin gone PROVE j \in stay /\ j < i
          BY DEF low
        <5>1. j \in All /\ j < a.int
          BY <1>2, <1>5 DEF Ints
        <5> QED BY <1>2, <3>2, <3>4, <5>1 DEF stay
      <4>2. low \in SUBSET stay
        OBVIOUS
      <4> HIDE DEF low
      <4>3. IsFiniteSet(low)
        BY <1>7, <4>2, FS_Subset
      <4>4. Cardinality(Ints \ gone) <= Cardinality(low)
        BY <4>1, <4>3, FS_Subset
      <4>5. d = Cardinality(low)
        BY <3>1 DEF Rank, low
      <4> QED BY <1>8, <4>4, <4>5
    <3>5. d < int => i < a.int
      <4>1. d \in Int
        OBVIOUS
      <4>2. i \in Int
        BY <1>2, <3>2
      <4> HIDE DEF int
      <4> QED BY <1>2, <1>9, <3>4, <4>1, <4>2
    <3> HIDE DEF int
    <3>6. Proper(a.p[i]) /\ (d < int => IntegerItv(a.p[i]))
      BY <3>3, <3>5
    <3> QED BY <3>6 DEF i
  <2>2. p = [d \in 0 .. (Cardinality(stay) - 1) |-> p[d]]
    OBVIOUS
  <2>3. \A d \in 0 .. (Cardinality(stay) - 1) : Proper(p[d]) /\ (d < int => IntegerItv(p[d]))
    BY <2>1
  <2> HIDE DEF p, int, real
  <2> DEFINE m == Cardinality(stay) - 1
  <2>5. m = int + real - 1
    BY <1>9, <1>10, <1>11
  <2>6. p = [d \in 0 .. m |-> p[d]] /\ \A d \in 0 .. m : Proper(p[d]) /\ (d < int => IntegerItv(p[d]))
    BY <2>2, <2>3
  <2> HIDE DEF m
  <2>4. p = [d \in 0 .. (int + real - 1) |-> p[d]] /\ \A d \in 0 .. (int + real - 1) : Proper(p[d]) /\ (d < int => IntegerItv(p[d]))
    BY <2>5, <2>6
  <2> QED BY <1>9, <1>10, <2>4, GoodFull
<1>14. GoodBox(BoxBottom(int, real))
  BY <1>9, <1>10, GoodEmpty
<1> HIDE DEF p, int, real
<1> QED BY <1>1, <1>13, <1>14

LEMMA PermuteIsGood ==
  ASSUME NEW a, GoodBox(a), NEW perm \in Bijection(Dims(a), Dims(a)),
         \A d \in Dims(a) : perm[d] \in 0 .. a.int - 1 <=> d \in 0 .. a.int - 1
  PROVE  GoodBox(BoxPermute(a, perm)) /\ Fit(BoxPermute(a, perm), a)
<1> DEFINE from(d) == CHOOSE i \in Dims(a) : perm[i] = d
           p == [d \in Dims(a) |-> a.p[from(d)]]
<1>1. BoxPermute(a, perm) = IF a.null THEN a ELSE With(a, p)
  BY DEF BoxPermute
<1>2. ASSUME ~a.null
      PROVE  GoodBox(With(a, p)) /\ Fit(With(a, p), a)
  <2>1. ASSUME NEW d \in Dims(a)
        PROVE  Proper(a.p[from(d)]) /\ (d < a.int => IntegerItv(a.p[from(d)]))
    <3>1. \E i \in Dims(a) : perm[i] = d
      BY DEF Bijection, Surjection
    <3>2. from(d) \in Dims(a) /\ perm[from(d)] = d
      BY <3>1
    <3> HIDE DEF from
    <3>3. a.int \in Nat /\ Dims(a) \subseteq Nat
      BY GoodIs
    <3>4. d < a.int => from(d) < a.int
      BY <3>2, <3>3
    <3> QED BY <1>2, <3>2, <3>4, GoodDim
  <2>2. p = [d \in Dims(a) |-> p[d]] /\ \A d \in Dims(a) : Proper(p[d]) /\ (d < a.int => IntegerItv(p[d]))
    BY <2>1
  <2> HIDE DEF p
  <2> QED BY <2>2, GoodWith
<1> HIDE DEF p
<1> QED BY <1>1, <1>2 DEF Fit

-----------------------------------------------------------------------------
LEMMA ExpandIsGood ==
  ASSUME NEW a, GoodBox(a), NEW dim \in Dims(a), NEW n \in Nat
  PROVE  GoodBox(BoxExpand(a, dim, n))
<1> DEFINE ints == IF dim < a.int THEN n ELSE 0
           offset == IF dim < a.int THEN a.int ELSE a.int + a.real
           change == [k \in 1 .. n |-> offset]
           wide == BoxAddDimensions(a, change, ints, FALSE)
           p == [d \in Dims(wide) |-> IF d \in offset .. (offset + n - 1) THEN wide.p[dim] ELSE wide.p[d]]
<1>1. BoxExpand(a, dim, n) = IF a.null THEN BoxBottom(a.int + ints, a.real + n - ints) ELSE With(wide, p)
  BY DEF BoxExpand
<1>2. a.int \in Nat /\ a.real \in Nat /\ a.null \in BOOLEAN /\ Dims(a) = 0 .. (a.int + a.real - 1)
  BY GoodIs
<1>3. ints \in Nat /\ ints <= n /\ offset \in 0 .. (a.int + a.real) /\ (ints > 0 => offset <= a.int)
      /\ a.int + ints \in Nat /\ a.real + n - ints \in Nat
  BY <1>2
<1>4. GoodBox(BoxBottom(a.int + ints, a.real + n - ints))
  <2> HIDE DEF ints
  <2> QED BY <1>3, GoodEmpty
<1>5. ASSUME ~a.null
      PROVE  GoodBox(With(wide, p))
  <2>1. DOMAIN change = 1 .. n /\ \A k \in 1 .. n : change[k] = offset
    OBVIOUS
  <2> HIDE DEF change
  <2>2. IsSequence(change) /\ Len(change) = n
    BY <2>1, SequenceIs
  <2>3. ints \in 0 .. Len(change)
    BY <1>3, <2>2
  <2>4. \A k \in DOMAIN change : change[k] \in 0 .. (a.int + a.real)
    BY <1>3, <2>1
  <2>5. \A k \in 1 .. ints : change[k] <= a.int
    <3> HIDE DEF ints, offset
    <3> QED BY <1>3, <2>1
  <2>6. GoodBox(wide) /\ wide.int = a.int + ints /\ wide.real = a.real + n - ints /\ ~wide.null
    <3> HIDE DEF ints, offset
    <3>1. \A project :
            LET w == BoxAddDimensions(a, change, ints, project)
            IN GoodBox(w) /\ w.int = a.int + ints /\ w.real = a.real + Len(change) - ints /\ (w.null <=> a.null)
      <4> SUFFICES ASSUME NEW project
                   PROVE  LET w == BoxAddDimensions(a, change, ints, project)
                          IN GoodBox(w) /\ w.int = a.int + ints /\ w.real = a.real + Len(change) - ints /\ (w.null <=> a.null)
        OBVIOUS
      <4>1. /\ GoodBox(BoxAddDimensions(a, change, ints, project))
            /\ BoxAddDimensions(a, change, ints, project).int = a.int + ints
            /\ BoxAddDimensions(a, change, ints, project).real = a.real + Len(change) - ints
            /\ BoxAddDimensions(a, change, ints, project).null <=> a.null
        BY ONLY GoodBox(a), <2>2, <2>3, <2>4, <2>5, AddIsGood
      <4> QED BY <4>1
    <3>2. GoodBox(wide) /\ wide.int = a.int + ints /\ wide.real = a.real + Len(change) - ints /\ (wide.null <=> a.null)
      BY <3>1
    <3> HIDE DEF wide
    <3> QED BY <1>5, <2>2, <3>2
  <2>7. dim \in Dims(wide)
    <3> HIDE DEF wide
    <3>1. Dims(wide) = 0 .. (wide.int + wide.real - 1)
      BY DEF Dims
    <3> HIDE DEF ints
    <3>4. wide.int = a.int + ints /\ wide.real = a.real + n - ints
      BY <2>6
    <3>5. (a.int + ints) + (a.real + n - ints) - 1 = a.int + a.real + n - 1
      <4>1. \A x, y, z, u \in Int : (x + y) + (z + u - y) - 1 = x + z + u - 1
        OBVIOUS
      <4>2. a.int \in Int /\ ints \in Int /\ a.real \in Int /\ n \in Int
        BY <1>2, <1>3
      <4> QED BY <4>1, <4>2
    <3>2. wide.int + wide.real - 1 = a.int + a.real + n - 1
      BY <3>4, <3>5
    <3>3. dim \in 0 .. (a.int + a.real + n - 1)
      BY <1>2
    <3> QED BY <3>1, <3>2, <3>3
  <2>8. ASSUME NEW d \in Dims(wide)
        PROVE  LET v == IF d \in offset .. (offset + n - 1) THEN wide.p[dim] ELSE wide.p[d]
               IN Proper(v) /\ (d < wide.int => IntegerItv(v))
    <3>1. Proper(wide.p[d]) /\ (d < wide.int => IntegerItv(wide.p[d]))
      BY <2>6, GoodDim
    <3>2. Proper(wide.p[dim]) /\ (dim < wide.int => IntegerItv(wide.p[dim]))
      BY <2>6, <2>7, GoodDim
    <3>3. d \in offset .. (offset + n - 1) /\ d < wide.int => dim < wide.int
      <4> HIDE DEF wide
      <4> QED BY <1>2, <1>3, <2>6
    <3> HIDE DEF wide, offset
    <3> QED BY <3>1, <3>2, <3>3
  <2> HIDE DEF wide, offset
  <2>9. p = [d \in Dims(wide) |-> p[d]] /\ \A d \in Dims(wide) : Proper(p[d]) /\ (d < wide.int => IntegerItv(p[d]))
    BY <2>8
  <2> HIDE DEF p
  <2> QED BY <2>6, <2>9, GoodWith
<1> HIDE DEF p, ints, wide
<1> QED BY <1>1, <1>4, <1>5

LEMMA FoldIsGood ==
  ASSUME NEW a, GoodBox(a), NEW tdim \in Seq(Nat), Distinct(tdim), Len(tdim) > 0,
         \/ ToSet(tdim) \subseteq 0 .. a.int - 1
         \/ ToSet(tdim) \subseteq Dims(a) \ (0 .. a.int - 1)
  PROVE  /\ GoodBox(BoxFold(a, tdim))
         /\ ~a.null => \E joined \in [1 .. Len(tdim) -> Itvs] :
              /\ joined[1] = a.p[tdim[1]]
              /\ \A k \in 2 .. Len(tdim) : joined[k] = ItvJoin(joined[k - 1], a.p[tdim[k]])
              /\ BoxFold(a, tdim) =
                   BoxRemoveDimensions(With(a, [a.p EXCEPT ![tdim[1]] = joined[Len(tdim)]]), Tail(tdim),
                                       IF tdim[1] < a.int THEN Len(tdim) - 1 ELSE 0)
<1> DEFINE n == Len(tdim)
           D == Dims(a)
           first == tdim[1]
           ints == IF first < a.int THEN n - 1 ELSE 0
           F(g) == [k \in 1 .. n |-> IF k = 1 THEN a.p[tdim[1]] ELSE ItvJoin(g[k - 1], a.p[tdim[k]])]
           joined == CHOOSE g : g = F(g)
           q == [a.p EXCEPT ![tdim[1]] = joined[n]]
           rest == Tail(tdim)
           Ints == 0 .. a.int - 1
<1>0. BoxFold(a, tdim) = IF a.null THEN BoxBottom(a.int - ints, a.real - (n - 1 - ints))
                         ELSE BoxRemoveDimensions(With(a, q), rest, ints)
  BY DEF BoxFold
<1>1. a.int \in Nat /\ a.real \in Nat /\ a.null \in BOOLEAN /\ D = 0 .. (a.int + a.real - 1) /\ IsFiniteSet(D)
      /\ Cardinality(D) = a.int + a.real
  BY GoodIs, DimsAre
<1>2. /\ n \in Nat /\ n > 0 /\ DOMAIN tdim = 1 .. n /\ (\A k \in 1 .. n : tdim[k] \in ToSet(tdim))
      /\ (\A i, j \in 1 .. n : tdim[i] = tdim[j] => i = j)
      /\ IsFiniteSet(ToSet(tdim)) /\ Cardinality(ToSet(tdim)) = n
  BY DistinctIs DEF ToSet, Distinct, IsInjective
<1>3. /\ ToSet(tdim) \subseteq D /\ first \in ToSet(tdim)
      /\ first < a.int <=> ToSet(tdim) \subseteq Ints
      /\ first >= a.int <=> ToSet(tdim) \intersect Ints = {}
  BY <1>1, <1>2
<1>4. /\ Len(rest) = n - 1 /\ DOMAIN rest = 1 .. n - 1 /\ (\A i \in 1 .. n - 1 : rest[i] = tdim[i + 1])
      /\ rest \in Seq(Nat)
  BY <1>2
<1> HIDE DEF rest
<1>5. Distinct(rest) /\ ToSet(rest) \subseteq ToSet(tdim)
  <2>1. \A i \in 1 .. n - 1 : i + 1 \in 1 .. n
    BY <1>2
  <2>2. IsSequence(rest)
    BY <1>2, <1>4 DEF IsSequence
  <2>3. \A i, j \in DOMAIN rest : rest[i] = rest[j] => i = j
    <3> SUFFICES ASSUME NEW i \in 1 .. n - 1, NEW j \in 1 .. n - 1, tdim[i + 1] = tdim[j + 1]
                 PROVE  i = j
      BY <1>4
    <3>1. i + 1 = j + 1
      BY <1>2, <2>1
    <3> QED BY <1>2, <3>1
  <2>4. ToSet(rest) \subseteq ToSet(tdim)
    <3> HIDE DEF n
    <3> QED BY <1>2, <1>4, <2>1 DEF ToSet
  <2> QED BY <2>2, <2>3, <2>4 DEF Distinct, IsInjective
<1>6. ints \in Nat /\ ints = Cardinality(ToSet(rest) \intersect Ints)
  <2>1. Cardinality(ToSet(rest)) = n - 1
    BY <1>4, <1>5, DistinctIs
  <2>2. CASE first < a.int
    <3>1. ToSet(rest) \intersect Ints = ToSet(rest)
      BY <1>3, <1>5, <2>2
    <3>2. Cardinality(ToSet(rest) \intersect Ints) = Cardinality(ToSet(rest))
      BY <3>1
    <3> QED BY <1>2, <2>1, <2>2, <3>2
  <2>3. CASE ~(first < a.int)
    <3>1. ToSet(rest) \intersect Ints = {}
      BY <1>1, <1>3, <1>5, <2>3
    <3>2. Cardinality(ToSet(rest) \intersect Ints) = 0
      BY <3>1, FS_EmptySet
    <3> QED BY <2>3, <3>2
  <2> QED BY <2>2, <2>3
<1>7. CASE a.null
  <2>1. ints <= a.int
    <3>1. CASE first < a.int
      <4>1. IsFiniteSet(Ints) /\ Cardinality(Ints) = a.int
        BY <1>1, CountUpTo
      <4>2. ToSet(tdim) \in SUBSET Ints
        BY <1>3, <3>1
      <4> HIDE DEF Ints
      <4>3. n <= a.int
        BY <1>2, <4>1, <4>2, FS_Subset
      <4> QED BY <1>1, <1>2, <4>3
    <3>2. CASE ~(first < a.int)
      BY <1>1, <3>2
    <3> QED BY <3>1, <3>2
  <2>2. n - 1 - ints \in Nat /\ n - 1 - ints <= a.real
    <3>1. CASE first < a.int
      BY <1>1, <1>2, <3>1
    <3>2. CASE ~(first < a.int)
      <4>1. IsFiniteSet(Ints) /\ Cardinality(Ints) = a.int
        BY <1>1, CountUpTo
      <4>2. IsFiniteSet(D \ Ints) /\ Cardinality(D \ Ints) = Cardinality(D) - Cardinality(D \intersect Ints)
        BY <1>1, FS_Difference
      <4>3. D \intersect Ints = Ints
        BY <1>1
      <4>4. Cardinality(D \intersect Ints) = Cardinality(Ints)
        BY <4>3
      <4>5. ToSet(tdim) \in SUBSET (D \ Ints)
        BY <1>1, <1>3, <3>2
      <4>6. Cardinality(ToSet(tdim)) <= Cardinality(D \ Ints)
        BY <4>2, <4>5, FS_Subset
      <4> HIDE DEF D, Ints, n, first
      <4> QED BY <1>1, <1>2, <3>2, <4>1, <4>2, <4>4, <4>6
    <3> QED BY <3>1, <3>2
  <2> HIDE DEF ints, n
  <2>3. a.int - ints \in Nat /\ a.real - (n - 1 - ints) \in Nat
    BY <1>1, <1>6, <2>1, <2>2
  <2>4. GoodBox(BoxBottom(a.int - ints, a.real - (n - 1 - ints)))
    BY <2>3, GoodEmpty
  <2> HIDE DEF joined
  <2> QED BY <1>0, <1>7, <2>4
<1>8. CASE ~a.null
  <2> DEFINE m == n - 1
             R == {x \in Itvs : first < a.int => IntegerItv(x)}
             St(k, x) == ItvJoin(x, a.p[tdim[k + 1]])
             st == [k \in 1 .. m |-> [x \in R |-> St(k, x)]]
  <2>1. m \in Nat /\ m + 1 = n /\ (\A k \in 1 .. m : k + 1 \in 1 .. n /\ k + 1 # 1 /\ (k + 1) - 1 = k)
        /\ \A k \in 1 .. n : k - 1 \in 0 .. m /\ (k - 1) + 1 = k /\ (k # 1 => k - 1 \in 1 .. m /\ k - 1 \in 1 .. n)
    BY <1>2
  <2>2. \A k \in 1 .. n : a.p[tdim[k]] \in R
    <3> SUFFICES ASSUME NEW k \in 1 .. n PROVE a.p[tdim[k]] \in R
      OBVIOUS
    <3>1. tdim[k] \in D /\ (first < a.int => tdim[k] < a.int)
      BY <1>1, <1>2, <1>3
    <3>2. Proper(a.p[tdim[k]]) /\ (tdim[k] < a.int => IntegerItv(a.p[tdim[k]]))
      BY <1>8, <3>1, GoodDim
    <3> QED BY <3>1, <3>2, ItvsAre
  <2>3. ASSUME NEW k \in 1 .. m, NEW x \in R
        PROVE  St(k, x) \in R
    <3>1. Proper(x) /\ (first < a.int => IntegerItv(x))
      BY ItvsAre
    <3>2. k + 1 \in 1 .. n
      BY <2>1
    <3>3. a.p[tdim[k + 1]] \in R
      BY <2>2, <3>2
    <3>4. Proper(a.p[tdim[k + 1]]) /\ (first < a.int => IntegerItv(a.p[tdim[k + 1]]))
      BY <3>3, ItvsAre
    <3>5. Proper(St(k, x)) /\ (first < a.int => IntegerItv(St(k, x)))
      BY <3>1, <3>4, LatticeIsProper
    <3> HIDE DEF St
    <3> QED BY <3>5, ItvsAre
  <2>4. PICK h : h \in [0 .. m -> R] /\ Steps(h, a.p[first], st, m)
    <3>1. st \in [1 .. m -> [R -> R]]
      <4> HIDE DEF St, R, m
      <4> QED BY <2>3
    <3>2. a.p[first] \in R
      BY <1>2, <2>2
    <3> HIDE DEF st, R, m
    <3> QED BY <2>1, <3>1, <3>2, SomeSequence
  <2>5. \A k \in 1 .. m : h[k] = St(k, h[k - 1])
    <3> SUFFICES ASSUME NEW k \in 1 .. m PROVE h[k] = St(k, h[k - 1])
      OBVIOUS
    <3>1. k - 1 \in 0 .. m
      BY <2>1
    <3>2. h[k - 1] \in R
      BY <2>4, <3>1
    <3>3. h[k] = st[k][h[k - 1]]
      BY <2>4 DEF Steps
    <3> HIDE DEF St, R, m
    <3> QED BY <3>2, <3>3 DEF st
  <2> DEFINE g == [k \in 1 .. n |-> h[k - 1]]
  <2>6. g = F(g)
    <3> HIDE DEF n
    <3>1. \A k \in 1 .. n : g[k] = F(g)[k]
      <4> SUFFICES ASSUME NEW k \in 1 .. n PROVE g[k] = F(g)[k]
        OBVIOUS
      <4>1. CASE k = 1
        <5>1. g[k] = h[0]
          BY <4>1
        <5>2. F(g)[k] = a.p[tdim[1]]
          BY <4>1
        <5>3. h[0] = a.p[tdim[1]]
          BY <2>4 DEF Steps
        <5> HIDE DEF F, g
        <5> QED BY <5>1, <5>2, <5>3
      <4>2. CASE k # 1
        <5>1. k - 1 \in 1 .. m /\ k - 1 \in 1 .. n /\ (k - 1) + 1 = k
          BY <2>1, <4>2
        <5>2. F(g)[k] = ItvJoin(g[k - 1], a.p[tdim[k]])
          BY <4>2
        <5>3. g[k] = h[k - 1] /\ g[k - 1] = h[(k - 1) - 1]
          BY <5>1
        <5>4. h[k - 1] = ItvJoin(h[(k - 1) - 1], a.p[tdim[(k - 1) + 1]])
          BY <2>5, <5>1
        <5>5. a.p[tdim[(k - 1) + 1]] = a.p[tdim[k]]
          BY <5>1
        <5> HIDE DEF F, g, m
        <5> QED BY <5>2, <5>3, <5>4, <5>5
      <4> QED BY <4>1, <4>2
    <3>2. F(g) = [k \in 1 .. n |-> F(g)[k]] /\ g = [k \in 1 .. n |-> g[k]]
      OBVIOUS
    <3> HIDE DEF F, g
    <3> QED BY <3>1, <3>2
  <2>7. joined = F(joined)
    <3> HIDE DEF F, g
    <3> QED BY <2>6
  <2>8. BoxFold(a, tdim) = BoxRemoveDimensions(With(a, q), rest, ints)
    <3> HIDE DEF joined, ints, n
    <3> QED BY <1>0, <1>8
  <2> HIDE DEF joined, g
  <2>9. joined[1] = a.p[tdim[1]] /\ (\A k \in 2 .. n : joined[k] = ItvJoin(joined[k - 1], a.p[tdim[k]]))
        /\ joined = [k \in 1 .. n |-> joined[k]]
    <3> DEFINE f == F(joined)
    <3>1. 1 \in 1 .. n /\ \A k \in 2 .. n : k \in 1 .. n /\ k # 1
      BY <1>2
    <3> HIDE DEF n
    <3>2. f[1] = a.p[tdim[1]] /\ (\A k \in 2 .. n : f[k] = ItvJoin(joined[k - 1], a.p[tdim[k]])) /\ f = [k \in 1 .. n |-> f[k]]
      BY <3>1
    <3>3. joined = f
      BY <2>7
    <3> HIDE DEF f, F
    <3> QED BY <3>2, <3>3
  <2>10. \A k \in 1 .. n : joined[k] \in R
    <3> DEFINE T == {k \in 0 .. m : joined[k + 1] \in R}
    <3>1. 0 \in T
      BY <1>2, <2>1, <2>2, <2>9
    <3>2. \A i \in 0 .. m - 1 : i \in T => i + 1 \in T
      <4> SUFFICES ASSUME NEW i \in 0 .. m - 1, i \in T PROVE i + 1 \in T
        OBVIOUS
      <4>1. i + 1 \in 1 .. m /\ i + 1 \in 0 .. m /\ (i + 1) + 1 \in 2 .. n /\ ((i + 1) + 1) - 1 = i + 1
        BY <2>1
      <4>2. joined[(i + 1) + 1] = ItvJoin(joined[i + 1], a.p[tdim[(i + 1) + 1]])
        BY <2>9, <4>1
      <4>3. St(i + 1, joined[i + 1]) \in R
        <5> HIDE DEF St, m, R
        <5> QED BY <2>3, <4>1
      <4> HIDE DEF R, m
      <4> QED BY <4>1, <4>2, <4>3
    <3> HIDE DEF T
    <3>3. 0 .. m \subseteq T
      <4> HIDE DEF m
      <4> QED BY <2>1, <3>1, <3>2, UpTo
    <3>4. \A k \in 1 .. n : k - 1 \in 0 .. m /\ (k - 1) + 1 = k
      BY <2>1
    <3> HIDE DEF R, m, n
    <3> QED BY <3>3, <3>4 DEF T
  <2>11. joined[n] \in R /\ joined \in [1 .. n -> Itvs]
    <3>1. n \in 1 .. n
      BY <1>2
    <3>2. \A k \in 1 .. n : joined[k] \in Itvs
      BY <2>10
    <3> HIDE DEF n
    <3>3. joined \in [1 .. n -> Itvs]
      BY <2>9, <3>2
    <3> QED BY <2>10, <3>1, <3>3
  <2>12. q = [d \in D |-> q[d]] /\ \A d \in D : Proper(q[d]) /\ (d < a.int => IntegerItv(q[d]))
    <3>1. DOMAIN a.p = D /\ \A d \in D : Proper(a.p[d]) /\ (d < a.int => IntegerItv(a.p[d]))
      BY <1>8, GoodIs, GoodDim
    <3>2. Proper(joined[n]) /\ (first < a.int => IntegerItv(joined[n])) /\ first \in D
      BY <1>3, <2>11, ItvsAre
    <3>3. \A d \in D : q[d] = IF d = first THEN joined[n] ELSE a.p[d]
      BY <3>1
    <3>4. q = [d \in D |-> q[d]]
      BY <3>1
    <3> HIDE DEF q, D, n, first
    <3> QED BY <3>1, <3>2, <3>3, <3>4
  <2> DEFINE w == With(a, q)
  <2>13. GoodBox(w) /\ Fit(w, a) /\ Dims(w) = D /\ ~w.null
    <3> HIDE DEF q
    <3> QED BY <2>12, GoodWith
  <2>14. GoodBox(BoxRemoveDimensions(w, rest, ints))
    <3> HIDE DEF w, ints
    <3>1. w.int = a.int /\ ToSet(rest) \subseteq Dims(w)
      BY <1>3, <1>5, <2>13 DEF Fit
    <3>2. ints = Cardinality(ToSet(rest) \intersect (0 .. w.int - 1))
      BY <1>6, <3>1
    <3> QED BY <1>5, <2>13, <3>1, <3>2, RemoveIsGood
  <2> HIDE DEF w
  <2>15. BoxFold(a, tdim) = BoxRemoveDimensions(w, rest, ints)
    BY <2>8 DEF w
  <2>16. GoodBox(BoxFold(a, tdim))
    BY <2>14, <2>15
  <2> HIDE DEF R, D
  <2> QED BY <2>8, <2>9, <2>11, <2>16 DEF rest
<1> HIDE DEF n
<1> QED BY <1>1, <1>7, <1>8
=============================================================================
