-------------------------- MODULE Ablation_proofs --------------------------
(***************************************************************************)
(* Proofs about Ablation, for any cases, scenarios, outcomes, inventories  *)
(* and sample sizes.                                                       *)
(***************************************************************************)
EXTENDS Ablation, FiniteSetTheorems, TLAPS

-----------------------------------------------------------------------------
(***************************************************************************)
(* Sums.                                                                   *)
(***************************************************************************)
(* Induction up to n, over a set.                                          *)
LEMMA BoundedInduction ==
  ASSUME NEW n \in Nat, NEW S, 0 \in S, \A i \in 0 .. n - 1 : i \in S => i + 1 \in S
  PROVE  0 .. n \subseteq S
<1> DEFINE T == {i \in 0 .. n : i \notin S}
<1> SUFFICES ASSUME T # {} PROVE FALSE
  OBVIOUS
<1>1. \E i \in T : \A j \in T : ~ (<<j, i>> \in OpToRel(<, Nat))
  <2>1. T \subseteq Nat
    OBVIOUS
  <2> HIDE DEF T
  <2> QED BY <2>1, WFMin, NatLessThanWellFounded
<1>2. PICK i \in T : \A j \in T : ~ (<<j, i>> \in OpToRel(<, Nat))
  BY <1>1
<1>3. i \in Nat /\ i # 0 /\ i <= n
  OBVIOUS
<1>4. i - 1 \in 0 .. n - 1 /\ i - 1 < i /\ (i - 1) + 1 = i
  BY <1>3
<1>5. <<i - 1, i>> \in OpToRel(<, Nat)
  BY <1>3, <1>4 DEF OpToRel
<1>6. i - 1 \notin T
  <2> HIDE DEF T
  <2> QED BY <1>2, <1>5
<1>7. i - 1 \in S
  <2>1. i - 1 \in 0 .. n
    BY <1>3, <1>4
  <2> QED BY <1>6, <2>1
<1> QED BY <1>2, <1>4, <1>7

(* s has the sums of the first elements of q.                              *)
Sums(s, q) ==
  /\ s \in [0 .. Len(q) -> Nat]
  /\ s[0] = 0
  /\ \A i \in 1 .. Len(q) : s[i] = s[i - 1] + q[i]

LEMMA SumsExist ==
  ASSUME NEW q \in Seq(Nat)
  PROVE  \E s : Sums(s, q)
<1> DEFINE P(n, s) == /\ s \in [0 .. n -> Nat]
                      /\ s[0] = 0
                      /\ \A i \in 1 .. n : s[i] = s[i - 1] + q[i]
           S == {n \in 0 .. Len(q) : \E s : P(n, s)}
<1>0. Len(q) \in Nat
  OBVIOUS
<1>1. 0 \in S
  <2> DEFINE s == [i \in 0 .. 0 |-> 0]
  <2>1. s \in [0 .. 0 -> Nat] /\ s[0] = 0 /\ \A i \in 1 .. 0 : s[i] = s[i - 1] + q[i]
    OBVIOUS
  <2>2. P(0, s)
    BY <2>1
  <2> HIDE DEF P
  <2> QED BY <1>0, <2>2
<1>2. ASSUME NEW n \in 0 .. Len(q) - 1, n \in S
      PROVE  n + 1 \in S
  <2>1. PICK s : P(n, s)
    BY <1>2
  <2>2. q[n + 1] \in Nat /\ n \in Nat /\ n + 1 \in 0 .. Len(q)
    BY <1>0
  <2> DEFINE t == [i \in 0 .. n + 1 |-> IF i = n + 1 THEN s[n] + q[n + 1] ELSE s[i]]
  <2>3. t \in [0 .. n + 1 -> Nat] /\ t[0] = 0
    BY <2>1, <2>2
  <2>4. ASSUME NEW i \in 1 .. n + 1
        PROVE  t[i] = t[i - 1] + q[i]
    <3>1. CASE i = n + 1
      BY <3>1, <2>2
    <3>2. CASE i # n + 1
      <4>1. i \in 1 .. n /\ i \in 0 .. n + 1 /\ i - 1 \in 0 .. n + 1 /\ i - 1 # n + 1
        BY <3>2, <2>2
      <4>2. t[i] = s[i] /\ t[i - 1] = s[i - 1]
        BY <4>1, <3>2
      <4> QED BY <4>1, <4>2, <2>1
    <3> QED BY <3>1, <3>2
  <2>5. P(n + 1, t)
    BY <2>3, <2>4
  <2> HIDE DEF P
  <2> QED BY <2>2, <2>5
<1>3. Len(q) \in S
  <2> HIDE DEF S
  <2>1. 0 .. Len(q) \subseteq S
    BY <1>0, <1>1, <1>2, BoundedInduction
  <2> QED BY <1>0, <2>1
<1> QED BY <1>3 DEF Sums

LEMMA SumUnfolds ==
  ASSUME NEW q \in Seq(Nat)
  PROVE  \E s : Sums(s, q) /\ SeqSum(q) = s[Len(q)]
<1> DEFINE F(s) == [i \in 0 .. Len(q) |-> IF i = 0 THEN 0 ELSE s[i - 1] + q[i]]
           sum == CHOOSE s : s = F(s)
<1>0. Len(q) \in Nat
  OBVIOUS
<1>1. SeqSum(q) = sum[Len(q)]
  BY DEF SeqSum
<1>2. sum = F(sum)
  <2>1. PICK s : Sums(s, q)
    BY SumsExist
  <2>2. s = F(s)
    BY <2>1, <1>0 DEF Sums
  <2> QED BY <2>2
<1> HIDE DEF sum
<1>3. /\ sum[0] = 0
      /\ \A i \in 1 .. Len(q) : sum[i] = sum[i - 1] + q[i]
      /\ DOMAIN sum = 0 .. Len(q)
      /\ sum = [i \in 0 .. Len(q) |-> sum[i]]
  BY <1>0, <1>2
<1>4. \A i \in 0 .. Len(q) : sum[i] \in Nat
  <2> DEFINE S == {i \in 0 .. Len(q) : sum[i] \in Nat}
  <2>1. 0 \in S
    BY <1>0, <1>3
  <2>2. ASSUME NEW i \in 0 .. Len(q) - 1, i \in S
        PROVE  i + 1 \in S
    <3>1. i + 1 \in 1 .. Len(q) /\ (i + 1) - 1 = i /\ q[i + 1] \in Nat
      BY <1>0
    <3>2. sum[i + 1] = sum[i] + q[i + 1] /\ sum[i] \in Nat
      BY <2>2, <3>1, <1>3
    <3> QED BY <1>0, <3>1, <3>2
  <2>3. 0 .. Len(q) \subseteq S
    <3> HIDE DEF S
    <3> QED BY <1>0, <2>1, <2>2, BoundedInduction
  <2> QED BY <2>3
<1>5. Sums(sum, q)
  BY <1>3, <1>4 DEF Sums
<1> QED BY <1>1, <1>5

LEMMA SumType ==
  ASSUME NEW q \in Seq(Nat)
  PROVE  SeqSum(q) \in Nat
BY SumUnfolds DEF Sums

(* The sum of an elementwise sum.                                          *)
LEMMA SumOfSums ==
  ASSUME NEW n \in Nat, NEW p \in [1 .. n -> Nat], NEW q \in [1 .. n -> Nat],
         NEW r \in [1 .. n -> Nat], \A i \in 1 .. n : p[i] = q[i] + r[i]
  PROVE  SeqSum(p) = SeqSum(q) + SeqSum(r)
<1>0. /\ p \in Seq(Nat) /\ q \in Seq(Nat) /\ r \in Seq(Nat)
      /\ Len(p) = n /\ Len(q) = n /\ Len(r) = n
  OBVIOUS
<1>1. PICK s : Sums(s, p) /\ SeqSum(p) = s[n]
  BY <1>0, SumUnfolds
<1>2. PICK t : Sums(t, q) /\ SeqSum(q) = t[n]
  BY <1>0, SumUnfolds
<1>3. PICK u : Sums(u, r) /\ SeqSum(r) = u[n]
  BY <1>0, SumUnfolds
<1> DEFINE S == {i \in 0 .. n : s[i] = t[i] + u[i]}
<1>4. 0 \in S
  BY <1>0, <1>1, <1>2, <1>3 DEF Sums
<1>5. ASSUME NEW i \in 0 .. n - 1, i \in S
      PROVE  i + 1 \in S
  <2>1. i + 1 \in 1 .. n /\ (i + 1) - 1 = i
    OBVIOUS
  <2>2. /\ s[i + 1] = s[i] + p[i + 1]
        /\ t[i + 1] = t[i] + q[i + 1]
        /\ u[i + 1] = u[i] + r[i + 1]
    BY <1>0, <1>1, <1>2, <1>3, <2>1 DEF Sums
  <2>3. i \in 0 .. n /\ i + 1 \in 0 .. n
    OBVIOUS
  <2>4. /\ t[i] \in Nat /\ u[i] \in Nat
        /\ p[i + 1] = q[i + 1] + r[i + 1] /\ q[i + 1] \in Nat /\ r[i + 1] \in Nat
    BY <1>0, <1>2, <1>3, <2>1, <2>3 DEF Sums
  <2> QED BY <1>5, <2>2, <2>3, <2>4
<1>6. n \in S
  <2> HIDE DEF S
  <2>1. 0 .. n \subseteq S
    BY <1>4, <1>5, BoundedInduction
  <2> QED BY <2>1
<1> QED BY <1>1, <1>2, <1>3, <1>6

LEMMA SumGrows ==
  ASSUME NEW n \in Nat, NEW p \in [1 .. n -> Nat], NEW q \in [1 .. n -> Nat],
         \A i \in 1 .. n : p[i] <= q[i]
  PROVE  SeqSum(p) <= SeqSum(q)
<1> DEFINE r == [i \in 1 .. n |-> q[i] - p[i]]
<1>1. r \in [1 .. n -> Nat] /\ \A i \in 1 .. n : q[i] = p[i] + r[i]
  OBVIOUS
<1> HIDE DEF r
<1>2. SeqSum(q) = SeqSum(p) + SeqSum(r)
  BY <1>1, SumOfSums
<1>3. SeqSum(p) \in Nat /\ SeqSum(r) \in Nat
  <2>1. p \in Seq(Nat) /\ r \in Seq(Nat)
    BY <1>1
  <2> QED BY <2>1, SumType
<1> QED BY <1>2, <1>3

LEMMA SumOfMultiples ==
  ASSUME NEW n \in Nat, NEW k \in Nat, NEW p \in [1 .. n -> Nat], NEW q \in [1 .. n -> Nat],
         \A i \in 1 .. n : p[i] = k * q[i]
  PROVE  SeqSum(p) = k * SeqSum(q)
<1>0. p \in Seq(Nat) /\ q \in Seq(Nat) /\ Len(p) = n /\ Len(q) = n
  OBVIOUS
<1>1. PICK s : Sums(s, p) /\ SeqSum(p) = s[n]
  BY <1>0, SumUnfolds
<1>2. PICK t : Sums(t, q) /\ SeqSum(q) = t[n]
  BY <1>0, SumUnfolds
<1> DEFINE S == {i \in 0 .. n : s[i] = k * t[i]}
<1>4. 0 \in S
  BY <1>0, <1>1, <1>2 DEF Sums
<1>5. ASSUME NEW i \in 0 .. n - 1, i \in S
      PROVE  i + 1 \in S
  <2>1. i + 1 \in 1 .. n /\ (i + 1) - 1 = i
    OBVIOUS
  <2>2. s[i + 1] = s[i] + p[i + 1] /\ t[i + 1] = t[i] + q[i + 1]
    BY <1>0, <1>1, <1>2, <2>1 DEF Sums
  <2>3. i \in 0 .. n /\ i + 1 \in 0 .. n
    OBVIOUS
  <2>4. t[i] \in Nat /\ q[i + 1] \in Nat /\ p[i + 1] = k * q[i + 1]
    BY <1>0, <1>2, <2>1, <2>3 DEF Sums
  <2>5. k * (t[i] + q[i + 1]) = k * t[i] + k * q[i + 1]
    BY <2>4
  <2> QED BY <1>5, <2>2, <2>3, <2>4, <2>5
<1>6. n \in S
  <2> HIDE DEF S
  <2>1. 0 .. n \subseteq S
    BY <1>4, <1>5, BoundedInduction
  <2> QED BY <2>1
<1> QED BY <1>1, <1>2, <1>6

(* The sum of a characteristic function.                                   *)
Ones(n, A) == [i \in 1 .. n |-> IF i \in A THEN 1 ELSE 0]

LEMMA SumOfOnes ==
  ASSUME NEW n \in Nat, NEW A \in SUBSET (1 .. n)
  PROVE  /\ Ones(n, A) \in [1 .. n -> Nat]
         /\ SeqSum(Ones(n, A)) = Cardinality(A)
<1> DEFINE p == Ones(n, A)
<1>0. p \in [1 .. n -> Nat] /\ p \in Seq(Nat) /\ Len(p) = n
  BY DEF Ones
<1>1. PICK s : Sums(s, p) /\ SeqSum(p) = s[n]
  BY <1>0, SumUnfolds
<1> DEFINE B(i) == {j \in A : j <= i}
           S == {i \in 0 .. n : s[i] = Cardinality(B(i))}
<1>a. \A j \in A : j \in Nat /\ 1 <= j /\ j <= n
  OBVIOUS
<1>2. \A i \in 0 .. n : IsFiniteSet(B(i))
  <2>1. IsFiniteSet(1 .. n)
    BY FS_Interval
  <2>2. \A i \in 0 .. n : B(i) \subseteq 1 .. n
    OBVIOUS
  <2> HIDE DEF B
  <2> QED BY <2>1, <2>2, FS_Subset
<1>3. 0 \in S
  <2>1. B(0) = {}
    <3> SUFFICES ASSUME NEW j \in A, j <= 0 PROVE FALSE
      OBVIOUS
    <3> QED BY <1>a
  <2>2. Cardinality(B(0)) = 0 /\ s[0] = 0
    BY <2>1, <1>1, FS_EmptySet DEF Sums
  <2> QED BY <2>2
<1>4. ASSUME NEW i \in 0 .. n - 1, i \in S
      PROVE  i + 1 \in S
  <2>1. i + 1 \in 1 .. n /\ (i + 1) - 1 = i
    OBVIOUS
  <2>2. s[i + 1] = s[i] + p[i + 1]
    BY <1>0, <1>1, <2>1 DEF Sums
  <2>3. CASE i + 1 \in A
    <3>1. B(i + 1) = B(i) \union {i + 1} /\ i + 1 \notin B(i)
      <4>1. \A j \in A : j <= i + 1 <=> j <= i \/ j = i + 1
        BY <1>a
      <4>2. ~ (i + 1 <= i) /\ i + 1 <= i + 1
        OBVIOUS
      <4> QED BY <4>1, <4>2, <2>3
    <3>2. Cardinality(B(i + 1)) = Cardinality(B(i)) + 1
      <4> HIDE DEF B
      <4> QED BY <3>1, <1>2, FS_AddElement
    <3>3. p[i + 1] = 1
      BY <2>1, <2>3 DEF Ones
    <3> QED BY <1>4, <2>2, <3>2, <3>3
  <2>4. CASE i + 1 \notin A
    <3>1. B(i + 1) = B(i)
      <4>1. \A j \in A : j <= i + 1 <=> j <= i
        BY <1>a, <2>4
      <4> QED BY <4>1
    <3>2. s[i + 1] = s[i]
      <4>1. s[i] \in Nat
        <5>1. i \in 0 .. n
          OBVIOUS
        <5> QED BY <5>1, <1>0, <1>1 DEF Sums
      <4> QED BY <2>1, <2>2, <2>4, <4>1 DEF Ones
    <3> QED BY <1>4, <2>1, <3>1, <3>2
  <2> QED BY <2>3, <2>4
<1>5. n \in S
  <2> HIDE DEF S
  <2>1. 0 .. n \subseteq S
    BY <1>3, <1>4, BoundedInduction
  <2> QED BY <2>1
<1>6. B(n) = A
  BY <1>a
<1> QED BY <1>0, <1>1, <1>5, <1>6

-----------------------------------------------------------------------------
(***************************************************************************)
(* The sampling: shares of the strata.                                     *)
(***************************************************************************)
LEMMA TotalIsSum == \A q : Sampling!Total(q) = SeqSum(q)
BY DEF Sampling!Total, Sampling!SeqSum, SeqSum

LEMMA CardinalityIs == \A S : Sampling!Cardinality(S) = Cardinality(S)
BY DEF Sampling!Cardinality, Cardinality

LEMMA LeastOfTwo ==
  ASSUME NEW a \in Nat, NEW b \in Nat
  PROVE  /\ Sampling!Min({a, b}) \in {a, b}
         /\ Sampling!Min({a, b}) <= a
         /\ Sampling!Min({a, b}) <= b
<1>1. \E x \in {a, b} : \A y \in {a, b} : x <= y
  <2>1. CASE a <= b
    BY <2>1
  <2>2. CASE b <= a
    BY <2>2
  <2> QED BY <2>1, <2>2
<1> QED BY <1>1 DEF Sampling!Min

(* An inventory is there and a part of it is asked for.                    *)
Shared ==
  /\ available \in [1 .. NumScenarios -> Nat]
  /\ Sampling!Total(available) \in Nat \ {0}
  /\ target \in 1 .. Sampling!Total(available)

LEMMA Division ==
  ASSUME NEW a \in Nat, NEW b \in Nat \ {0}
  PROVE  /\ a \div b \in Nat /\ a % b \in Nat /\ a % b < b
         /\ a = b * (a \div b) + (a % b)
OBVIOUS

(* A share and its remainder; a share is at most what the stratum has.     *)
LEMMA ShareOfStratum ==
  ASSUME Shared, NEW s \in 1 .. NumScenarios
  PROVE  LET A == Sampling!Total(available)
             base == Sampling!Base(s)
             rest == Sampling!Remainder(s)
         IN /\ base \in Nat /\ rest \in Nat /\ rest < A
            /\ target * available[s] = A * base + rest
            /\ base <= available[s]
            /\ base = available[s] => rest = 0
<1> DEFINE A == Sampling!Total(available)
           size == available[s]
           base == Sampling!Base(s)
           rest == Sampling!Remainder(s)
<1>1. A \in Nat \ {0} /\ target \in Nat /\ target <= A /\ size \in Nat
  BY DEF Shared
<1> HIDE DEF A, size
<1>2. target * size \in Nat
  BY <1>1
<1>3. base = (target * size) \div A /\ rest = (target * size) % A
  BY DEF Sampling!Base, Sampling!Remainder, A, size
<1> HIDE DEF base, rest
<1>4. base \in Nat /\ rest \in Nat /\ rest < A /\ target * size = A * base + rest
  BY <1>1, <1>2, <1>3, Division
<1>5. target * size <= A * size
  BY <1>1
<1>6. A * base <= A * size
  <2>1. A * base \in Nat /\ A * size \in Nat
    BY <1>1, <1>4
  <2> QED BY <1>2, <1>4, <1>5, <2>1
<1>7. base <= size
  <2> SUFFICES ASSUME base >= size + 1 PROVE FALSE
    BY <1>1, <1>4
  <2>1. A * base >= A * (size + 1)
    BY <1>1, <1>4
  <2>2. A * (size + 1) = A * size + A
    BY <1>1
  <2>3. A * base \in Nat /\ A * size \in Nat
    BY <1>1, <1>4
  <2> QED BY <1>1, <1>6, <2>1, <2>2, <2>3
<1>8. base = size => rest = 0
  <2>1. A * base \in Nat /\ A * size \in Nat
    BY <1>1, <1>4
  <2> QED BY <1>2, <1>4, <1>5, <2>1
<1> QED BY <1>4, <1>7, <1>8 DEF A, size, base, rest

(* A larger stratum has a larger share or the same share and more left     *)
(* over.                                                                   *)
LEMMA LargerStratum ==
  ASSUME Shared, NEW s \in 1 .. NumScenarios, NEW t \in 1 .. NumScenarios,
         available[s] > available[t]
  PROVE  \/ Sampling!Base(s) > Sampling!Base(t)
         \/ Sampling!Base(s) = Sampling!Base(t) /\ Sampling!Remainder(s) > Sampling!Remainder(t)
<1> DEFINE A == Sampling!Total(available)
           a == available[s]
           b == available[t]
           baseA == Sampling!Base(s)
           restA == Sampling!Remainder(s)
           baseB == Sampling!Base(t)
           restB == Sampling!Remainder(t)
<1>1. /\ A \in Nat \ {0} /\ target \in Nat \ {0} /\ a \in Nat /\ b \in Nat /\ a > b
      /\ baseA \in Nat /\ restA \in Nat /\ restA < A /\ target * a = A * baseA + restA
      /\ baseB \in Nat /\ restB \in Nat /\ restB < A /\ target * b = A * baseB + restB
  <2>1. A \in Nat \ {0} /\ target \in Nat \ {0} /\ a \in Nat /\ b \in Nat /\ a > b
    BY DEF Shared
  <2>2. baseA \in Nat /\ restA \in Nat /\ restA < A /\ target * a = A * baseA + restA
    BY ShareOfStratum
  <2>3. baseB \in Nat /\ restB \in Nat /\ restB < A /\ target * b = A * baseB + restB
    BY ShareOfStratum
  <2> HIDE DEF A, a, b, baseA, restA, baseB, restB
  <2> QED BY <2>1, <2>2, <2>3
<1> HIDE DEF A, a, b, baseA, restA, baseB, restB
<1>2. target * a > target * b
  <2>1. target * a >= target * (b + 1)
    BY <1>1
  <2>2. target * (b + 1) = target * b + target
    BY <1>1
  <2>3. target * a \in Nat /\ target * b \in Nat
    BY <1>1
  <2> QED BY <1>1, <2>1, <2>2, <2>3
<1>3. ~ (baseA < baseB)
  <2> SUFFICES ASSUME baseB >= baseA + 1 PROVE FALSE
    BY <1>1
  <2>1. A * baseB >= A * (baseA + 1)
    BY <1>1
  <2>2. A * (baseA + 1) = A * baseA + A
    BY <1>1
  <2>3. A * baseA \in Nat /\ A * baseB \in Nat
    BY <1>1
  <2> QED BY <1>1, <1>2, <2>1, <2>2, <2>3
<1>4. baseA = baseB => restA > restB
  <2>1. A * baseA \in Nat
    BY <1>1
  <2> QED BY <1>1, <1>2, <2>1
<1> QED BY <1>1, <1>3, <1>4 DEF A, a, b, baseA, restA, baseB, restB

Shares == [s \in 1 .. NumScenarios |-> Sampling!Base(s)]

Open == {s \in 1 .. NumScenarios : available[s] > 0 /\ Sampling!Base(s) < available[s]}

(* What rounding down leaves over can be given to open strata, one case    *)
(* each.                                                                   *)
LEMMA LeftOverFits ==
  ASSUME Shared
  PROVE  /\ Shares \in [1 .. NumScenarios -> Nat]
         /\ Sampling!Total(Shares) \in Nat
         /\ IsFiniteSet(Open) /\ Cardinality(Open) \in 0 .. NumScenarios
         /\ target - Sampling!Total(Shares) \in 0 .. Cardinality(Open)
<1> DEFINE N == 1 .. NumScenarios
           A == Sampling!Total(available)
           rests == [s \in N |-> Sampling!Remainder(s)]
           R == {s \in N : Sampling!Remainder(s) > 0}
           left == target - Sampling!Total(Shares)
<1>1. NumScenarios \in Nat /\ available \in [N -> Nat] /\ A \in Nat \ {0}
      /\ target \in 1 .. A
  BY AblationAssumption DEF Shared
<1>2. Shares \in [N -> Nat] /\ rests \in [N -> Nat]
  BY ShareOfStratum DEF Shares
<1>3. IsFiniteSet(Open) /\ Cardinality(Open) \in 0 .. NumScenarios
  <2>1. IsFiniteSet(N) /\ Cardinality(N) = NumScenarios
    BY <1>1, FS_Interval
  <2>2. Open \subseteq N
    BY DEF Open
  <2>3. IsFiniteSet(Open) /\ Cardinality(Open) <= Cardinality(N)
    BY <2>1, <2>2, FS_Subset
  <2>4. Cardinality(Open) \in Nat
    BY <2>3, FS_CardinalityType
  <2> QED BY <1>1, <2>1, <2>3, <2>4
<1>4. R \subseteq Open
  <2> SUFFICES ASSUME NEW s \in R PROVE s \in Open
    OBVIOUS
  <2>1. /\ Sampling!Base(s) <= available[s] /\ Sampling!Base(s) \in Nat
        /\ Sampling!Base(s) # available[s]
    BY ShareOfStratum
  <2> QED BY <1>1, <2>1 DEF Open
<1> DEFINE wanted == [s \in N |-> target * available[s]]
           based == [s \in N |-> A * Shares[s]]
           ones == [s \in N |-> A * Ones(NumScenarios, R)[s]]
<1>a. /\ SeqSum(Shares) = Sampling!Total(Shares) /\ A = SeqSum(available)
  BY TotalIsSum
<1> HIDE DEF A
<1>5. wanted \in [N -> Nat] /\ based \in [N -> Nat] /\ \A s \in N : wanted[s] = based[s] + rests[s]
  <2> SUFFICES ASSUME NEW s \in N
               PROVE  /\ target * available[s] \in Nat
                      /\ A * Shares[s] \in Nat
                      /\ target * available[s] = A * Shares[s] + rests[s]
    BY <1>2
  <2>1. Shares[s] = Sampling!Base(s) /\ rests[s] = Sampling!Remainder(s)
    BY DEF Shares
  <2>2. Sampling!Base(s) \in Nat /\ target * available[s] = A * Sampling!Base(s) + Sampling!Remainder(s)
    BY ShareOfStratum DEF A
  <2>3. available[s] \in Nat /\ target \in Nat /\ A \in Nat
    BY <1>1
  <2> HIDE DEF rests
  <2> QED BY <2>1, <2>2, <2>3
<1>6. /\ SeqSum(wanted) = target * A
      /\ SeqSum(based) = A * Sampling!Total(Shares)
      /\ SeqSum(wanted) = SeqSum(based) + SeqSum(rests)
  <2>1. SeqSum(wanted) = target * SeqSum(available)
    <3>1. \A s \in N : wanted[s] = target * available[s]
      OBVIOUS
    <3>2. target \in Nat
      BY <1>1
    <3> HIDE DEF wanted
    <3> QED BY <1>1, <1>5, <3>1, <3>2, SumOfMultiples
  <2>2. SeqSum(based) = A * SeqSum(Shares)
    <3>1. \A s \in N : based[s] = A * Shares[s]
      OBVIOUS
    <3> HIDE DEF based
    <3> QED BY <1>1, <1>2, <1>5, <3>1, SumOfMultiples
  <2>3. SeqSum(wanted) = SeqSum(based) + SeqSum(rests)
    <3> HIDE DEF wanted, based, rests
    <3> QED BY <1>1, <1>2, <1>5, SumOfSums
  <2> QED BY <1>a, <2>1, <2>2, <2>3
<1>7. SeqSum(rests) <= A * Cardinality(R)
  <2>1. R \subseteq N
    OBVIOUS
  <2>2. Ones(NumScenarios, R) \in [N -> Nat] /\ SeqSum(Ones(NumScenarios, R)) = Cardinality(R)
    <3> HIDE DEF R
    <3> QED BY <1>1, <2>1, SumOfOnes
  <2>3. ones \in [N -> Nat] /\ \A s \in N : ones[s] = A * Ones(NumScenarios, R)[s]
    <3> HIDE DEF R
    <3> QED BY <1>1, <2>2
  <2>4. SeqSum(ones) = A * Cardinality(R)
    <3> HIDE DEF ones, R
    <3>1. A \in Nat
      BY <1>1
    <3> DEFINE chosen == Ones(NumScenarios, R)
    <3>2. SeqSum(ones) = A * SeqSum(chosen)
      <4> HIDE DEF chosen
      <4> QED BY <1>1, <2>2, <2>3, <3>1, SumOfMultiples DEF chosen
    <3> QED BY <2>2, <3>2
  <2>5. \A s \in N : rests[s] <= ones[s]
    <3> SUFFICES ASSUME NEW s \in N PROVE Sampling!Remainder(s) <= A * Ones(NumScenarios, R)[s]
      OBVIOUS
    <3>1. Sampling!Remainder(s) \in Nat /\ Sampling!Remainder(s) < A
      BY ShareOfStratum DEF A
    <3>2. CASE s \in R
      <4>1. Ones(NumScenarios, R)[s] = 1
        BY <3>2 DEF Ones
      <4> QED BY <1>1, <3>1, <4>1
    <3>3. CASE s \notin R
      <4>1. Sampling!Remainder(s) = 0
        BY <3>1, <3>3
      <4>2. Ones(NumScenarios, R)[s] = 0
        BY <3>3 DEF Ones
      <4> QED BY <1>1, <4>1, <4>2
    <3> QED BY <3>2, <3>3
  <2>6. SeqSum(rests) <= SeqSum(ones)
    <3> HIDE DEF rests, ones
    <3> QED BY <1>1, <1>2, <2>3, <2>5, SumGrows
  <2> QED BY <2>4, <2>6
<1>8. Sampling!Total(Shares) \in Nat /\ SeqSum(rests) \in Nat
  <2>1. Shares \in Seq(Nat) /\ rests \in Seq(Nat)
    BY <1>1, <1>2
  <2> QED BY <1>a, <2>1, SumType
<1>9. IsFiniteSet(R) /\ Cardinality(R) \in Nat /\ Cardinality(R) <= Cardinality(Open)
  BY <1>3, <1>4, FS_Subset, FS_CardinalityType
<1> DEFINE bases == Sampling!Total(Shares)
           rest == SeqSum(rests)
<1> HIDE DEF bases, rest
<1>10. bases \in Nat /\ rest \in Nat /\ target * A = A * bases + rest
  BY <1>6, <1>8 DEF bases, rest
<1>11. left = target - bases /\ left \in Int
  BY <1>1, <1>10 DEF bases
<1>12. A * left = rest
  <2>1. A * (target - bases) = A * target - A * bases
    BY <1>1, <1>10
  <2>2. A * target = target * A /\ A * target \in Nat /\ A * bases \in Nat
    BY <1>1, <1>10
  <2> QED BY <1>10, <1>11, <2>1, <2>2
<1> HIDE DEF left
<1>13. left >= 0
  <2> SUFFICES ASSUME left <= -1 PROVE FALSE
    BY <1>11
  <2>1. A * left <= A * (-1)
    BY <1>1, <1>11
  <2> QED BY <1>1, <1>10, <1>12, <2>1
<1>14. left <= Cardinality(R)
  <2> SUFFICES ASSUME left >= Cardinality(R) + 1 PROVE FALSE
    BY <1>9, <1>11
  <2> DEFINE c == Cardinality(R)
  <2>1. c \in Nat /\ rest <= A * c
    BY <1>7, <1>9 DEF rest
  <2> HIDE DEF c, R
  <2>2. A * left >= A * (c + 1)
    BY <1>1, <1>11, <2>1 DEF c
  <2>3. A * (c + 1) = A * c + A /\ A * c \in Nat
    BY <1>1, <2>1
  <2> QED BY <1>1, <1>10, <1>12, <2>1, <2>2, <2>3
<1> QED
  <2>1. left \in 0 .. Cardinality(Open)
    BY <1>3, <1>9, <1>11, <1>13, <1>14
  <2> QED BY <1>2, <1>3, <1>8, <2>1 DEF left

-----------------------------------------------------------------------------
(***************************************************************************)
(* The sampling: its steps.                                                *)
(***************************************************************************)
(* A share rounded up or down, the larger stratum never behind.            *)
Rounded ==
  \A s, t \in 1 .. NumScenarios :
    /\ quotas[s] \in {Sampling!Base(s), Sampling!Base(s) + 1}
    /\ available[s] > available[t] => quotas[s] >= quotas[t]

AtMostOneBehind ==
  \A s, t \in 1 .. NumScenarios : available[s] > available[t] => quotas[s] + 1 >= quotas[t]

Served(upTo) ==
  target >= Cardinality(Sampling!Nonempty) =>
    \A s \in Sampling!Nonempty : s < upTo => quotas[s] > 0

FillsTheSample ==
  /\ Sampling!Total(quotas) = target
  /\ \A s \in 1 .. NumScenarios : quotas[s] <= available[s]

(* The invariant of the sampling.                                          *)
SInv ==
  /\ Sampling!TypeOK
  /\ step # "idle" => Shared
  /\ step \in {"idle", "round_down", "left_over"} => next = 1
  /\ step = "left_over" =>
       /\ quotas = Shares
       /\ remaining = target - Sampling!Total(Shares)
  /\ step = "fill" /\ next = 1 => Rounded
  /\ step \in {"fill", "done"} => FillsTheSample /\ AtMostOneBehind /\ Served(next)
  /\ step = "done" => next = NumScenarios + 1

LEMMA ScenariosAre == Sampling!Scenario = 1 .. NumScenarios /\ NumScenarios \in Nat
BY AblationAssumption DEF Sampling!Scenario

LEMMA NonemptyIsFinite ==
  /\ Sampling!Nonempty \subseteq 1 .. NumScenarios
  /\ IsFiniteSet(Sampling!Nonempty) /\ Cardinality(Sampling!Nonempty) \in Nat
<1>1. Sampling!Nonempty \subseteq 1 .. NumScenarios
  BY ScenariosAre DEF Sampling!Nonempty
<1>2. IsFiniteSet(1 .. NumScenarios)
  BY ScenariosAre, FS_Interval
<1> QED BY <1>1, <1>2, FS_Subset, FS_CardinalityType

LEMMA ZeroTotal == Sampling!Total([s \in Sampling!Scenario |-> 0]) \in Nat
<1> DEFINE q == [s \in Sampling!Scenario |-> 0]
<1>1. q \in Seq(Nat)
  BY ScenariosAre
<1> HIDE DEF q
<1> QED BY <1>1, SumType, TotalIsSum DEF q

LEMMA TotalOfInventory ==
  ASSUME NEW q \in [1 .. NumScenarios -> Nat]
  PROVE  Sampling!Total(q) \in Nat
<1>1. q \in Seq(Nat)
  BY ScenariosAre
<1> QED BY <1>1, SumType, TotalIsSum

LEMMA SamplingStarts ==
  ASSUME Sampling!Init
  PROVE  SInv
BY ScenariosAre, ZeroTotal DEF SInv, Sampling!Init, Sampling!TypeOK

LEMMA StartKeeps ==
  ASSUME SInv, NEW sizes \in [1 .. NumScenarios -> Nat], NEW n \in Nat \ {0},
         Sampling!Start(sizes, n)
  PROVE  SInv'
<1>1. Sampling!Total(sizes) \in Nat
  BY TotalOfInventory
<1>2. /\ available' = sizes /\ Sampling!Total(sizes) > 0
      /\ target' = Sampling!Min({n, Sampling!Total(sizes)})
      /\ step' = "round_down" /\ quotas' = quotas /\ remaining' = remaining /\ next' = next
      /\ step = "idle"
  BY DEF Sampling!Start
<1>3. target' \in 1 .. Sampling!Total(sizes)
  BY <1>1, <1>2, LeastOfTwo
<1>4. Shared'
  BY <1>1, <1>2, <1>3 DEF Shared
<1>5. Sampling!TypeOK'
  BY <1>1, <1>2, <1>3, ScenariosAre DEF SInv, Sampling!TypeOK
<1> QED BY <1>2, <1>4, <1>5 DEF SInv

LEMMA ReturnKeeps ==
  ASSUME SInv, Sampling!Return
  PROVE  SInv'
BY ScenariosAre, ZeroTotal DEF SInv, Sampling!Return, Sampling!TypeOK

LEMMA RoundDownKeeps ==
  ASSUME SInv, Sampling!RoundDown
  PROVE  SInv'
<1>1. /\ step = "round_down" /\ step' = "left_over" /\ Shared /\ next = 1
      /\ available' = available /\ target' = target /\ next' = next
      /\ quotas' = [s \in Sampling!Scenario |->
                      Sampling!Min({Sampling!Base(s), available[s]})]
      /\ remaining' = target - Sampling!Total(quotas')
  BY DEF SInv, Sampling!RoundDown
<1>2. quotas' = Shares
  <2> SUFFICES ASSUME NEW s \in 1 .. NumScenarios
               PROVE  Sampling!Min({Sampling!Base(s), available[s]}) = Sampling!Base(s)
    BY <1>1, ScenariosAre DEF Shares
  <2>1. Sampling!Base(s) \in Nat /\ Sampling!Base(s) <= available[s] /\ available[s] \in Nat
    BY <1>1, ShareOfStratum DEF Shared
  <2> QED BY <2>1, LeastOfTwo
<1>3. Shares' = Shares /\ Shared'
  BY <1>1 DEF Shares, Shared, Sampling!Base
<1>4. /\ Shares \in [1 .. NumScenarios -> Nat]
      /\ Cardinality(Open) \in 0 .. NumScenarios
      /\ target - Sampling!Total(Shares) \in 0 .. Cardinality(Open)
  BY <1>1, LeftOverFits
<1>5. Sampling!TypeOK'
  <2>1. remaining' \in 0 .. NumScenarios
    <3>1. remaining' = target - Sampling!Total(Shares)
      BY <1>1, <1>2
    <3>2. NumScenarios \in Nat
      BY ScenariosAre
    <3> QED BY <1>4, <3>1, <3>2
  <2>2. quotas' \in [Sampling!Scenario -> Nat]
    BY <1>2, <1>4, ScenariosAre
  <2> QED BY <1>1, <2>1, <2>2 DEF SInv, Sampling!TypeOK
<1> QED BY <1>1, <1>2, <1>3, <1>5 DEF SInv

LEMMA LeftOverKeeps ==
  ASSUME SInv, Sampling!LeftOver
  PROVE  SInv'
<1> DEFINE open == {s \in Sampling!Nonempty : quotas[s] < available[s]}
<1>1. /\ step = "left_over" /\ step' = "fill" /\ Shared /\ next = 1
      /\ available' = available /\ target' = target /\ next' = next
      /\ quotas = Shares /\ remaining = target - Sampling!Total(Shares)
  BY DEF SInv, Sampling!LeftOver
<1>2. PICK lucky \in SUBSET open :
        /\ Cardinality(lucky) = Sampling!Min({remaining, Cardinality(open)})
        /\ \A s \in lucky, t \in open \ lucky : Sampling!Remainder(s) >= Sampling!Remainder(t)
        /\ quotas' = [s \in Sampling!Scenario |-> quotas[s] + IF s \in lucky THEN 1 ELSE 0]
        /\ remaining' = remaining - Cardinality(lucky)
  BY CardinalityIs DEF Sampling!LeftOver
<1>3. open = Open
  BY <1>1, ScenariosAre DEF Open, Shares, Sampling!Nonempty
<1>4. /\ Shares \in [1 .. NumScenarios -> Nat]
      /\ Sampling!Total(Shares) \in Nat
      /\ IsFiniteSet(Open) /\ Cardinality(Open) \in 0 .. NumScenarios
      /\ target - Sampling!Total(Shares) \in 0 .. Cardinality(Open)
  BY <1>1, LeftOverFits
<1>5. Cardinality(lucky) = remaining /\ remaining \in Nat /\ target \in Nat
  <2>1. remaining \in Nat /\ Cardinality(Open) \in Nat /\ remaining <= Cardinality(Open)
    BY <1>1, <1>4
  <2>2. \A a, b \in Nat : a <= b => Sampling!Min({a, b}) = a
    <3> SUFFICES ASSUME NEW a \in Nat, NEW b \in Nat, a <= b PROVE Sampling!Min({a, b}) = a
      OBVIOUS
    <3>1. Sampling!Min({a, b}) \in {a, b} /\ Sampling!Min({a, b}) <= a
      BY LeastOfTwo
    <3> QED BY <3>1
  <2> QED BY <1>1, <1>2, <1>3, <2>1, <2>2 DEF Shared
<1>6. lucky \subseteq 1 .. NumScenarios /\ lucky \subseteq Open
  BY <1>3 DEF Open
<1> DEFINE ones == Ones(NumScenarios, lucky)
<1>7. ones \in [1 .. NumScenarios -> Nat] /\ SeqSum(ones) = remaining
  BY <1>5, <1>6, ScenariosAre, SumOfOnes
<1>8. /\ quotas' \in [1 .. NumScenarios -> Nat]
      /\ \A s \in 1 .. NumScenarios : quotas'[s] = Shares[s] + ones[s]
  BY <1>1, <1>2, <1>4, ScenariosAre DEF Ones
<1>9. Sampling!Total(quotas') = target
  <2> DEFINE q == quotas'
  <2>1. SeqSum(q) = SeqSum(Shares) + SeqSum(ones)
    <3>1. q \in [1 .. NumScenarios -> Nat] /\ \A s \in 1 .. NumScenarios : q[s] = Shares[s] + ones[s]
      BY <1>8
    <3> HIDE DEF q, ones
    <3> QED BY <1>4, <1>7, <3>1, ScenariosAre, SumOfSums
  <2>2. Sampling!Total(quotas') = SeqSum(q) /\ Sampling!Total(Shares) = SeqSum(Shares)
    BY TotalIsSum
  <2> QED BY <1>1, <1>4, <1>5, <1>7, <2>1, <2>2
<1>10. \A s \in 1 .. NumScenarios :
         /\ quotas'[s] = Sampling!Base(s) + IF s \in lucky THEN 1 ELSE 0
         /\ Sampling!Base(s) \in Nat /\ Sampling!Base(s) <= available[s]
  BY <1>1, <1>2, ScenariosAre, ShareOfStratum DEF Shares
<1>11. \A s \in 1 .. NumScenarios : quotas'[s] <= available[s]
  <2> SUFFICES ASSUME NEW s \in 1 .. NumScenarios PROVE quotas'[s] <= available[s]
    OBVIOUS
  <2>1. available[s] \in Nat
    BY <1>1 DEF Shared
  <2>2. s \in lucky => Sampling!Base(s) < available[s]
    BY <1>6 DEF Open
  <2> QED BY <1>10, <2>1, <2>2
<1>12. ASSUME NEW s \in 1 .. NumScenarios, NEW t \in 1 .. NumScenarios,
              available[s] > available[t]
       PROVE  quotas'[s] >= quotas'[t]
  <2>1. CASE Sampling!Base(s) > Sampling!Base(t)
    BY <1>10, <2>1
  <2>2. CASE Sampling!Base(s) = Sampling!Base(t) /\ Sampling!Remainder(s) > Sampling!Remainder(t)
    <3> SUFFICES ASSUME t \in lucky, s \notin lucky PROVE FALSE
      BY <1>10, <2>2
    <3>1. /\ Sampling!Remainder(s) \in Nat /\ Sampling!Remainder(t) \in Nat
          /\ Sampling!Base(s) = available[s] => Sampling!Remainder(s) = 0
      BY <1>1, ShareOfStratum
    <3>2. s \notin open
      <4>1. ~ (Sampling!Remainder(t) >= Sampling!Remainder(s))
        BY <2>2, <3>1
      <4> HIDE DEF open
      <4> QED BY <1>2, <4>1
    <3>3. available[s] \in Nat /\ available[t] \in Nat
      BY <1>1 DEF Shared
    <3>4. Sampling!Base(s) = available[s]
      BY <1>3, <1>10, <1>12, <3>2, <3>3 DEF Open
    <3> QED BY <2>2, <3>1, <3>4
  <2> QED BY <1>1, <1>12, <2>1, <2>2, LargerStratum
<1>13. Rounded' /\ AtMostOneBehind'
  <2>1. \A s \in 1 .. NumScenarios : Sampling!Base(s)' = Sampling!Base(s)
    BY <1>1 DEF Sampling!Base
  <2>2. \A s \in 1 .. NumScenarios : quotas'[s] \in {Sampling!Base(s), Sampling!Base(s) + 1}
    BY <1>10
  <2>3. \A s \in 1 .. NumScenarios : quotas'[s] \in Nat
    BY <1>8
  <2>4. Rounded'
    BY <1>1, <1>12, <2>1, <2>2 DEF Rounded
  <2>5. AtMostOneBehind'
    BY <1>1, <1>12, <2>3 DEF AtMostOneBehind
  <2> QED BY <2>4, <2>5
<1>14. FillsTheSample' /\ Served(1)'
  <2>1. FillsTheSample'
    BY <1>1, <1>9, <1>11 DEF FillsTheSample
  <2>2. Served(1)'
    BY ScenariosAre DEF Served, Sampling!Nonempty
  <2> QED BY <2>1, <2>2
<1>15. Shared' /\ Sampling!TypeOK'
  <2>1. remaining' = 0 /\ 0 \in 0 .. NumScenarios
    BY <1>2, <1>5, ScenariosAre
  <2> QED BY <1>1, <1>8, <2>1, ScenariosAre DEF SInv, Shared, Sampling!TypeOK
<1> QED BY <1>1, <1>13, <1>14, <1>15 DEF SInv

(* A sample that is large enough for all strata with cases has a donor     *)
(* while one of them is empty.                                             *)
LEMMA DonorExists ==
  ASSUME Shared, quotas \in [1 .. NumScenarios -> Nat], FillsTheSample,
         target >= Cardinality(Sampling!Nonempty),
         NEW e \in Sampling!Nonempty, quotas[e] = 0
  PROVE  Sampling!Donors # {}
<1> SUFFICES ASSUME Sampling!Donors = {} PROVE FALSE
  OBVIOUS
<1> DEFINE N == 1 .. NumScenarios
           rest == Sampling!Nonempty \ {e}
           ones == Ones(NumScenarios, rest)
<1>1. /\ rest \subseteq N /\ NumScenarios \in Nat /\ available \in [N -> Nat]
      /\ quotas \in [N -> Nat] /\ e \in N /\ target \in Nat
  BY NonemptyIsFinite, ScenariosAre DEF Shared
<1>2. Cardinality(rest) = Cardinality(Sampling!Nonempty) - 1
  BY NonemptyIsFinite, FS_RemoveElement
<1>3. ones \in [N -> Nat] /\ SeqSum(ones) = Cardinality(rest)
  <2> HIDE DEF rest
  <2> QED BY <1>1, SumOfOnes
<1>4. \A s \in N : quotas[s] <= ones[s]
  <2> SUFFICES ASSUME NEW s \in N PROVE quotas[s] <= IF s \in rest THEN 1 ELSE 0
    BY DEF Ones
  <2>1. quotas[s] \in Nat /\ available[s] \in Nat /\ quotas[s] <= available[s]
    BY <1>1 DEF FillsTheSample
  <2>2. CASE s \in rest
    <3>1. ~ (quotas[s] > 1)
      BY <2>1, <2>2 DEF Sampling!Donors
    <3> QED BY <2>1, <2>2, <3>1
  <2>3. CASE s \notin rest
    <3>1. s = e \/ available[s] = 0
      BY <2>1, <2>3, ScenariosAre DEF Sampling!Nonempty
    <3> QED BY <2>1, <2>3, <3>1
  <2> QED BY <2>2, <2>3
<1>5. SeqSum(quotas) <= SeqSum(ones)
  <2> HIDE DEF ones
  <2> QED BY <1>1, <1>3, <1>4, SumGrows
<1>6. SeqSum(quotas) = target
  BY TotalIsSum DEF FillsTheSample
<1>7. Cardinality(Sampling!Nonempty) \in Nat
  BY NonemptyIsFinite
<1> QED BY <1>1, <1>2, <1>3, <1>5, <1>6, <1>7

(* Moving a case from one stratum to another keeps the total.              *)
LEMMA TotalOfTransfer ==
  ASSUME NEW p \in [1 .. NumScenarios -> Nat], NEW q \in [1 .. NumScenarios -> Nat],
         NEW d \in 1 .. NumScenarios, NEW e \in 1 .. NumScenarios, d # e,
         p[d] > 0, q = [p EXCEPT ![d] = @ - 1, ![e] = @ + 1]
  PROVE  Sampling!Total(q) = Sampling!Total(p)
<1> DEFINE N == 1 .. NumScenarios
           rest == [p EXCEPT ![d] = @ - 1]
           give == Ones(NumScenarios, {d})
           take == Ones(NumScenarios, {e})
<1>1. rest \in [N -> Nat]
  OBVIOUS
<1>2. \A s \in N : p[s] = rest[s] + IF s \in {d} THEN 1 ELSE 0
  OBVIOUS
<1>3. \A s \in N : q[s] = rest[s] + IF s \in {e} THEN 1 ELSE 0
  OBVIOUS
<1>4. /\ give \in [N -> Nat] /\ SeqSum(give) = 1
      /\ take \in [N -> Nat] /\ SeqSum(take) = 1
  <2>1. Cardinality({d}) = 1 /\ Cardinality({e}) = 1
    BY FS_Singleton
  <2> QED BY <2>1, ScenariosAre, SumOfOnes
<1>5. /\ \A s \in N : p[s] = rest[s] + give[s]
      /\ \A s \in N : q[s] = rest[s] + take[s]
  <2> HIDE DEF rest
  <2> QED BY <1>2, <1>3 DEF Ones
<1>a. NumScenarios \in Nat /\ p \in [N -> Nat] /\ q \in [N -> Nat]
  BY ScenariosAre
<1> HIDE DEF rest, give, take
<1>6. SeqSum(p) = SeqSum(rest) + SeqSum(give)
  <2>1. \A s \in N : p[s] = rest[s] + give[s]
    BY <1>5
  <2> QED BY ONLY <1>a, <1>1, <1>4, <2>1, SumOfSums
<1>7. SeqSum(q) = SeqSum(rest) + SeqSum(take)
  <2>1. \A s \in N : q[s] = rest[s] + take[s]
    BY <1>5
  <2> QED BY ONLY <1>a, <1>1, <1>4, <2>1, SumOfSums
<1> QED BY <1>4, <1>6, <1>7, TotalIsSum

(* One iteration of the last loop: the best served stratum gives a case to *)
(* the empty one.                                                          *)
LEMMA FillKeeps ==
  ASSUME SInv, Sampling!Fill
  PROVE  SInv'
<1>1. /\ step = "fill" /\ step' = "fill" /\ next <= NumScenarios /\ next' = next + 1
      /\ available' = available /\ target' = target /\ remaining' = remaining
      /\ Shared /\ FillsTheSample /\ AtMostOneBehind /\ Served(next)
  BY DEF SInv, Sampling!Fill
<1>2. /\ next \in 1 .. NumScenarios /\ NumScenarios \in Nat
      /\ quotas \in [1 .. NumScenarios -> Nat] /\ available \in [1 .. NumScenarios -> Nat]
      /\ target \in Nat /\ remaining \in 0 .. NumScenarios
  BY <1>1, ScenariosAre DEF SInv, Sampling!TypeOK, Shared
<1>3. Shared' /\ Sampling!Nonempty' = Sampling!Nonempty
  BY <1>1 DEF Shared, Sampling!Nonempty
<1> DEFINE needy == /\ target >= Sampling!Cardinality(Sampling!Nonempty)
                    /\ next \in Sampling!Nonempty /\ quotas[next] = 0
                    /\ Sampling!Donors # {}
<1>4. CASE ~ needy
  <2>1. quotas' = quotas
    BY <1>4 DEF Sampling!Fill
  <2>2. FillsTheSample' /\ AtMostOneBehind'
    BY <1>1, <2>1 DEF FillsTheSample, AtMostOneBehind
  <2>3. Served(next)'
    <3> SUFFICES ASSUME target >= Cardinality(Sampling!Nonempty),
                        NEW s \in Sampling!Nonempty, s < next + 1
                 PROVE  quotas[s] > 0
      BY <1>1, <1>3, <2>1 DEF Served
    <3>1. s \in 1 .. NumScenarios
      BY NonemptyIsFinite
    <3>2. CASE s < next
      BY <1>1, <3>2 DEF Served
    <3>3. CASE s = next
      <4>1. quotas[s] # 0
        BY <1>1, <1>2, <1>4, <3>3, DonorExists, CardinalityIs
      <4> QED BY <1>2, <3>1, <4>1
    <3> QED BY <1>2, <3>1, <3>2, <3>3
  <2>4. Sampling!TypeOK'
    BY <1>1, <1>2, <2>1, ScenariosAre DEF SInv, Sampling!TypeOK
  <2> QED BY <1>1, <1>2, <1>3, <2>2, <2>3, <2>4 DEF SInv
<1>5. CASE needy
  <2>1. PICK donor \in Sampling!Donors :
          /\ \A d \in Sampling!Donors : Sampling!BetterServed(donor, d)
          /\ quotas' = [quotas EXCEPT ![donor] = @ - 1, ![next] = @ + 1]
    BY <1>5 DEF Sampling!Fill
  <2>2. /\ donor \in 1 .. NumScenarios /\ quotas[donor] > 1 /\ donor # next
        /\ next \in Sampling!Nonempty /\ quotas[next] = 0 /\ available[next] > 0
    BY <1>5, <2>1, NonemptyIsFinite DEF Sampling!Donors, Sampling!Nonempty
  <2>3. \A s \in 1 .. NumScenarios : quotas[s] <= quotas[donor]
    <3> SUFFICES ASSUME NEW s \in 1 .. NumScenarios, quotas[s] > quotas[donor] PROVE FALSE
      BY <1>2, <2>2
    <3>1. quotas[s] \in Nat /\ quotas[donor] \in Nat /\ available[s] \in Nat
      BY <1>2, <2>2
    <3>2. quotas[s] <= available[s]
      BY <1>1 DEF FillsTheSample
    <3>3. s \in Sampling!Donors
      BY <2>2, <3>1, <3>2, ScenariosAre DEF Sampling!Donors, Sampling!Nonempty
    <3>4. Sampling!BetterServed(donor, s)
      BY <2>1, <3>3
    <3> QED BY <3>1, <3>4 DEF Sampling!BetterServed
  <2>4. /\ quotas' \in [1 .. NumScenarios -> Nat]
        /\ quotas'[donor] = quotas[donor] - 1 /\ quotas'[next] = 1
        /\ \A s \in 1 .. NumScenarios : s # donor /\ s # next => quotas'[s] = quotas[s]
    <3>1. quotas[donor] - 1 \in Nat /\ quotas[next] + 1 = 1
      BY <1>2, <2>2
    <3>2. quotas' = [[quotas EXCEPT ![donor] = quotas[donor] - 1] EXCEPT ![next] = 1]
      BY <1>2, <2>1, <2>2, <3>1
    <3>3. DOMAIN quotas = 1 .. NumScenarios
      BY <1>2
    <3> QED BY <1>2, <2>2, <3>1, <3>2, <3>3
  <2>5. Sampling!Total(quotas') = target
    <3> DEFINE q == quotas'
    <3>1. q \in [1 .. NumScenarios -> Nat] /\ q = [quotas EXCEPT ![donor] = @ - 1, ![next] = @ + 1]
      BY <2>1, <2>4
    <3>2. quotas[donor] > 0
      BY <1>2, <2>2
    <3> HIDE DEF q
    <3>3. Sampling!Total(q) = Sampling!Total(quotas)
      BY <1>2, <2>2, <3>1, <3>2, TotalOfTransfer
    <3> QED BY <1>1, <3>3 DEF q, FillsTheSample
  <2>6. \A s \in 1 .. NumScenarios : quotas'[s] <= available[s]
    <3> SUFFICES ASSUME NEW s \in 1 .. NumScenarios PROVE quotas'[s] <= available[s]
      OBVIOUS
    <3>1. quotas[s] \in Nat /\ available[s] \in Nat /\ quotas[s] <= available[s]
      BY <1>1, <1>2 DEF FillsTheSample
    <3> QED BY <2>2, <2>4, <3>1
  <2>7. AtMostOneBehind'
    <3> SUFFICES ASSUME NEW s \in 1 .. NumScenarios, NEW t \in 1 .. NumScenarios,
                        available[s] > available[t]
                 PROVE  quotas'[s] + 1 >= quotas'[t]
      BY <1>1 DEF AtMostOneBehind
    <3>1. /\ quotas[s] \in Nat /\ quotas[t] \in Nat /\ quotas[donor] \in Nat
          /\ available[s] \in Nat /\ available[t] \in Nat
      BY <1>2, <2>2
    <3>2. quotas[s] + 1 >= quotas[t] /\ quotas[t] <= quotas[donor]
      BY <1>1, <2>3 DEF AtMostOneBehind
    <3>3. CASE s = donor
      BY <2>2, <2>4, <3>1, <3>2, <3>3
    <3>4. CASE s = next
      <4>1. t # donor
        BY <2>2, <3>1, <3>2, <3>4
      <4>2. t # next
        BY <3>1, <3>4
      <4> QED BY <2>2, <2>4, <3>1, <3>2, <3>4, <4>1, <4>2
    <3>5. CASE s # donor /\ s # next
      BY <2>2, <2>4, <3>1, <3>2, <3>5
    <3> QED BY <3>3, <3>4, <3>5
  <2>8. Served(next)'
    <3> SUFFICES ASSUME target >= Cardinality(Sampling!Nonempty),
                        NEW s \in Sampling!Nonempty, s < next + 1
                 PROVE  quotas'[s] > 0
      BY <1>1, <1>3 DEF Served
    <3>1. s \in 1 .. NumScenarios /\ quotas[donor] \in Nat
      BY <1>2, <2>2, NonemptyIsFinite
    <3>2. CASE s = donor \/ s = next
      BY <2>2, <2>4, <3>1, <3>2
    <3>3. CASE s # donor /\ s # next
      <4>1. s < next
        BY <1>2, <3>1, <3>3
      <4>2. quotas[s] > 0
        BY <1>1, <4>1 DEF Served
      <4> QED BY <2>4, <3>1, <3>3, <4>2
    <3> QED BY <3>2, <3>3
  <2>9. FillsTheSample'
    BY <1>1, <2>5, <2>6 DEF FillsTheSample
  <2>10. Sampling!TypeOK'
    BY <1>1, <1>2, <2>4, ScenariosAre DEF SInv, Sampling!TypeOK
  <2> QED BY <1>1, <1>2, <1>3, <2>7, <2>8, <2>9, <2>10 DEF SInv
<1> QED BY <1>4, <1>5

LEMMA FilledKeeps ==
  ASSUME SInv, Sampling!Filled
  PROVE  SInv'
<1>1. /\ step = "fill" /\ step' = "done" /\ next > NumScenarios
      /\ available' = available /\ target' = target /\ remaining' = remaining
      /\ quotas' = quotas /\ next' = next
  BY DEF Sampling!Filled
<1>2. next = NumScenarios + 1
  BY <1>1, ScenariosAre DEF SInv, Sampling!TypeOK
<1>3. /\ Shared' = Shared /\ FillsTheSample' = FillsTheSample /\ Sampling!Nonempty' = Sampling!Nonempty
      /\ AtMostOneBehind' = AtMostOneBehind
  BY <1>1 DEF Shared, FillsTheSample, AtMostOneBehind, Sampling!Nonempty
<1>4. Served(next) => Served(next)'
  BY <1>1, <1>3 DEF Served
<1>5. Sampling!TypeOK'
  BY <1>1 DEF SInv, Sampling!TypeOK
<1> QED BY <1>1, <1>2, <1>3, <1>4, <1>5 DEF SInv

LEMMA AllocateKeeps ==
  ASSUME SInv, Sampling!Allocate
  PROVE  SInv'
BY RoundDownKeeps, LeftOverKeeps, FillKeeps, FilledKeeps DEF Sampling!Allocate

-----------------------------------------------------------------------------
(* The invariant of the sampling among the batches.                        *)
FairInv ==
  /\ SInv
  /\ supported \subseteq Case
  /\ pool \subseteq Case

LEMMA SamplingUnchanged ==
  ASSUME SInv, UNCHANGED <<available, target, quotas, remaining, next, step>>
  PROVE  SInv'
<1>1. /\ Shared' = Shared /\ FillsTheSample' = FillsTheSample /\ AtMostOneBehind' = AtMostOneBehind
      /\ Shares' = Shares /\ Sampling!TypeOK' = Sampling!TypeOK
  BY DEF Shared, FillsTheSample, AtMostOneBehind, Shares, Sampling!Base, Sampling!TypeOK
<1>2. Rounded' = Rounded
  BY DEF Rounded, Sampling!Base
<1>3. Sampling!Nonempty' = Sampling!Nonempty
  BY DEF Sampling!Nonempty
<1>4. Served(next)' = Served(next)
  BY <1>3 DEF Served
<1> QED BY <1>1, <1>2, <1>4 DEF SInv

LEMMA HostStays ==
  ASSUME Batch \/ SelectByIds \/ SelectSample
  PROVE  supported' = supported
<1>1. ASSUME NEW record, Keep(record) PROVE supported' = supported
  BY <1>1 DEF Keep, environment
<1>2. ASSUME NEW ids, NEW dryRun, Select(ids, dryRun) PROVE supported' = supported
  BY <1>2 DEF Select, environment
<1>3. CASE SkipCase \/ ExecuteCase
  BY <1>1, <1>3 DEF SkipCase, ExecuteCase
<1>4. CASE Abort \/ GitTimesOut \/ Restart \/ WriteRaw \/ WriteSummary \/ WriteMetadata \/ Crash
  BY <1>4 DEF Abort, GitTimesOut, Restart, WriteRaw, WriteSummary, WriteMetadata, Crash, environment
<1>5. CASE SelectByIds \/ SelectSample
  BY <1>2, <1>5 DEF SelectByIds, SelectSample
<1> QED BY <1>3, <1>4, <1>5 DEF Batch

LEMMA SizesType ==
  ASSUME NEW cases \in SUBSET Case
  PROVE  Sizes(cases) \in [1 .. NumScenarios -> Nat]
<1> SUFFICES ASSUME NEW s \in 1 .. NumScenarios
             PROVE  Cardinality(InScenario(cases, s)) \in Nat
  BY DEF Sizes
<1>1. InScenario(cases, s) \subseteq Case
  BY DEF InScenario
<1> QED BY <1>1, AblationBatchAssumption, FS_Subset, FS_CardinalityType

LEMMA FairStep ==
  ASSUME FairInv, [AblationNext]_<<vars, sampling>>
  PROVE  FairInv'
<1>1. CASE SelectByIds
  <2>1. UNCHANGED sampling
    BY <1>1 DEF SelectByIds
  <2> QED BY <1>1, <2>1, HostStays, SamplingUnchanged DEF FairInv, sampling
<1>2. CASE DrawSample
  <2>1. PICK n \in 1 .. MaxSelected : Sampling!Start(Sizes(pool'), n)
    BY <1>2 DEF DrawSample
  <2>2. n \in Nat \ {0} /\ supported' = supported /\ pool' \subseteq Case
    BY <1>2, <2>1, AblationBatchAssumption DEF DrawSample, FairInv, vars
  <2>3. Sizes(pool') \in [1 .. NumScenarios -> Nat]
    BY <2>2, SizesType
  <2>4. SInv'
    BY <2>1, <2>2, <2>3, StartKeeps DEF FairInv
  <2> QED BY <2>2, <2>4 DEF FairInv
<1>3. CASE SampleInventory
  <2>1. PICK sizes \in [1 .. NumScenarios -> 0 .. MaxCases], n \in 1 .. MaxSample :
          Sampling!Start(sizes, n)
    BY <1>3 DEF SampleInventory
  <2>2. n \in Nat \ {0} /\ sizes \in [1 .. NumScenarios -> Nat]
    BY <2>1, AblationAssumption
  <2>3. SInv'
    BY <2>1, <2>2, StartKeeps DEF FairInv
  <2>4. supported' = supported /\ pool' = {}
    BY <1>3 DEF SampleInventory, vars
  <2> QED BY <2>3, <2>4 DEF FairInv
<1>4. CASE AllocateStrata
  BY <1>4, AllocateKeeps DEF AllocateStrata, FairInv, vars
<1>5. CASE SelectSample
  <2>1. Sampling!Return /\ pool' = {}
    BY <1>5 DEF SelectSample
  <2> QED BY <1>5, <2>1, HostStays, ReturnKeeps DEF FairInv
<1>6. CASE RunBatch
  <2>1. UNCHANGED sampling /\ Batch
    BY <1>6 DEF RunBatch
  <2> QED BY <2>1, HostStays, SamplingUnchanged DEF FairInv, sampling
<1>7. CASE UNCHANGED <<vars, sampling>>
  BY <1>7, SamplingUnchanged DEF FairInv, vars, sampling
<1> QED BY <1>1, <1>2, <1>3, <1>4, <1>5, <1>6, <1>7 DEF AblationNext

LEMMA FairInvIsEnough ==
  ASSUME FairInv
  PROVE  SampleIsFair
<1>1. SamplingTypeOK
  BY DEF FairInv, SInv, SamplingTypeOK
<1>2. QuotasFillTheSample
  BY ScenariosAre DEF FairInv, SInv, QuotasFillTheSample, Sampling!QuotasFillTheSample, FillsTheSample
<1>3. EveryStratumServed
  <2> SUFFICES ASSUME step = "done", target >= Cardinality(Sampling!Nonempty),
                      NEW s \in Sampling!Nonempty
               PROVE  quotas[s] > 0
    BY CardinalityIs DEF EveryStratumServed, Sampling!EveryStratumServed
  <2>1. Served(next) /\ next = NumScenarios + 1
    BY DEF FairInv, SInv
  <2>2. s < next
    BY <2>1, NonemptyIsFinite, ScenariosAre
  <2> QED BY <2>1, <2>2 DEF Served
<1>4. Proportional
  BY ScenariosAre DEF FairInv, SInv, Proportional, Sampling!Proportional, Rounded, AtMostOneBehind
<1> QED BY <1>1, <1>2, <1>3, <1>4 DEF SampleIsFair

(* Whatever inventory is sampled and however large the sample: the quotas  *)
(* of allocate_strata ask for the whole sample and never for more than a   *)
(* scenario has, leave no scenario with cases out of a sample that is      *)
(* large enough, and stay proportional.                                    *)
THEOREM FairSample == AblationSpec => []SampleIsFair
<1>1. AblationInit => FairInv
  BY SamplingStarts DEF AblationInit, Init, FairInv
<1>2. FairInv /\ [AblationNext]_<<vars, sampling>> => FairInv'
  BY FairStep
<1>3. FairInv => SampleIsFair
  BY FairInvIsEnough
<1> QED BY <1>1, <1>2, <1>3, PTL DEF AblationSpec

-----------------------------------------------------------------------------
(***************************************************************************)
(* A batch: classification.                                                *)
(***************************************************************************)
LEMMA TerminationIsKind ==
  ASSUME NEW o \in Outcome
  PROVE  Termination(o) \in Kind
BY DEF Termination, Kind

(* What counts as triggered is what neither ended well nor failed to build *)
(* nor ran out of time.                                                    *)
LEMMA TriggeredIsKind ==
  ASSUME NEW o \in Outcome
  PROVE  Triggered(o) <=> Termination(o) \notin {"success", "build_failed", "timeout"}
<1>1. o.timeout \in BOOLEAN /\ o.build \in BOOLEAN /\ o.panic \in BOOLEAN
  BY DEF Outcome
<1>2. CASE o.timeout \/ o.build
  BY <1>1, <1>2 DEF Termination, Triggered
<1>3. CASE ~ o.timeout /\ ~ o.build /\ MemoryError(o)
  BY <1>1, <1>3 DEF Termination, Triggered
<1>4. CASE ~ o.timeout /\ ~ o.build /\ ~ MemoryError(o) /\ o.panic
  BY <1>1, <1>4 DEF Termination, Triggered
<1>5. CASE ~ o.timeout /\ ~ o.build /\ ~ MemoryError(o) /\ ~ o.panic
  BY <1>1, <1>5 DEF Termination, Triggered
<1> QED BY <1>1, <1>2, <1>3, <1>4, <1>5

(* The two classifications of a run agree (classify_termination and        *)
(* classify_panic_triggered).                                              *)
THEOREM ClassificationsAgree == AblationSpec => []TriggeredMatchesKind
<1>1. TriggeredMatchesKind
  BY TriggeredIsKind DEF TriggeredMatchesKind, Executed
<1> QED BY <1>1, PTL

-----------------------------------------------------------------------------
(***************************************************************************)
(* A batch: its invariant.                                                 *)
(***************************************************************************)
(* The cases of an invocation, each with both panic strategies.            *)
Pairs(ids) == [i \in 1 .. 2 * Len(ids) |-> <<ids[(i + 1) \div 2], Modes[2 - (i % 2)]>>]

PairOf(record) == <<record.case, record.mode>>

(* What is recorded and what is left to do are the selection, in order.    *)
ProgressOK ==
  /\ pc = "idle" => todo = << >>
  /\ pc = "execute" => todo # << >>
  /\ pc \in {"raw", "summary", "metadata"} => todo = << >>
  /\ pc # "idle" =>
       /\ selected # << >> /\ run >= 1
       /\ selection.run = run /\ selection.cases = selected
       /\ Len(records) + Len(todo) = 2 * Len(selected)
       /\ \A i \in 1 .. Len(records) : /\ PairOf(records[i]) = Pairs(selected)[i]
                                       /\ logs[PairOf(records[i])] = run
       /\ \A i \in 1 .. Len(todo) : todo[i] = Pairs(selected)[Len(records) + i]

(* The raw file is of this invocation from WriteRaw on, and of an earlier  *)
(* one before.                                                             *)
RawOK ==
  /\ rawFile # Absent =>
       /\ rawFile.run \in 0 .. run
       /\ pc \in {"execute", "raw", "aborted"} => rawFile.run < run
  /\ pc \in {"summary", "metadata"} => rawFile.run = run /\ rawFile.rows = records
  /\ RawIsComplete

BothModes(rows) == \A m \in Mode : \E i \in DOMAIN rows : rows[i].mode = m

(* The summary counts the rows of the raw file beside it.                  *)
SummaryOK ==
  /\ pc = "metadata" => summary.run = run /\ summary.rows = MakeSummary(records)
  /\ summary # Absent /\ pc \notin {"summary", "metadata"} /\ ~ cutOff =>
       /\ rawFile.run = summary.run /\ metadata.run = summary.run
       /\ rawFile.rows \in Seq(Record) /\ BothModes(rawFile.rows)
       /\ summary.rows = MakeSummary(rawFile.rows)

BatchInv ==
  /\ TypeOK
  /\ ProgressOK
  /\ RawOK
  /\ SummaryOK

LEMMA PairsType ==
  ASSUME NEW ids \in Seq(Case), ids # << >>
  PROVE  /\ Pairs(ids) \in Seq(Case \X Mode) /\ Len(Pairs(ids)) = 2 * Len(ids)
         /\ Len(ids) >= 1
         /\ Pairs(ids)[1][2] = "unwind" /\ Pairs(ids)[2][2] = "abort"
<1>1. Len(ids) \in Nat /\ Len(ids) >= 1
  OBVIOUS
<1>2. ASSUME NEW i \in 1 .. 2 * Len(ids)
      PROVE  <<ids[(i + 1) \div 2], Modes[2 - (i % 2)]>> \in Case \X Mode
  <2>1. (i + 1) \div 2 \in 1 .. Len(ids)
    BY <1>1
  <2>2. ids[(i + 1) \div 2] \in Case
    BY <2>1
  <2>3. 2 - (i % 2) = 1 \/ 2 - (i % 2) = 2
    BY <1>1
  <2>4. Modes[2 - (i % 2)] \in Mode
    BY <2>3 DEF Modes, Mode
  <2> QED BY <2>2, <2>4
<1>3. Pairs(ids) \in [1 .. 2 * Len(ids) -> Case \X Mode]
  BY <1>2 DEF Pairs
<1>4. 2 * Len(ids) \in Nat /\ 1 \in 1 .. 2 * Len(ids) /\ 2 \in 1 .. 2 * Len(ids)
  BY <1>1
<1>5. Pairs(ids)[1][2] = "unwind" /\ Pairs(ids)[2][2] = "abort"
  BY <1>4 DEF Pairs, Modes
<1> QED BY <1>1, <1>3, <1>4, <1>5

(* The types of the published files and of what an invocation has.         *)
FileTypes ==
  /\ rawFile # Absent => rawFile.rows \in Seq(Record)
  /\ summary # Absent => \E R \in SUBSET (Groups \X Mode) : summary.rows \in [R -> Counts]

RunTypes ==
  /\ run \in 0 .. MaxRuns
  /\ selected \in Seq(Case)
  /\ todo \in Seq(Case \X Mode)
  /\ records \in Seq(Record)
  /\ pc \in {"idle", "execute", "raw", "summary", "metadata", "aborted"}
  /\ logs \in [Case \X Mode -> 0 .. MaxRuns]

LEMMA Types == TypeOK <=> FileTypes /\ RunTypes
BY DEF TypeOK, FileTypes, RunTypes

LEMMA BatchStarts == ASSUME Init PROVE BatchInv
<1>1. TypeOK
  BY AblationBatchAssumption DEF Init, TypeOK
<1> QED BY <1>1 DEF Init, BatchInv, ProgressOK, RawOK, RawIsComplete, SummaryOK

LEMMA BatchUnchanged ==
  ASSUME BatchInv, UNCHANGED vars
  PROVE  BatchInv'
BY DEF BatchInv, vars, TypeOK, ProgressOK, RawOK, RawIsComplete, SummaryOK

LEMMA SelectKeeps ==
  ASSUME BatchInv, NEW ids \in Seq(Case), ids # << >>, NEW dryRun, Select(ids, dryRun)
  PROVE  BatchInv'
<1>1. /\ pc = "idle" /\ run' = run + 1 /\ run < MaxRuns /\ run \in 0 .. MaxRuns
      /\ selection' = [run |-> run', cases |-> ids]
      /\ records' = << >>
      /\ rawFile' = rawFile /\ summary' = summary /\ metadata' = metadata
      /\ logs' = logs /\ cutOff' = cutOff
  BY DEF Select, results, BatchInv, TypeOK
<1>2. run' \in 1 .. MaxRuns /\ run \in Nat
  BY <1>1, AblationBatchAssumption
<1>3. RawOK'
  <2>1. rawFile' # Absent => rawFile'.run \in 0 .. run' /\ rawFile'.run < run'
    BY <1>1, <1>2 DEF BatchInv, RawOK
  <2>2. pc' \in {"idle", "execute"}
    BY <1>1 DEF Select
  <2> QED BY <2>1, <2>2 DEF RawOK, RawIsComplete
<1>4. CASE dryRun
  <2>1. selected' = selected /\ todo' = todo /\ pc' = pc
    BY <1>4 DEF Select
  <2>2. TypeOK'
    <3>1. FileTypes /\ RunTypes
      BY Types DEF BatchInv
    <3>2. FileTypes'
      BY <1>1, <3>1 DEF FileTypes
    <3>3. << >> \in Seq(Record)
      OBVIOUS
    <3>4. RunTypes'
      BY <1>1, <1>2, <2>1, <3>1, <3>3 DEF RunTypes
    <3> QED BY <3>2, <3>4 DEF TypeOK, FileTypes, RunTypes
  <2> QED BY <1>1, <1>3, <2>1, <2>2
          DEF BatchInv, ProgressOK, SummaryOK
<1>5. CASE ~ dryRun
  <2>1. selected' = ids /\ todo' = Pairs(ids) /\ pc' = "execute"
    BY <1>5 DEF Select, Pairs
  <2>2. Pairs(ids) \in Seq(Case \X Mode) /\ Len(Pairs(ids)) = 2 * Len(ids) /\ Len(ids) >= 1
    BY PairsType
  <2>3. TypeOK'
    <3>1. FileTypes /\ RunTypes
      BY Types DEF BatchInv
    <3>2. FileTypes'
      BY <1>1, <3>1 DEF FileTypes
    <3>3. << >> \in Seq(Record)
      OBVIOUS
    <3>4. RunTypes'
      BY <1>1, <1>2, <2>1, <2>2, <3>1, <3>3 DEF RunTypes
    <3> QED BY <3>2, <3>4 DEF TypeOK, FileTypes, RunTypes
  <2>4. ProgressOK'
    <3>1. todo' # << >> /\ Len(records') = 0 /\ Len(todo') = 2 * Len(selected')
      BY <1>1, <2>1, <2>2
    <3>2. \A i \in 1 .. Len(todo') : todo'[i] = Pairs(selected')[Len(records') + i]
      BY <2>1, <3>1
    <3> QED BY <1>1, <1>2, <2>1, <3>1, <3>2 DEF ProgressOK
  <2>5. SummaryOK'
    BY <1>1, <2>1 DEF BatchInv, SummaryOK
  <2> QED BY <1>3, <2>1, <2>3, <2>4, <2>5 DEF BatchInv
<1> QED BY <1>4, <1>5

(* A record of the pair in turn is kept.                                   *)
LEMMA KeepKeeps ==
  ASSUME BatchInv, pc = "execute", NEW record \in Record, PairOf(record) = Head(todo),
         Keep(record)
  PROVE  BatchInv'
<1>1. /\ records' = Append(records, record)
      /\ logs' = [logs EXCEPT ![Head(todo)] = run]
      /\ todo' = Tail(todo)
      /\ pc' = IF todo' = << >> THEN "raw" ELSE "execute"
      /\ host' = host /\ run' = run /\ selected' = selected /\ selection' = selection
      /\ rawFile' = rawFile /\ summary' = summary /\ metadata' = metadata /\ cutOff' = cutOff
  BY DEF Keep, environment, results
<1>2. /\ todo \in Seq(Case \X Mode) /\ todo # << >> /\ records \in Seq(Record)
      /\ selected \in Seq(Case) /\ run \in 1 .. MaxRuns
      /\ logs \in [Case \X Mode -> 0 .. MaxRuns]
  BY DEF BatchInv, TypeOK, ProgressOK
<1>3. /\ Head(todo) = todo[1] /\ Head(todo) \in Case \X Mode
      /\ Tail(todo) \in Seq(Case \X Mode) /\ Len(Tail(todo)) = Len(todo) - 1
      /\ Len(todo) \in Nat \ {0}
      /\ \A i \in 1 .. Len(Tail(todo)) : Tail(todo)[i] = todo[i + 1]
  BY <1>2
<1>4. /\ Append(records, record) \in Seq(Record)
      /\ Len(records) \in Nat /\ Len(Append(records, record)) = Len(records) + 1
      /\ \A i \in 1 .. Len(records) : Append(records, record)[i] = records[i]
      /\ Append(records, record)[Len(records) + 1] = record
  BY <1>2
<1>5. /\ logs' \in [Case \X Mode -> 0 .. MaxRuns]
      /\ logs'[Head(todo)] = run
      /\ \A p \in Case \X Mode : logs[p] = run => logs'[p] = run
  BY <1>1, <1>2, <1>3
<1>6. TypeOK'
  BY <1>1, <1>2, <1>3, <1>4, <1>5 DEF BatchInv, TypeOK
<1>7. ProgressOK'
  <2>1. /\ selection.run = run /\ selection.cases = selected /\ selected # << >>
        /\ Len(records) + Len(todo) = 2 * Len(selected)
        /\ \A i \in 1 .. Len(records) : /\ PairOf(records[i]) = Pairs(selected)[i]
                                        /\ logs[PairOf(records[i])] = run
        /\ \A i \in 1 .. Len(todo) : todo[i] = Pairs(selected)[Len(records) + i]
    BY DEF BatchInv, ProgressOK
  <2>2. Len(records') + Len(todo') = 2 * Len(selected')
    <3>1. Len(selected) \in Nat
      BY <1>2
    <3>2. Len(records') = Len(records) + 1 /\ Len(todo') = Len(todo) - 1
      BY <1>1, <1>3, <1>4
    <3>3. (Len(records) + 1) + (Len(todo) - 1) = Len(records) + Len(todo)
      BY <1>3, <1>4
    <3> QED BY <1>1, <2>1, <3>2, <3>3
  <2>3. ASSUME NEW i \in 1 .. Len(records')
        PROVE  /\ PairOf(records'[i]) = Pairs(selected')[i]
               /\ logs'[PairOf(records'[i])] = run'
    <3>1. CASE i \in 1 .. Len(records)
      <4>1. records'[i] = records[i] /\ records[i] \in Record
        BY <1>1, <1>2, <1>4, <3>1
      <4>2. PairOf(records[i]) \in Case \X Mode
        BY <4>1 DEF PairOf, Record
      <4> QED BY <1>1, <1>5, <2>1, <3>1, <4>1, <4>2
    <3>2. CASE i = Len(records) + 1
      <4>1. records'[i] = record
        BY <1>1, <1>4, <3>2
      <4>2. todo[1] = Pairs(selected)[Len(records) + 1]
        BY <1>3, <2>1
      <4> QED BY <1>1, <1>3, <1>5, <3>2, <4>1, <4>2
    <3> QED BY <1>1, <1>4, <3>1, <3>2
  <2>4. ASSUME NEW i \in 1 .. Len(todo')
        PROVE  todo'[i] = Pairs(selected')[Len(records') + i]
    <3>1. i + 1 \in 1 .. Len(todo) /\ todo'[i] = todo[i + 1]
      BY <1>1, <1>3
    <3>2. Len(records') + i = Len(records) + (i + 1)
      BY <1>1, <1>4
    <3> QED BY <1>1, <2>1, <3>1, <3>2
  <2>5. /\ pc' \in {"execute", "raw"}
        /\ pc' = "execute" => todo' # << >>
        /\ pc' = "raw" => todo' = << >>
    BY <1>1
  <2>6. run' >= 1 /\ selected' # << >> /\ selection'.run = run' /\ selection'.cases = selected'
    BY <1>1, <1>2, <2>1
  <2> QED BY <2>2, <2>3, <2>4, <2>5, <2>6 DEF ProgressOK
<1>8. RawOK'
  <2>1. rawFile # Absent => rawFile.run \in 0 .. run /\ rawFile.run < run
    BY DEF BatchInv, RawOK
  <2>2. run \in Nat /\ pc' \in {"execute", "raw"}
    BY <1>1, <1>2, AblationBatchAssumption
  <2>3. RawIsComplete'
    BY <1>1, <2>1, <2>2 DEF RawIsComplete
  <2> QED BY <1>1, <2>1, <2>2, <2>3 DEF RawOK
<1>9. SummaryOK'
  BY <1>1 DEF BatchInv, SummaryOK
<1> QED BY <1>1, <1>6, <1>7, <1>8, <1>9 DEF BatchInv

LEMMA CaseKeeps ==
  ASSUME BatchInv, SkipCase \/ ExecuteCase
  PROVE  BatchInv'
<1>1. /\ pc = "execute" /\ todo # << >> /\ todo \in Seq(Case \X Mode)
      /\ run \in 1 .. MaxRuns
  <2>1. pc = "execute"
    BY DEF SkipCase, ExecuteCase
  <2> QED BY <2>1 DEF BatchInv, ProgressOK, TypeOK
<1>2. Head(todo) \in Case \X Mode
  BY <1>1
<1>3. CASE SkipCase
  <2>1. NotExecuted(Head(todo), FALSE) \in Record
    BY <1>1, <1>2 DEF NotExecuted, Record, Kind
  <2>2. PairOf(NotExecuted(Head(todo), FALSE)) = Head(todo)
    BY <1>2 DEF NotExecuted, PairOf
  <2> QED BY <1>1, <1>3, <2>1, <2>2, KeepKeeps DEF SkipCase
<1>4. CASE ExecuteCase
  <2>1. PICK o \in Outcomes : Keep(Executed(Head(todo), o))
    BY <1>4 DEF ExecuteCase
  <2>2. o \in Outcome
    BY <2>1, AblationBatchAssumption
  <2>3. Executed(Head(todo), o) \in Record
    <3>1. Termination(o) \in Kind
      BY <2>2, TerminationIsKind
    <3>2. Triggered(o) \in BOOLEAN /\ (~ o.timeout /\ o.exit = "0") \in BOOLEAN
      BY DEF Triggered
    <3> QED BY <1>1, <1>2, <3>1, <3>2 DEF Executed, Record
  <2>4. PairOf(Executed(Head(todo), o)) = Head(todo)
    BY <1>2 DEF Executed, PairOf
  <2> QED BY <1>1, <2>1, <2>3, <2>4, KeepKeeps
<1> QED BY <1>3, <1>4

LEMMA AbortKeeps ==
  ASSUME BatchInv, Abort \/ GitTimesOut
  PROVE  BatchInv'
<1>1. /\ pc' = "aborted" /\ pc \in {"execute", "raw"}
      /\ UNCHANGED <<host, run, selected, todo, records, selection, rawFile, summary,
                     metadata, logs, cutOff>>
  BY DEF Abort, GitTimesOut, environment, results
<1>2. TypeOK'
  BY <1>1 DEF BatchInv, TypeOK
<1>3. ProgressOK'
  BY <1>1 DEF BatchInv, ProgressOK
<1>4. RawOK'
  BY <1>1 DEF BatchInv, RawOK, RawIsComplete
<1>5. SummaryOK'
  BY <1>1 DEF BatchInv, SummaryOK
<1> QED BY <1>1, <1>2, <1>3, <1>4, <1>5 DEF BatchInv

LEMMA WriteRawKeeps ==
  ASSUME BatchInv, WriteRaw
  PROVE  BatchInv'
<1>1. /\ pc = "raw" /\ pc' = "summary" /\ rawFile' = [run |-> run, rows |-> records]
      /\ UNCHANGED <<host, run, selected, todo, records, selection, summary, metadata,
                     logs, cutOff>>
  BY DEF WriteRaw, environment
<1>2. records \in Seq(Record) /\ run \in Nat /\ todo = << >> /\ selected \in Seq(Case)
  BY <1>1, AblationBatchAssumption DEF BatchInv, TypeOK, ProgressOK
<1>3. TypeOK'
  BY <1>1, <1>2 DEF BatchInv, TypeOK
<1>4. ProgressOK'
  BY <1>1 DEF BatchInv, ProgressOK
<1>5. RawIsComplete'
  <2>1. /\ selection.run = run /\ selection.cases = selected
        /\ Len(records) + Len(todo) = 2 * Len(selected)
        /\ \A i \in 1 .. Len(records) : /\ PairOf(records[i]) = Pairs(selected)[i]
                                        /\ logs[PairOf(records[i])] = run
    BY <1>1 DEF BatchInv, ProgressOK
  <2>2. Len(records) = 2 * Len(selected) /\ DOMAIN records = 1 .. Len(records)
    BY <1>2, <2>1
  <2>3. [i \in DOMAIN records |-> PairOf(records[i])] = Pairs(selected)
    <3>1. Pairs(selected) = [i \in 1 .. 2 * Len(selected) |-> Pairs(selected)[i]]
      BY DEF Pairs
    <3> QED BY <2>1, <2>2, <3>1
  <2> QED BY <1>1, <2>1, <2>2, <2>3 DEF RawIsComplete, PairOf, Pairs
<1>6. RawOK'
  BY <1>1, <1>2, <1>5 DEF RawOK
<1>7. SummaryOK'
  BY <1>1 DEF SummaryOK
<1> QED BY <1>1, <1>3, <1>4, <1>6, <1>7 DEF BatchInv

-----------------------------------------------------------------------------
(***************************************************************************)
(* A batch: the summary.                                                   *)
(***************************************************************************)
Partition(e, n, A) ==
  /\ e \in [1 .. n -> SUBSET A]
  /\ \A j, k \in 1 .. n : j # k => e[j] \cap e[k] = {}
  /\ \A a \in A : \E j \in 1 .. n : a \in e[j]

SizesOf(e, n, q) ==
  /\ q \in [1 .. n -> Nat]
  /\ \A j \in 1 .. n : q[j] = Cardinality(e[j])

(* The sizes of the parts of a set add up to its size.                     *)
LEMMA SumOfParts ==
  ASSUME NEW n \in Nat, NEW A, IsFiniteSet(A), NEW e, Partition(e, n, A),
         NEW q, SizesOf(e, n, q)
  PROVE  SeqSum(q) = Cardinality(A)
<1>p. /\ e \in [1 .. n -> SUBSET A]
      /\ \A j, k \in 1 .. n : j # k => e[j] \cap e[k] = {}
      /\ \A a \in A : \E j \in 1 .. n : a \in e[j]
  BY DEF Partition
<1>q. q \in [1 .. n -> Nat] /\ \A j \in 1 .. n : q[j] = Cardinality(e[j])
  BY DEF SizesOf
<1>0. q \in Seq(Nat) /\ Len(q) = n
  BY <1>q
<1>1. PICK s : Sums(s, q) /\ SeqSum(q) = s[n]
  BY <1>0, SumUnfolds
<1> DEFINE B(i) == {a \in A : \E j \in 1 .. i : a \in e[j]}
           S == {i \in 0 .. n : s[i] = Cardinality(B(i))}
<1>2. \A i \in 0 .. n : IsFiniteSet(B(i)) /\ Cardinality(B(i)) \in Nat
  <2>1. \A i \in 0 .. n : B(i) \subseteq A
    OBVIOUS
  <2> HIDE DEF B
  <2> QED BY <2>1, FS_Subset, FS_CardinalityType
<1>3. 0 \in S
  <2>1. B(0) = {}
    OBVIOUS
  <2>2. Cardinality(B(0)) = 0 /\ s[0] = 0
    BY <2>1, <1>1, FS_EmptySet DEF Sums
  <2> HIDE DEF B
  <2> QED BY <2>2
<1>4. ASSUME NEW i \in 0 .. n - 1, i \in S
      PROVE  i + 1 \in S
  <2>1. i \in 0 .. n /\ i + 1 \in 1 .. n /\ (i + 1) - 1 = i
    OBVIOUS
  <2>2. s[i + 1] = s[i] + Cardinality(e[i + 1])
    BY <1>0, <1>1, <1>q, <2>1 DEF Sums
  <2>3. B(i + 1) = B(i) \union e[i + 1]
    <3>1. \A a : (\E j \in 1 .. i + 1 : a \in e[j]) <=> (\E j \in 1 .. i : a \in e[j]) \/ a \in e[i + 1]
      <4>1. 1 .. i + 1 = (1 .. i) \union {i + 1}
        BY <2>1
      <4> QED BY <4>1
    <3>2. e[i + 1] \subseteq A
      BY <1>p, <2>1
    <3> QED BY <3>1, <3>2
  <2>4. B(i) \cap e[i + 1] = {}
    <3> SUFFICES ASSUME NEW j \in 1 .. i PROVE e[j] \cap e[i + 1] = {}
      OBVIOUS
    <3>1. j \in 1 .. n /\ j # i + 1
      BY <2>1
    <3> QED BY <1>p, <2>1, <3>1
  <2>5. e[i + 1] \subseteq A /\ IsFiniteSet(e[i + 1]) /\ Cardinality(e[i + 1]) \in Nat
    <3>1. e[i + 1] \subseteq A
      BY <1>p, <2>1
    <3> QED BY <3>1, FS_Subset, FS_CardinalityType
  <2> DEFINE b == B(i)
  <2>6. Cardinality(B(i + 1)) = Cardinality(b) + Cardinality(e[i + 1])
    <3>1. IsFiniteSet(b) /\ Cardinality(b) \in Nat /\ B(i + 1) = b \union e[i + 1]
          /\ b \cap e[i + 1] = {}
      BY <1>2, <2>1, <2>3, <2>4
    <3> HIDE DEF B, b
    <3>2. Cardinality(b \cap e[i + 1]) = 0
      BY <3>1, FS_EmptySet
    <3>3. Cardinality(b \union e[i + 1]) =
            Cardinality(b) + Cardinality(e[i + 1]) - Cardinality(b \cap e[i + 1])
      BY <2>5, <3>1, FS_Union
    <3>4. Cardinality(B(i + 1)) = Cardinality(b \union e[i + 1])
      BY <3>1
    <3> QED BY <2>5, <3>1, <3>2, <3>3, <3>4
  <2>7. s[i] = Cardinality(b)
    BY <1>4
  <2>8. i + 1 \in 0 .. n
    BY <2>1
  <2> HIDE DEF B, b
  <2> QED BY <2>2, <2>6, <2>7, <2>8
<1>5. n \in S
  <2> HIDE DEF S
  <2>1. 0 .. n \subseteq S
    BY <1>3, <1>4, BoundedInduction
  <2> QED BY <2>1
<1>6. B(n) = A
  BY <1>p
<1> QED BY <1>1, <1>5, <1>6

(* SetToSeq lists every element of a finite set once.                      *)
LEMMA ListOfSet ==
  ASSUME NEW P, IsFiniteSet(P)
  PROVE  /\ Cardinality(P) \in Nat
         /\ SetToSeq(P) \in [1 .. Cardinality(P) -> P]
         /\ \A j, k \in 1 .. Cardinality(P) : SetToSeq(P)[j] = SetToSeq(P)[k] => j = k
         /\ \A x \in P : \E j \in 1 .. Cardinality(P) : SetToSeq(P)[j] = x
<1> DEFINE n == Cardinality(P)
           D == 1 .. n
<1>1. n \in Nat /\ ExistsBijection(D, P)
  BY FS_CardinalityType
<1>2. \E f \in [D -> P] : IsInjective(f)
  BY <1>1 DEF ExistsBijection, Bijection, Injection
<1>3. SetToSeq(P) \in [D -> P] /\ IsInjective(SetToSeq(P))
  BY <1>2 DEF SetToSeq
<1>4. SetToSeq(P) \in Injection(D, P)
  BY <1>3 DEF Injection
<1>5. Cardinality(D) = n
  <2> HIDE DEF n
  <2> QED BY <1>1, FS_Interval
<1>6. SetToSeq(P) \in Surjection(D, P)
  <2> HIDE DEF n, D
  <2> QED BY <1>4, <1>5, FS_Injection DEF n
<1>7. \A x \in P : \E j \in D : SetToSeq(P)[j] = x
  BY <1>6 DEF Surjection
<1>8. \A j, k \in D : SetToSeq(P)[j] = SetToSeq(P)[k] => j = k
  BY <1>3 DEF IsInjective
<1> QED BY <1>1, <1>3, <1>7, <1>8

(* The rows of a group.                                                    *)
Members(rows, g, m) ==
  {i \in DOMAIN rows : /\ rows[i].mode = m
                       /\ g = All \/ ScenarioOf[rows[i].case] = g}

LEMMA SummaryIs ==
  ASSUME NEW rows
  PROVE  MakeSummary(rows) =
           [row \in {gm \in Groups \X Mode : Members(rows, gm[1], gm[2]) # {}} |->
              Tally(rows, Members(rows, row[1], row[2]))]
BY DEF MakeSummary, Members

LEMMA MembersFinite ==
  ASSUME NEW rows \in Seq(Record), NEW I \in SUBSET DOMAIN rows
  PROVE  IsFiniteSet(I) /\ Cardinality(I) \in Nat
<1>1. DOMAIN rows = 1 .. Len(rows) /\ Len(rows) \in Nat
  OBVIOUS
<1>2. IsFiniteSet(DOMAIN rows)
  BY <1>1, FS_Interval
<1> QED BY <1>2, FS_Subset, FS_CardinalityType

LEMMA SummaryType ==
  ASSUME NEW rows \in Seq(Record)
  PROVE  \E R \in SUBSET (Groups \X Mode) : MakeSummary(rows) \in [R -> Counts]
<1> DEFINE R == {gm \in Groups \X Mode : Members(rows, gm[1], gm[2]) # {}}
<1>1. ASSUME NEW I \in SUBSET DOMAIN rows
      PROVE  Tally(rows, I) \in Counts
  <2>1. /\ Cardinality(I) \in Nat
        /\ Cardinality({i \in I : rows[i].supported}) \in Nat
        /\ Cardinality({i \in I : rows[i].executed}) \in Nat
        /\ Cardinality({i \in I : rows[i].success}) \in Nat
        /\ Cardinality({i \in I : rows[i].triggered}) \in Nat
        /\ Cardinality({i \in I : rows[i].kind = "timeout"}) \in Nat
    BY MembersFinite
  <2> QED BY <2>1 DEF Tally, Counts
<1>2. \A row \in R : Members(rows, row[1], row[2]) \subseteq DOMAIN rows
  BY DEF Members
<1>3. MakeSummary(rows) \in [R -> Counts]
  BY <1>1, <1>2, SummaryIs
<1> QED BY <1>3

LEMMA RowsFinite ==
  ASSUME NEW m, NEW P \in SUBSET (Groups \X Mode),
         \A row \in P : row[2] = m /\ row[1] # All
  PROVE  IsFiniteSet(P)
<1> DEFINE scenarios == 1 .. NumScenarios
<1>1. P \subseteq scenarios \X {m}
  <2>1. \A g \in Groups : g # All => g \in scenarios
    BY AblationAssumption DEF Groups
  <2>2. \A row \in P : row = <<row[1], row[2]>> /\ row[1] \in Groups
    OBVIOUS
  <2> QED BY <2>1, <2>2
<1>2. IsFiniteSet(scenarios)
  BY ScenariosAre, FS_Interval
<1>3. IsFiniteSet({m})
  BY FS_Singleton
<1>4. IsFiniteSet(scenarios \X {m})
  <2> HIDE DEF scenarios
  <2> QED BY <1>2, <1>3, FS_Product
<1> QED BY <1>1, <1>4, FS_Subset

(* The rows of the summary for a strategy and a scenario, and a column of  *)
(* them that counts among the rows in A of the raw file.                   *)
ScenarioRows(rows, m) ==
  {row \in Groups \X Mode : /\ Members(rows, row[1], row[2]) # {}
                            /\ row[2] = m /\ row[1] # All}

Column(rows, m, A) ==
  LET sc == SetToSeq(ScenarioRows(rows, m))
  IN [j \in DOMAIN sc |-> Cardinality(A \cap Members(rows, sc[j][1], m))]

(* The rows of the scenarios add up to the row of all.                     *)
LEMMA ScenariosPartition ==
  ASSUME NEW rows \in Seq(Record), NEW m \in Mode, NEW A \in SUBSET Members(rows, All, m)
  PROVE  SeqSum(Column(rows, m, A)) = Cardinality(A)
<1> DEFINE P == ScenarioRows(rows, m)
           q == Column(rows, m, A)
<1> DEFINE sc == SetToSeq(P)
           n == Cardinality(P)
           e == [j \in 1 .. n |-> A \cap Members(rows, sc[j][1], m)]
<1>1. IsFiniteSet(P)
  <2>1. P \subseteq Groups \X Mode /\ \A row \in P : row[2] = m /\ row[1] # All
    BY DEF ScenarioRows
  <2> QED BY ONLY <2>1, RowsFinite
<1>2. /\ n \in Nat /\ sc \in [1 .. n -> P]
      /\ \A j, k \in 1 .. n : sc[j] = sc[k] => j = k
      /\ \A x \in P : \E j \in 1 .. n : sc[j] = x
  <2> QED BY ONLY <1>1, ListOfSet
<1> HIDE DEF sc, n, P, q
<1>3. \A j \in 1 .. n : /\ sc[j] = <<sc[j][1], sc[j][2]>> /\ sc[j][2] = m
                        /\ sc[j][1] # All
  <2>1. \A x \in P : x = <<x[1], x[2]>> /\ x[2] = m /\ x[1] # All
    BY DEF ScenarioRows, P
  <2> QED BY <1>2, <2>1
<1>4. A \subseteq DOMAIN rows /\ IsFiniteSet(A)
  BY MembersFinite DEF Members
<1>5. e \in [1 .. n -> SUBSET A]
  OBVIOUS
<1>6. ASSUME NEW j \in 1 .. n, NEW k \in 1 .. n, j # k
      PROVE  e[j] \cap e[k] = {}
  <2> SUFFICES ASSUME NEW i \in e[j] \cap e[k] PROVE FALSE
    OBVIOUS
  <2>1. sc[j][1] = sc[k][1]
    <3>1. i \in Members(rows, sc[j][1], m) /\ i \in Members(rows, sc[k][1], m)
      OBVIOUS
    <3> QED BY <1>3, <3>1 DEF Members
  <2>2. sc[j] = <<sc[j][1], sc[j][2]>> /\ sc[j][2] = m /\ sc[k] = <<sc[k][1], sc[k][2]>> /\ sc[k][2] = m
    BY <1>3
  <2>3. sc[j] = sc[k]
    BY ONLY <2>1, <2>2
  <2>4. \A a, b \in 1 .. n : sc[a] = sc[b] => a = b
    BY <1>2
  <2> QED BY ONLY <1>6, <2>3, <2>4
<1>7. ASSUME NEW i \in A
      PROVE  \E j \in 1 .. n : i \in e[j]
  <2> DEFINE g == ScenarioOf[rows[i].case]
  <2>1. rows[i].case \in Case /\ rows[i].mode = m /\ i \in DOMAIN rows
    <3>1. i \in DOMAIN rows /\ rows[i].mode = m
      BY <1>4 DEF Members
    <3>2. rows[i] \in Record
      BY <3>1
    <3> QED BY <3>1, <3>2 DEF Record
  <2>2. i \in Members(rows, g, m) /\ g \in Groups /\ g # All
    BY <2>1, AblationBatchAssumption DEF Members, Groups
  <2>3. <<g, m>> \in P
    BY <2>2 DEF ScenarioRows, P
  <2>4. PICK j \in 1 .. n : sc[j] = <<g, m>>
    BY <1>2, <2>3
  <2> QED BY <2>2, <2>4
<1>8. q \in [1 .. n -> Nat] /\ \A j \in 1 .. n : q[j] = Cardinality(e[j])
  <2>1. q = [j \in 1 .. n |-> Cardinality(e[j])]
    BY <1>2 DEF sc, Column, P, q
  <2>2. \A j \in 1 .. n : Cardinality(e[j]) \in Nat
    BY <1>4, <1>5, FS_Subset, FS_CardinalityType
  <2> HIDE DEF e
  <2> QED BY <2>1, <2>2
<1> HIDE DEF e
<1>9. \A j, k \in 1 .. n : j # k => e[j] \cap e[k] = {}
  BY ONLY <1>6
<1>10. \A i \in A : \E j \in 1 .. n : i \in e[j]
  BY ONLY <1>7
<1>11. n \in Nat /\ IsFiniteSet(A)
  BY <1>2, <1>4
<1>12. Partition(e, n, A)
  BY ONLY <1>5, <1>9, <1>10 DEF Partition
<1>13. SizesOf(e, n, q)
  BY ONLY <1>8 DEF SizesOf
<1> QED BY ONLY <1>11, <1>12, <1>13, SumOfParts DEF q

AddsUp(R, rows, m) ==
  LET scenarios == SetToSeq({row \in DOMAIN R : row[2] = m /\ row[1] # All})
      all == R[<<All, m>>]
  IN /\ SeqSum([i \in DOMAIN scenarios |-> R[scenarios[i]].records]) = all.records
     /\ SeqSum([i \in DOMAIN scenarios |-> R[scenarios[i]].triggered]) = all.triggered
     /\ all.records = Cardinality({i \in DOMAIN rows : rows[i].mode = m})

LEMMA SummaryCounts ==
  ASSUME NEW rows \in Seq(Record), NEW m \in Mode, \E i \in DOMAIN rows : rows[i].mode = m,
         NEW R, R = MakeSummary(rows)
  PROVE  AddsUp(R, rows, m)
<1> DEFINE P == ScenarioRows(rows, m)
           sc == SetToSeq(P)
           M == Members(rows, All, m)
           T == {i \in M : rows[i].triggered}
<1>1. R = [row \in {gm \in Groups \X Mode : Members(rows, gm[1], gm[2]) # {}} |->
             Tally(rows, Members(rows, row[1], row[2]))]
  BY SummaryIs
<1>2. {row \in DOMAIN R : row[2] = m /\ row[1] # All} = P
  BY <1>1 DEF ScenarioRows
<1>3. M = {i \in DOMAIN rows : rows[i].mode = m} /\ M # {} /\ <<All, m>> \in Groups \X Mode
  BY DEF Members, Groups
<1>4. /\ R[<<All, m>>].records = Cardinality(M)
      /\ R[<<All, m>>].triggered = Cardinality(T)
  <2>1. R[<<All, m>>] = Tally(rows, M)
    BY <1>1, <1>3
  <2> QED BY <2>1 DEF Tally
<1>5. \A x \in P : /\ R[x].records = Cardinality(M \cap Members(rows, x[1], m))
                   /\ R[x].triggered = Cardinality(T \cap Members(rows, x[1], m))
  <2> SUFFICES ASSUME NEW x \in P
               PROVE  /\ R[x].records = Cardinality(M \cap Members(rows, x[1], m))
                      /\ R[x].triggered = Cardinality(T \cap Members(rows, x[1], m))
    OBVIOUS
  <2>1. R[x] = Tally(rows, Members(rows, x[1], m))
    BY <1>1 DEF ScenarioRows
  <2>2. /\ M \cap Members(rows, x[1], m) = Members(rows, x[1], m)
        /\ T \cap Members(rows, x[1], m) = {i \in Members(rows, x[1], m) : rows[i].triggered}
    BY DEF Members
  <2> DEFINE I == Members(rows, x[1], m)
  <2>3. R[x].records = Cardinality(I) /\ R[x].triggered = Cardinality({i \in I : rows[i].triggered})
    <3> HIDE DEF I
    <3> QED BY <2>1 DEF Tally, I
  <2> QED BY <2>2, <2>3
<1>6. \A j \in DOMAIN sc : sc[j] \in P
  <2>1. IsFiniteSet(P)
    <3>1. P \subseteq Groups \X Mode /\ \A row \in P : row[2] = m /\ row[1] # All
      BY DEF ScenarioRows
    <3> HIDE DEF P
    <3> QED BY <3>1, RowsFinite
  <2> HIDE DEF P
  <2> QED BY <2>1, ListOfSet
<1>7. /\ [j \in DOMAIN sc |-> R[sc[j]].records] =
           [j \in DOMAIN sc |-> Cardinality(M \cap Members(rows, sc[j][1], m))]
      /\ [j \in DOMAIN sc |-> R[sc[j]].triggered] =
           [j \in DOMAIN sc |-> Cardinality(T \cap Members(rows, sc[j][1], m))]
  <2> HIDE DEF P, sc, M, T
  <2> QED BY <1>5, <1>6
<1>8. SeqSum([j \in DOMAIN sc |-> R[sc[j]].records]) = Cardinality(M)
  <2>1. [j \in DOMAIN sc |-> R[sc[j]].records] = Column(rows, m, M)
    BY <1>7 DEF Column
  <2>2. SeqSum(Column(rows, m, M)) = Cardinality(M)
    <3>1. M \in SUBSET Members(rows, All, m)
      OBVIOUS
    <3> HIDE DEF M
    <3> QED BY <3>1, ScenariosPartition
  <2> QED BY <2>1, <2>2
<1>9. SeqSum([j \in DOMAIN sc |-> R[sc[j]].triggered]) = Cardinality(T)
  <2>1. [j \in DOMAIN sc |-> R[sc[j]].triggered] = Column(rows, m, T)
    BY <1>7 DEF Column
  <2>2. SeqSum(Column(rows, m, T)) = Cardinality(T)
    <3>1. T \in SUBSET Members(rows, All, m)
      OBVIOUS
    <3> HIDE DEF T
    <3> QED BY <3>1, ScenariosPartition
  <2> QED BY <2>1, <2>2
<1> QED BY <1>2, <1>3, <1>4, <1>8, <1>9 DEF AddsUp

-----------------------------------------------------------------------------
(***************************************************************************)
(* A batch: publishing and the ends of an invocation.                      *)
(***************************************************************************)
LEMMA WriteSummaryKeeps ==
  ASSUME BatchInv, WriteSummary
  PROVE  BatchInv'
<1>1. /\ pc = "summary" /\ pc' = "metadata"
      /\ summary' = [run |-> run, rows |-> MakeSummary(records)]
      /\ UNCHANGED <<host, run, selected, todo, records, selection, rawFile, metadata,
                     logs, cutOff>>
  BY DEF WriteSummary, environment
<1>2. TypeOK'
  <2>1. FileTypes /\ RunTypes
    BY Types DEF BatchInv
  <2>2. \E R \in SUBSET (Groups \X Mode) : MakeSummary(records) \in [R -> Counts]
    BY <2>1, SummaryType DEF RunTypes
  <2>3. FileTypes'
    BY <1>1, <2>1, <2>2 DEF FileTypes
  <2>4. RunTypes'
    BY <1>1, <2>1 DEF RunTypes
  <2> QED BY <2>3, <2>4 DEF TypeOK, FileTypes, RunTypes
<1>3. ProgressOK'
  BY <1>1 DEF BatchInv, ProgressOK
<1>4. RawOK'
  BY <1>1 DEF BatchInv, RawOK, RawIsComplete
<1>5. SummaryOK'
  BY <1>1 DEF SummaryOK
<1> QED BY <1>1, <1>2, <1>3, <1>4, <1>5 DEF BatchInv

(* Every case was recorded with both strategies.                           *)
LEMMA RecordsHaveBothModes ==
  ASSUME BatchInv, pc = "metadata"
  PROVE  BothModes(records)
<1>1. /\ selected \in Seq(Case) /\ selected # << >> /\ records \in Seq(Record)
      /\ todo = << >> /\ Len(records) + Len(todo) = 2 * Len(selected)
      /\ \A i \in 1 .. Len(records) : PairOf(records[i]) = Pairs(selected)[i]
  BY DEF BatchInv, TypeOK, ProgressOK
<1>2. /\ Len(selected) >= 1
      /\ Pairs(selected)[1][2] = "unwind" /\ Pairs(selected)[2][2] = "abort"
  BY <1>1, PairsType
<1>3. 1 \in DOMAIN records /\ 2 \in DOMAIN records /\ DOMAIN records = 1 .. Len(records)
  <2>1. Len(todo) = 0 /\ Len(selected) \in Nat /\ Len(records) \in Nat
    BY <1>1
  <2> QED BY <1>1, <1>2, <2>1
<1>4. PairOf(records[1]) = Pairs(selected)[1] /\ PairOf(records[2]) = Pairs(selected)[2]
  BY <1>1, <1>3
<1>5. records[1].mode = "unwind" /\ records[2].mode = "abort"
  <2>1. PairOf(records[1])[2] = "unwind" /\ PairOf(records[2])[2] = "abort"
    BY <1>2, <1>4
  <2> QED BY <2>1 DEF PairOf
<1> QED BY <1>3, <1>5 DEF BothModes, Mode

LEMMA WriteMetadataKeeps ==
  ASSUME BatchInv, WriteMetadata
  PROVE  BatchInv'
<1>1. /\ pc = "metadata" /\ pc' = "idle" /\ cutOff' = FALSE
      /\ metadata'.run = run
      /\ selected' = << >> /\ todo' = << >> /\ records' = << >>
      /\ UNCHANGED <<host, run, selection, rawFile, summary, logs>>
  BY DEF WriteMetadata, Exit, environment
<1>2. TypeOK'
  <2>1. FileTypes /\ RunTypes
    BY Types DEF BatchInv
  <2>2. FileTypes'
    BY <1>1, <2>1 DEF FileTypes
  <2>3. << >> \in Seq(Record) /\ << >> \in Seq(Case) /\ << >> \in Seq(Case \X Mode)
    OBVIOUS
  <2>4. RunTypes'
    BY <1>1, <2>1, <2>3 DEF RunTypes
  <2> QED BY <2>2, <2>4 DEF TypeOK, FileTypes, RunTypes
<1>3. ProgressOK'
  BY <1>1 DEF ProgressOK
<1>4. RawOK'
  BY <1>1 DEF BatchInv, RawOK, RawIsComplete
<1>5. SummaryOK'
  <2>1. /\ rawFile.run = run /\ rawFile.rows = records
        /\ summary.run = run /\ summary.rows = MakeSummary(records)
    BY <1>1 DEF BatchInv, RawOK, SummaryOK
  <2>2. records \in Seq(Record) /\ BothModes(records)
    BY <1>1, RecordsHaveBothModes DEF BatchInv, TypeOK
  <2> QED BY <1>1, <2>1, <2>2 DEF SummaryOK
<1> QED BY <1>1, <1>2, <1>3, <1>4, <1>5 DEF BatchInv

(* The process ends early.                                                 *)
LEMMA EndKeeps ==
  ASSUME BatchInv, Restart \/ Crash
  PROVE  BatchInv'
<1>1. /\ pc' = "idle" /\ selected' = << >> /\ todo' = << >> /\ records' = << >>
      /\ UNCHANGED <<host, run, selection, rawFile, summary, metadata, logs>>
  BY DEF Restart, Crash, Exit, environment, results
<1>2. TypeOK'
  <2>1. FileTypes /\ RunTypes
    BY Types DEF BatchInv
  <2>2. FileTypes'
    BY <1>1, <2>1 DEF FileTypes
  <2>3. << >> \in Seq(Record) /\ << >> \in Seq(Case) /\ << >> \in Seq(Case \X Mode)
    OBVIOUS
  <2>4. RunTypes'
    BY <1>1, <2>1, <2>3 DEF RunTypes
  <2> QED BY <2>2, <2>4 DEF TypeOK, FileTypes, RunTypes
<1>3. ProgressOK'
  BY <1>1 DEF ProgressOK
<1>4. RawOK'
  BY <1>1 DEF BatchInv, RawOK, RawIsComplete
<1>5. SummaryOK'
  <2>1. ~ cutOff' => ~ cutOff /\ pc \notin {"summary", "metadata"}
    BY DEF Restart, Crash
  <2> QED BY <1>1, <2>1 DEF BatchInv, SummaryOK
<1> QED BY <1>1, <1>2, <1>3, <1>4, <1>5 DEF BatchInv

LEMMA BatchStep ==
  ASSUME BatchInv, pool \subseteq Case, [AblationNext]_<<vars, sampling>>
  PROVE  BatchInv'
<1>1. CASE SelectByIds
  <2>0. PICK n \in 1 .. MaxSelected : \E dryRun \in BOOLEAN : \E ids \in [1 .. n -> Case] :
          Select(ids, dryRun)
    BY <1>1 DEF SelectByIds
  <2>1. PICK dryRun \in BOOLEAN, ids \in [1 .. n -> Case] : Select(ids, dryRun)
    BY <2>0
  <2>2. ids \in Seq(Case) /\ ids # << >>
    <3>1. n \in Nat /\ n >= 1
      BY AblationBatchAssumption
    <3> QED BY <3>1
  <2> QED BY <2>1, <2>2, SelectKeeps
<1>2. CASE SelectSample
  <2>0. PICK n \in 1 .. Cardinality(pool) : \E dryRun \in BOOLEAN : \E ids \in [1 .. n -> pool] :
          Select(ids, dryRun)
    BY <1>2 DEF SelectSample
  <2>1. PICK dryRun \in BOOLEAN, ids \in [1 .. n -> pool] : Select(ids, dryRun)
    BY <2>0
  <2>2. ids \in Seq(Case) /\ ids # << >>
    <3>1. Cardinality(pool) \in Nat
      BY AblationBatchAssumption, FS_Subset, FS_CardinalityType
    <3>2. n \in Nat /\ n >= 1
      BY <3>1
    <3>3. ids \in [1 .. n -> Case]
      OBVIOUS
    <3> QED BY <3>2, <3>3
  <2> QED BY <2>1, <2>2, SelectKeeps
<1>3. CASE UNCHANGED vars
  BY <1>3, BatchUnchanged
<1>4. CASE RunBatch
  BY <1>4, CaseKeeps, AbortKeeps, WriteRawKeeps, WriteSummaryKeeps, WriteMetadataKeeps, EndKeeps
     DEF RunBatch, Batch
<1> QED BY <1>1, <1>2, <1>3, <1>4 DEF AblationNext, DrawSample, SampleInventory, AllocateStrata

LEMMA BatchInvIsEnough ==
  ASSUME BatchInv
  PROVE  PublishedOK
<1>1. TypeOK /\ RawIsComplete
  BY DEF BatchInv, RawOK
<1>2. SummaryAddsUp
  <2> SUFFICES ASSUME summary # Absent, pc \notin {"summary", "metadata"}, ~ cutOff
               PROVE  /\ rawFile.run = summary.run /\ metadata.run = summary.run
                      /\ \A m \in Mode : AddsUp(summary.rows, rawFile.rows, m)
    BY DEF SummaryAddsUp, AddsUp
  <2>1. /\ rawFile.run = summary.run /\ metadata.run = summary.run
        /\ rawFile.rows \in Seq(Record) /\ BothModes(rawFile.rows)
        /\ summary.rows = MakeSummary(rawFile.rows)
    BY DEF BatchInv, SummaryOK
  <2> DEFINE rows == rawFile.rows
             R == summary.rows
  <2>2. rows \in Seq(Record) /\ R = MakeSummary(rows) /\ BothModes(rows)
    BY <2>1
  <2> HIDE DEF rows, R
  <2>3. ASSUME NEW m \in Mode
        PROVE  AddsUp(R, rows, m)
    <3>1. \E i \in DOMAIN rows : rows[i].mode = m
      BY <2>2 DEF BothModes
    <3> QED BY <2>2, <3>1, SummaryCounts
  <2> QED BY <2>1, <2>3 DEF rows, R
<1> QED BY <1>1, <1>2 DEF PublishedOK

LEMMA BatchInvariant == AblationSpec => []BatchInv
<1>1. AblationInit => BatchInv /\ FairInv
  BY BatchStarts, SamplingStarts DEF AblationInit, Init, FairInv
<1>2. (BatchInv /\ FairInv) /\ [AblationNext]_<<vars, sampling>> => (BatchInv /\ FairInv)'
  BY BatchStep, FairStep DEF FairInv
<1> QED BY <1>1, <1>2, PTL DEF AblationSpec

(* Whatever the cases come to and whenever an invocation is killed: a raw  *)
(* file has one record for every selected case and strategy, in order and  *)
(* with a log of its own run, and the summary of a completed invocation    *)
(* adds up to it (main, make_summary).                                     *)
THEOREM PublishedFitsTogether == AblationSpec => []PublishedOK
<1>1. BatchInv => PublishedOK
  BY BatchInvIsEnough
<1> QED BY <1>1, BatchInvariant, PTL
=============================================================================
