------------------------------ MODULE ApronItv ------------------------------
(***************************************************************************)
(* Rational bounds and intervals of the library that mirchecker links      *)
(* (src/tools/mirchecker/apron-sys/apron: num/, itv/), in the build that   *)
(* mirchecker uses: multi-precision rationals, assertions compiled out.    *)
(*                                                                         *)
(* A bound is a fraction <<n, d>> in lowest terms; d = 0 is infinity with  *)
(* the sign of n.  An interval keeps the NEGATION of its lower bound, so   *)
(* that both bounds are rounded upwards: [-2, 5] is [inf |-> 2, sup |-> 5].*)
(***************************************************************************)
EXTENDS Integers

Abs(n) == IF n < 0 THEN -n ELSE n
SgnOf(n) == IF n < 0 THEN -1 ELSE IF n > 0 THEN 1 ELSE 0

Gcd[p \in Nat \X Nat] == IF p[2] = 0 THEN p[1] ELSE Gcd[<<p[2], p[1] % p[2]>>]

(* numrat_canonicalize.                                                    *)
Num(n, d) ==
  LET Lowest(g) == <<(n * SgnOf(d)) \div g, Abs(d) \div g>>
  IN Lowest(Gcd[<<Abs(n), Abs(d)>>])

IntBound(n) == <<n, 1>>
Infty(sgn)  == <<sgn, 0>>
PlusOo      == Infty(1)
Zero        == IntBound(0)

IsInfty(b)  == b[2] = 0
BoundSgn(b) == SgnOf(b[1])

BoundNeg(b) == <<-b[1], b[2]>>

BoundAdd(b, c) ==
  IF IsInfty(b) THEN Infty(BoundSgn(b))
  ELSE IF IsInfty(c) THEN Infty(BoundSgn(c))
  ELSE Num(b[1] * c[2] + c[1] * b[2], b[2] * c[2])

BoundMul(b, c) ==
  IF BoundSgn(b) = 0 \/ BoundSgn(c) = 0 THEN Zero
  ELSE IF IsInfty(b) \/ IsInfty(c) THEN Infty(BoundSgn(b) * BoundSgn(c))
  ELSE Num(b[1] * c[1], b[2] * c[2])

BoundDiv(b, c) ==
  IF BoundSgn(b) = 0 \/ IsInfty(c) THEN Zero
  ELSE IF BoundSgn(c) = 0 THEN Infty(BoundSgn(b))
  ELSE IF IsInfty(b) THEN Infty(BoundSgn(b) * BoundSgn(c))
  ELSE Num(b[1] * c[2], b[2] * c[1])

(* bound_cmp, as the sign of the difference.                               *)
BoundCmp(a, b) ==
  IF IsInfty(a)
  THEN IF IsInfty(b) THEN (BoundSgn(a) - BoundSgn(b)) \div 2 ELSE BoundSgn(a)
  ELSE IF IsInfty(b) THEN -BoundSgn(b) ELSE SgnOf(a[1] * b[2] - b[1] * a[2])

BoundMin(b, c) == IF BoundCmp(b, c) <= 0 THEN b ELSE c
BoundMax(b, c) == IF BoundCmp(b, c) >= 0 THEN b ELSE c

BoundFloor(b) == IF IsInfty(b) THEN b ELSE IntBound(b[1] \div b[2])
BoundCeil(b)  == BoundNeg(BoundFloor(BoundNeg(b)))
BoundTrunc(b) == IF BoundSgn(b) < 0 THEN BoundCeil(b) ELSE BoundFloor(b)

(* What the functions take for granted: a bound is a fraction in lowest    *)
(* terms, or PlusOo.                                                       *)
IsFrac(b)   == b \in Int \X Int /\ b[2] > 0 /\ Num(b[1], b[2]) = b
IsBound(b)  == b = PlusOo \/ IsFrac(b)
Integral(b) == IsInfty(b) \/ b[2] = 1

-----------------------------------------------------------------------------
Itv(inf, sup) == [inf |-> inf, sup |-> sup]

ItvInt(n)  == Itv(IntBound(-n), IntBound(n))
ItvBottom  == Itv(IntBound(-1), IntBound(-1))
ItvTop     == Itv(PlusOo, PlusOo)
ItvHalf    == Itv(<<1, 2>>, <<1, 2>>)
NonNegative == Itv(Zero, PlusOo)

Swap(a)  == Itv(a.sup, a.inf)
ItvNeg(a) == Swap(a)

ItvIsTop(a) == IsInfty(a.inf) /\ IsInfty(a.sup)

(* The result of itv_canonicalize: the interval is empty.                  *)
IsEmptyItv(a) ==
  ~IsInfty(a.inf) /\ ~IsInfty(a.sup) /\ BoundCmp(a.sup, BoundNeg(a.inf)) < 0

(* itv_canonicalize: what it leaves in its argument.                       *)
Canonicalize(a, integer) ==
  IF integer THEN Itv(BoundFloor(a.inf), BoundFloor(a.sup)) ELSE a

ItvIsPoint(a) == ~IsInfty(a.inf) /\ ~IsInfty(a.sup) /\ BoundNeg(a.inf) = a.sup
ItvIsInt(a)   == BoundTrunc(a.sup) = a.sup /\ BoundTrunc(a.inf) = a.inf

ItvLeq(a, b) ==
  IF a = ItvBottom THEN TRUE
  ELSE IF b = ItvBottom THEN FALSE
  ELSE BoundCmp(a.sup, b.sup) <= 0 /\ BoundCmp(a.inf, b.inf) <= 0

ItvMeet(b, c) == Itv(BoundMin(b.inf, c.inf), BoundMin(b.sup, c.sup))

ItvJoin(b, c) ==
  IF b = ItvBottom THEN c
  ELSE IF c = ItvBottom THEN b
  ELSE Itv(BoundMax(b.inf, c.inf), BoundMax(b.sup, c.sup))

BoundWidening(b, c) == IF IsInfty(c) \/ BoundCmp(b, c) < 0 THEN PlusOo ELSE b

(* Slip for ItvWidening: the upper bound is joined, not widened.           *)
ItvWideningHalf(b, c) ==
  Itv(BoundWidening(b.inf, c.inf), BoundMax(b.sup, c.sup))

ItvWidening(b, c) ==
  IF b = ItvBottom THEN c
  ELSE IF c = ItvBottom THEN b
  ELSE Itv(BoundWidening(b.inf, c.inf), BoundWidening(b.sup, c.sup))

ItvAdd(b, c) == Itv(BoundAdd(b.inf, c.inf), BoundAdd(b.sup, c.sup))
ItvSub(b, c) == Itv(BoundAdd(b.inf, c.sup), BoundAdd(b.sup, c.inf))

(* Rounding to an integer outwards, upwards, downwards, towards zero.      *)
ItvToInt(a) == Itv(BoundCeil(a.inf), BoundCeil(a.sup))
ItvCeil(a)  == Itv(BoundFloor(a.inf), BoundCeil(a.sup))
ItvFloor(a) == Itv(BoundCeil(a.inf), BoundFloor(a.sup))
ItvTrunc(a) == Itv(BoundTrunc(a.inf), BoundTrunc(a.sup))

Magnitude(b) ==
  IF BoundSgn(b.inf) <= 0 THEN b.sup
  ELSE IF BoundSgn(b.sup) <= 0 THEN b.inf
  ELSE BoundMax(b.inf, b.sup)

RangeAbs(b) == BoundAdd(b.sup, b.inf)
RangeRel(b) ==
  IF IsInfty(RangeAbs(b)) THEN RangeAbs(b)
  ELSE BoundDiv(RangeAbs(b), BoundDiv(Magnitude(b), IntBound(2)))

Positive(b) == BoundSgn(b.inf) <= 0
Negative(b) == BoundSgn(b.sup) <= 0

ItvAbs(b) ==
  IF Positive(b) THEN b
  ELSE IF Negative(b) THEN ItvNeg(b)
  ELSE Itv(Zero, BoundMax(b.inf, b.sup))

-----------------------------------------------------------------------------
(* Multiplication, by the signs of the operands.                           *)
MulPP(b, c) == Itv(BoundMul(b.inf, BoundNeg(c.inf)), BoundMul(b.sup, c.sup))
MulNN(b, c) == Itv(BoundMul(b.sup, BoundNeg(c.sup)), BoundMul(b.inf, c.inf))
MulPN(b, c) == Itv(BoundMul(b.sup, c.inf), BoundMul(BoundNeg(b.inf), c.sup))

MulP(b, c) ==
  IF Positive(b) THEN MulPP(b, c)
  ELSE IF Negative(b) THEN MulPN(c, b)
  ELSE Itv(BoundMul(b.inf, c.sup), BoundMul(b.sup, c.sup))

MulN(b, c) ==
  IF Positive(b) THEN MulPN(b, c)
  ELSE IF Negative(b) THEN MulNN(b, c)
  ELSE Itv(BoundMul(b.sup, c.inf), BoundMul(b.inf, c.inf))

ItvMul(b, c) ==
  IF Positive(c) \/ (Positive(b) /\ ~Negative(c))
  THEN MulP(IF Positive(c) THEN b ELSE c, IF Positive(c) THEN c ELSE b)
  ELSE IF Negative(c) THEN MulN(b, c)
  ELSE ItvJoin(MulP(b, Itv(Zero, c.sup)), MulN(b, Itv(c.inf, Zero)))

-----------------------------------------------------------------------------
(* Division, by the signs of the operands; the divisor excludes 0.         *)
DivPP(b, c) == Itv(BoundDiv(b.inf, c.sup), BoundDiv(b.sup, BoundNeg(c.inf)))
DivNN(b, c) == Itv(BoundDiv(b.sup, c.inf), BoundDiv(BoundNeg(b.inf), c.sup))
DivPN(b, c) == Itv(BoundDiv(BoundNeg(b.sup), c.sup), BoundDiv(b.inf, c.inf))
DivNP(b, c) == Itv(BoundDiv(BoundNeg(b.inf), c.inf), BoundDiv(b.sup, c.sup))

DivP(b, c) ==
  IF Positive(b) THEN DivPP(b, c)
  ELSE IF Negative(b) THEN DivNP(b, c)
  ELSE Itv(BoundDiv(b.inf, BoundNeg(c.inf)), BoundDiv(b.sup, BoundNeg(c.inf)))

DivN(b, c) ==
  IF Positive(b) THEN DivPN(b, c)
  ELSE IF Negative(b) THEN DivNN(b, c)
  ELSE Itv(BoundDiv(b.sup, c.sup), BoundDiv(b.inf, c.sup))

ItvDiv(b, c) ==
  IF BoundSgn(c.inf) < 0 THEN DivP(b, c)
  ELSE IF BoundSgn(c.sup) < 0 THEN DivN(b, c)
  ELSE IF b = Itv(Zero, Zero) THEN b
  ELSE ItvTop

(* b - |c| * trunc(b / |c|), kept within the range of the remainder.       *)
ItvMod(b, c, isInt) ==
  LET m == ItvAbs(c)
      q == ItvMul(ItvTrunc(ItvDiv(b, m)), m)
      r == IF isInt THEN BoundAdd(m.sup, IntBound(-1)) ELSE m.sup
      range == IF BoundSgn(b.sup) < 0 THEN Itv(r, Zero)
               ELSE IF BoundSgn(b.inf) > 0 THEN Itv(r, r)
               ELSE Itv(Zero, r)
  IN IF BoundSgn(m.inf) = 0 THEN ItvTop ELSE ItvMeet(ItvSub(b, q), range)

-----------------------------------------------------------------------------
(* A proper interval, of integers, and what an interval stands for.        *)
IsItv(a)      == a = Itv(a.inf, a.sup) /\ IsBound(a.inf) /\ IsBound(a.sup)
IntegerItv(a) == Integral(a.inf) /\ Integral(a.sup)
InItv(n, a) == BoundCmp(IntBound(n), a.sup) <= 0 /\ BoundCmp(IntBound(-n), a.inf) <= 0
=============================================================================
