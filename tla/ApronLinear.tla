---------------------------- MODULE ApronLinear ----------------------------
(***************************************************************************)
(* Tree expressions over intervals (apron-sys/apron/itv/itv_linearize.c)   *)
(* and interval linear constraints (itv/itv_linexpr.c): evaluation,        *)
(* linearisation, reduction of constraints over integers, and deduction of *)
(* bounds from them.                                                       *)
(*                                                                         *)
(* A tree expression is the sequence of its nodes, operands before their   *)
(* operators, which refer to them by position: x + 2 is                    *)
(*   <<Dim(0), Cst(2, 2), Node("ADD", 1, 2, "INT", "NEAREST")>>            *)
(* A constant is an interval; ints are the integers in it.                 *)
(* Types other than INT and REAL, roots and powers are left out.           *)
(*                                                                         *)
(* A linear expression is a constant interval and a map from dimensions to *)
(* coefficients, kept sorted by dimension in the code.  eq says that the   *)
(* constant was a point when last looked at.                               *)
(***************************************************************************)
EXTENDS ApronItv, SequencesExt

Cst(lo, hi) == [op |-> "CST", itv |-> Itv(IntBound(-lo), IntBound(hi)), ints |-> lo .. hi]
Dim(dim)    == [op |-> "DIM", dim |-> dim]
Node(op, a, b, type, dir) == [op |-> op, a |-> a, b |-> b, type |-> type, dir |-> dir]

Unary == {"NEG", "CAST"}
Binary == {"ADD", "SUB", "MUL", "DIV", "MOD"}
Operators == Unary \union Binary
Directions == {"NEAREST", "ZERO", "UP", "DOWN", "RND"}

IsSequence(q) == Len(q) \in Nat /\ DOMAIN q = 1 .. Len(q)
Distinct(q) == IsSequence(q) /\ IsInjective(q)

(* itv_round.                                                              *)
Round(arg, type, dir) ==
  IF type = "REAL" THEN arg
  ELSE CASE dir = "ZERO" -> ItvTrunc(arg)
         [] dir = "UP"   -> ItvCeil(arg)
         [] dir = "DOWN" -> ItvFloor(arg)
         [] dir \in {"RND", "NEAREST"} -> ItvToInt(arg)

(* itv_eval_ap_texpr0_node.                                                *)
EvalNode(n, x, y) ==
  CASE n.op = "NEG"  -> ItvNeg(x)
    [] n.op = "MOD"  -> ItvMod(x, y, n.type = "INT")
    [] OTHER -> Round(CASE n.op = "CAST" -> x
                        [] n.op = "ADD"  -> ItvAdd(x, y)
                        [] n.op = "SUB"  -> ItvSub(x, y)
                        [] n.op = "MUL"  -> ItvMul(x, y)
                        [] n.op = "DIV"  -> ItvDiv(x, y), n.type, n.dir)

(* itv_eval_ap_texpr0, the intervals of all nodes; an empty operand of a    *)
(* unary operator passes as it is.                                         *)
EvalNodes(expr, env) ==
  LET val[i \in DOMAIN expr] ==
        LET n == expr[i]
        IN CASE n.op = "CST" -> n.itv
             [] n.op = "DIM" -> env[n.dim]
             [] n.op \in Unary /\ IsEmptyItv(val[n.a]) -> val[n.a]
             [] n.op \in Binary /\ (IsEmptyItv(val[n.a]) \/ IsEmptyItv(val[n.b])) -> ItvBottom
             [] OTHER -> EvalNode(n, val[n.a], val[IF n.op \in Unary THEN n.a ELSE n.b])
  IN val

EvalTexpr(expr, env) == EvalNodes(expr, env)[Len(expr)]

(* What the functions take for granted of a tree expression over some      *)
(* dimensions: constants are integer intervals that are not empty,         *)
(* operands come before their operators, and all operators are those of    *)
(* integers, as mirchecker builds them.                                    *)
IsNode(n, i, uses) ==
  CASE n.op = "CST" -> /\ IsItv(n.itv) /\ ~IsEmptyItv(n.itv) /\ IntegerItv(n.itv)
                       /\ n.ints \subseteq Int /\ \A k \in n.ints : InItv(k, n.itv)
    [] n.op = "DIM" -> n.dim \in uses
    [] OTHER -> /\ n.op \in Operators /\ n.type = "INT" /\ n.dir \in Directions
                /\ n.a \in 1 .. (i - 1) /\ n.b \in 1 .. (i - 1)

IsTexpr(expr, uses) ==
  IsSequence(expr) /\ Len(expr) > 0 /\ \A i \in DOMAIN expr : IsNode(expr[i], i, uses)

(* The nodes of an expression that have an integer interval.               *)
WholeNodes(expr, int) ==
  LET whole[i \in DOMAIN expr] ==
        LET n == expr[i]
        IN \/ n.op = "DIM" /\ n.dim < int
           \/ n.op = "NEG" /\ whole[n.a]
           \/ n.op = "MOD" /\ whole[n.a] /\ whole[n.b]
           \/ n.op \notin {"DIM", "NEG", "MOD"}
  IN whole

-----------------------------------------------------------------------------
(* The member of a set of numbers that has k smaller ones before it, and   *)
(* the members in order.                                                   *)
Rank(i, S) == Cardinality({j \in S : j < i})
Nth(k, S)  == CHOOSE i \in S : Rank(i, S) = k
Ascending(S) == [k \in 1 .. Cardinality(S) |-> Nth(k - 1, S)]

Lin(cst, eq, terms) == [cst |-> cst, eq |-> eq, terms |-> terms]
LinCst(cst)  == Lin(cst, ItvIsPoint(cst), << >>)
LinDim(dim)  == Lin(ItvInt(0), TRUE, [d \in {dim} |-> ItvInt(1)])
LinBottom    == LinCst(ItvBottom)
IsCst(l)     == DOMAIN l.terms = {}

LinNeg(l) == Lin(ItvNeg(l.cst), l.eq, [d \in DOMAIN l.terms |-> ItvNeg(l.terms[d])])

LinScale(l, c) ==
  LET Scaled(cst) ==
        IF ItvIsTop(cst) THEN Lin(ItvTop, l.eq, << >>)
        ELSE Lin(cst, l.eq, [d \in DOMAIN l.terms |-> ItvMul(l.terms[d], c)])
  IN IF c = Itv(Zero, Zero) THEN Lin(c, l.eq, << >>) ELSE Scaled(ItvMul(l.cst, c))

LinDiv(l, c) ==
  Lin(ItvDiv(l.cst, c), l.eq, [d \in DOMAIN l.terms |-> ItvDiv(l.terms[d], c)])

(* itv_linexpr_add: coefficients that cancel disappear.                    *)
LinAdd(k, l) ==
  LET cst == ItvAdd(k.cst, l.cst)
      Coeff(d) == IF d \notin DOMAIN k.terms THEN l.terms[d]
                  ELSE IF d \notin DOMAIN l.terms THEN k.terms[d]
                  ELSE ItvAdd(k.terms[d], l.terms[d])
      Kept == {d \in DOMAIN k.terms \union DOMAIN l.terms :
                 d \in DOMAIN k.terms \intersect DOMAIN l.terms => Coeff(d) # Itv(Zero, Zero)}
  IN Lin(cst, k.eq /\ l.eq /\ ItvIsPoint(cst),
         IF ItvIsTop(cst) THEN << >> ELSE [d \in Kept |-> Coeff(d)])

LinSub(k, l) == LinAdd(k, LinNeg(l))

(* itv_mul_bound, for a coefficient that is a number.                      *)
ItvMulBound(b, c) ==
  IF BoundSgn(c) >= 0 THEN Itv(BoundMul(b.inf, c), BoundMul(b.sup, c))
  ELSE Swap(Itv(BoundMul(b.inf, BoundNeg(c)), BoundMul(b.sup, BoundNeg(c))))

EvalTerm(itv, coeff) ==
  IF ItvIsPoint(coeff) THEN ItvMulBound(itv, coeff.sup) ELSE ItvMul(itv, coeff)

(* itv_eval_linexpr: the terms are added in the order of their dimensions. *)
EvalLin(l, env) ==
  LET dims == Ascending(DOMAIN l.terms)
      sum[k \in 0 .. Len(dims)] ==
        IF k = 0 THEN l.cst ELSE ItvAdd(sum[k - 1], EvalTerm(env[dims[k]], l.terms[dims[k]]))
  IN sum[Len(dims)]

-----------------------------------------------------------------------------
(* Linearisation keeps, for every node, its type, a linear form and an     *)
(* interval that both enclose its value.                                   *)
Form(type, lin, itv) == [type |-> type, lin |-> lin, itv |-> itv]

(* ap_texpr0_to_int: the error of a conversion to an integer.              *)
LinToInt(l, i, dir) ==
  LET Enlarged(down, up) == Lin(ItvAdd(l.cst, Itv(IntBound(down), IntBound(up))), FALSE, l.terms)
  IN CASE dir = "UP"   -> Enlarged(0, 1)
       [] dir = "DOWN" -> Enlarged(1, 0)
       [] dir = "RND"  -> Enlarged(1, 1)
       [] dir = "ZERO" -> Enlarged(IF BoundSgn(i.sup) > 0 THEN 1 ELSE 0,
                                   IF BoundSgn(i.inf) > 0 THEN 1 ELSE 0)
       [] dir = "NEAREST" -> Lin(ItvAdd(l.cst, ItvHalf), FALSE, l.terms)

(* ap_texpr0_round, from type org to the type of the node.                 *)
RoundForm(l, i, org, n) ==
  IF n.type = "REAL" \/ org = "INT" THEN <<l, i>>
  ELSE <<LinToInt(l, i, n.dir), Round(i, n.type, n.dir)>>

(* ap_texpr0_reduce.                                                       *)
ReduceForm(l, i, env) ==
  LET Within(m) ==
        IF IsEmptyItv(m) \/ IsEmptyItv(l.cst) THEN <<LinBottom, ItvBottom>>
        ELSE IF IsCst(l) THEN <<LinCst(m), m>>
        ELSE <<l, m>>
  IN Within(ItvMeet(i, EvalLin(l, env)))

(* ap_texpr0_cmp_range: which factor stays an interval, the first or the   *)
(* second.                                                                 *)
KeepFirst(x, y) ==
  LET signed(i) == Positive(i) \/ Negative(i)
  IN IF IsCst(x.lin) THEN TRUE
     ELSE IF IsCst(y.lin) THEN FALSE
     ELSE IF signed(x.itv) # signed(y.itv) THEN signed(x.itv)
     ELSE BoundCmp(RangeRel(x.itv), RangeRel(y.itv)) < 0

BothInt(x, y) == IF x.type = "INT" /\ y.type = "INT" THEN "INT" ELSE "REAL"

(* The nodes whose linear form is worth something: rounded and reduced.    *)
RoundedForm(n, lin, itv, org, env) ==
  LET Typed(f)   == Form(n.type, f[1], f[2])
      Reduced(f) == ReduceForm(f[1], f[2], env)
  IN Typed(Reduced(RoundForm(lin, itv, org, n)))

(* ap_texpr0_node_intlinearize.                                            *)
LinearizeNode(n, x, y, env) ==
  LET Scaled(z, factor) == LinScale(z.lin, factor.itv)
      Constant(m) == Form(n.type, LinCst(m), m)
      \* the linear form, the interval and the type before rounding
      Exact ==
        CASE n.op = "CAST" -> <<x.lin, x.itv, x.type>>
          [] n.op = "ADD"  -> <<LinAdd(x.lin, y.lin), ItvAdd(x.itv, y.itv), BothInt(x, y)>>
          [] n.op = "SUB"  -> <<LinSub(x.lin, y.lin), ItvSub(x.itv, y.itv), BothInt(x, y)>>
          [] n.op = "MUL"  -> <<Scaled(IF KeepFirst(x, y) THEN y ELSE x, IF KeepFirst(x, y) THEN x ELSE y),
                               ItvMul(x.itv, y.itv), BothInt(x, y)>>
          [] n.op = "DIV"  -> <<LinDiv(x.lin, y.itv), ItvDiv(x.itv, y.itv), "REAL">>
      Rounded(e) == RoundedForm(n, e[1], e[2], e[3], env)
  IN CASE n.op = "NEG" -> Form(x.type, LinNeg(x.lin), ItvNeg(x.itv))
       [] n.op \in Binary /\ (IsEmptyItv(x.itv) \/ IsEmptyItv(y.itv)) ->
            Form(n.type, LinBottom, ItvBottom)
       [] n.op = "MOD" /\ ~IsEmptyItv(x.itv) /\ ~IsEmptyItv(y.itv) ->
            Constant(ItvMod(x.itv, y.itv, n.type = "INT"))
       [] OTHER -> Rounded(Exact)

(* itv_intlinearize_texpr0_rec.                                            *)
Linearize(expr, env, intdim) ==
  LET form[i \in DOMAIN expr] ==
        LET n == expr[i]
        IN CASE n.op = "CST" -> Form(IF ItvIsInt(n.itv) THEN "INT" ELSE "REAL", LinCst(n.itv), n.itv)
             [] n.op = "DIM" -> Form(IF n.dim < intdim THEN "INT" ELSE "REAL", LinDim(n.dim), env[n.dim])
             [] OTHER -> LinearizeNode(n, form[n.a], form[n.b], env)
  IN form[Len(expr)]

-----------------------------------------------------------------------------
(* Constraints.                                                            *)
Types == {"EQ", "DISEQ", "SUPEQ", "SUP"}
Lincons(typ, lin) == [typ |-> typ, lin |-> lin]
FalseCons == Lincons("EQ", LinCst(ItvInt(1)))

(* What the functions take for granted of constraints: proper numbers, and *)
(* tree constraints that do not divide, as those of mirchecker.            *)
IsLincons(c, uses) ==
  /\ c.typ \in Types
  /\ IsItv(c.lin.cst) /\ ~IsEmptyItv(c.lin.cst)
  /\ c.lin.eq \in BOOLEAN /\ (c.lin.eq => ItvIsPoint(c.lin.cst))
  /\ DOMAIN c.lin.terms \subseteq uses
  /\ \A d \in DOMAIN c.lin.terms : IsItv(c.lin.terms[d]) /\ ~IsEmptyItv(c.lin.terms[d])

IsTcons(c, uses) ==
  c.typ \in Types /\ IsTexpr(c.expr, uses) /\ \A i \in DOMAIN c.expr : c.expr[i].op # "DIV"

(* Slip for EvalCst: zero passes for strictly positive.                    *)
EvalCstNonStrict(c) ==
  IF c.typ = "SUP" /\ ~IsEmptyItv(c.lin.cst) /\ BoundSgn(c.lin.cst.inf) <= 0 THEN "true"
  ELSE IF c.typ = "SUP" /\ ~IsEmptyItv(c.lin.cst) /\ BoundSgn(c.lin.cst.sup) > 0 THEN "top"
  ELSE "false"

(* itv_eval_cstlincons, for a constraint without variables: "true",        *)
(* "false" or "top".                                                       *)
EvalCst(c) ==
  LET cst == c.lin.cst
      Decide(yes, no) == IF yes THEN "true" ELSE IF no THEN "false" ELSE "top"
  IN IF IsEmptyItv(cst) THEN "false"
     ELSE CASE c.typ = "EQ" -> IF c.lin.eq THEN Decide(BoundSgn(cst.sup) = 0, TRUE)
                               ELSE Decide(FALSE, BoundSgn(cst.sup) < 0 \/ BoundSgn(cst.inf) < 0)
            [] c.typ = "DISEQ" -> Decide(BoundSgn(cst.inf) < 0 \/ BoundSgn(cst.sup) < 0, FALSE)
            [] c.typ = "SUPEQ" -> Decide(BoundSgn(cst.inf) <= 0, BoundSgn(cst.sup) < 0)
            [] c.typ = "SUP"   -> Decide(BoundSgn(cst.inf) < 0, BoundSgn(cst.sup) <= 0)

IsFalseCst(c) == IsCst(c.lin) /\ EvalCst(c) = "false"

(* itv_intlinearize_ap_tcons0_array: the constraints in linear form, or    *)
(* one false constraint when some constraint cannot be satisfied.          *)
LinearizeArray(tcons, env, intdim) ==
  LET within(typ, itv) == CASE typ = "EQ" -> ItvMeet(itv, ItvInt(0))
                            [] typ \in {"SUPEQ", "SUP"} -> ItvMeet(itv, NonNegative)
                            [] OTHER -> itv
      unsat(typ, f) == \/ IsEmptyItv(within(typ, f.itv))
                       \/ IsEmptyItv(f.lin.cst)
                       \/ IsFalseCst(Lincons(typ, f.lin))
      array(form) ==
        IF \E i \in DOMAIN tcons : unsat(tcons[i].typ, form[i]) THEN <<FalseCons>>
        ELSE [i \in DOMAIN tcons |-> Lincons(tcons[i].typ, form[i].lin)]
  IN array([i \in DOMAIN tcons |-> Linearize(tcons[i].expr, env, intdim)])

Lcm(m, n) == (m * n) \div Gcd[<<m, n>>]

(* The constant of e + c > 0 or e + c >= 0 when e takes integers only.     *)
Tightened(typ, sup) ==
  IF typ = "SUP" /\ BoundFloor(sup) = sup THEN BoundAdd(sup, IntBound(-1)) ELSE BoundFloor(sup)

(* The least common multiple of the denominators of some coefficients, and *)
(* the greatest common divisor of their numerators.                        *)
CommonFactor(terms) ==
  LET dims == Ascending(DOMAIN terms)
      fold[k \in 0 .. Len(dims)] ==
        IF k = 0 THEN [lcm |-> 1, gcd |-> 0]
        ELSE [lcm |-> Lcm(fold[k - 1].lcm, terms[dims[k]].sup[2]),
              gcd |-> Gcd[<<fold[k - 1].gcd, Abs(terms[dims[k]].sup[1])>>]]
  IN fold[Len(dims)]

(* itv_lincons_reduce_integer: a constraint over integers is divided by    *)
(* the greatest common divisor of its coefficients, and its constant is    *)
(* rounded.                                                                *)
ReduceInteger(c, intdim) ==
  LET l == c.lin
      factor == CommonFactor(l.terms)
      terms == [d \in DOMAIN l.terms |-> ItvMulBound(l.terms[d], Num(factor.lcm, factor.gcd))]
      cst == ItvMulBound(l.cst, Num(factor.lcm, factor.gcd))
      sup == IF IsInfty(cst.sup) THEN cst.sup ELSE Tightened(c.typ, cst.sup)
      typ == IF c.typ = "SUP" /\ ~IsInfty(cst.sup) THEN "SUPEQ" ELSE c.typ
      eqInf == IF IsInfty(cst.inf) THEN cst.inf
               ELSE IF l.eq THEN BoundNeg(sup) ELSE BoundFloor(cst.inf)
  IN IF \/ c.typ = "DISEQ"
        \/ \E d \in DOMAIN l.terms : d >= intdim \/ ~ItvIsPoint(l.terms[d])
        \/ factor.gcd = 0
     THEN c
     ELSE IF typ = "EQ"
     THEN IF IsEmptyItv(Itv(eqInf, sup)) THEN FalseCons
          ELSE Lincons(typ, Lin(Itv(eqInf, sup), l.eq, terms))
     ELSE IF IsInfty(sup) THEN Lincons(typ, Lin(cst, l.eq, terms))
     ELSE Lincons(typ, Lin(Itv(BoundNeg(sup), sup), TRUE, terms))

(* itv_lincons_is_useless_for_meet.                                        *)
IsUselessForMeet(c) ==
  IF IsCst(c.lin) THEN EvalCst(c) # "false"
  ELSE /\ ~c.lin.eq
       /\ IsInfty(c.lin.cst.sup)
       /\ c.typ \in {"EQ", "DISEQ"} => IsInfty(c.lin.cst.inf)

(* itv_lincons_array_reduce: constraints that say nothing are replaced by  *)
(* the last one; one that is false leaves a single false constraint.       *)
ReduceArray(cons) ==
  LET scan[k \in 0 .. Len(cons)] ==
        IF k = 0 THEN [i |-> 1, left |-> cons]
        ELSE LET s == scan[k - 1]
             IN IF s.i > Len(s.left) THEN s
                ELSE IF IsUselessForMeet(s.left[s.i])
                THEN [s EXCEPT !.left = Front([s.left EXCEPT ![s.i] = Last(s.left)])]
                ELSE [s EXCEPT !.i = @ + 1]
  IN IF \E i \in DOMAIN cons : IsFalseCst(cons[i]) THEN <<FalseCons>>
     ELSE scan[Len(cons)].left

-----------------------------------------------------------------------------
(* itv_boxize_lincons: what one constraint  [-m, M] x + [-e, E] (>=, >, =) 0 *)
(* says about the bounds of x.  A bound is <<side, value>>.                *)
Deduced(c, dim, coeff, eval, intdim) ==
  LET Rounded(b) == IF dim >= intdim \/ IsInfty(b) THEN b
                    ELSE Tightened(c.typ, b)
      infinite == PlusOo
      m == coeff.inf  M == coeff.sup  e == eval.inf  E == eval.sup
      sgn == BoundSgn(M)
      sgnitv == IF BoundSgn(m) < 0 THEN 1 ELSE IF BoundSgn(M) < 0 THEN -1 ELSE 0
      both == c.typ = "EQ"
      pointInf == IF sgn > 0 THEN BoundDiv(E, M) ELSE BoundDiv(e, m)
      pointSup == IF sgn < 0 THEN BoundDiv(E, m) ELSE BoundDiv(e, M)
      itvInf == IF sgnitv > 0
                THEN IF BoundSgn(E) <= 0 THEN BoundDiv(E, M) ELSE BoundNeg(BoundDiv(E, m))
                ELSE IF BoundSgn(e) <= 0 THEN BoundDiv(e, m) ELSE BoundNeg(BoundDiv(e, M))
      itvSup == IF sgnitv < 0
                THEN IF BoundSgn(E) >= 0 THEN BoundNeg(BoundDiv(E, M)) ELSE BoundDiv(E, m)
                ELSE IF BoundSgn(e) >= 0 THEN BoundNeg(BoundDiv(e, m)) ELSE BoundDiv(e, M)
      Sides(s, inf, sup) == Itv(IF s > 0 \/ (both /\ s < 0) THEN Rounded(inf) ELSE infinite,
                                IF s < 0 \/ (both /\ s > 0) THEN Rounded(sup) ELSE infinite)
  IN IF ItvIsTop(eval) THEN ItvTop
     ELSE IF ItvIsPoint(coeff) THEN Sides(sgn, pointInf, pointSup)
     ELSE Sides(sgnitv, itvInf, itvSup)

(* One constraint over all its dimensions in order, from the bounds and    *)
(* into the bounds.  The result: the bounds, whether one of them changed,  *)
(* and whether one became empty, which ends the deduction.                 *)
BoxizeOne(c, box, intdim) ==
  LET dims == Ascending(DOMAIN c.lin.terms)
      Changed(s, d, narrowed) ==
        [p |-> [s.p EXCEPT ![d] = narrowed], change |-> TRUE, empty |-> IsEmptyItv(narrowed)]
      Met(s, d, itv) ==
        IF s.empty \/ itv = s.p[d] THEN s ELSE Changed(s, d, Canonicalize(itv, d < intdim))
      step[k \in 0 .. Len(dims)] ==
        IF k = 0 THEN [p |-> box, change |-> FALSE, empty |-> FALSE]
        ELSE LET s == step[k - 1]
                 d == dims[k]
                 rest == Lin(c.lin.cst, c.lin.eq, [c.lin.terms EXCEPT ![d] = ItvInt(0)])
             IN Met(s, d, ItvMeet(s.p[d], Deduced(c, d, c.lin.terms[d], EvalLin(rest, s.p), intdim)))
  IN IF IsFalseCst(c) THEN [p |-> box, change |-> TRUE, empty |-> TRUE]
     ELSE step[Len(dims)]

(* One pass of itv_boxize_lincons_array over the constraints.              *)
BoxizePass(cons, box, intdim) ==
  LET step[k \in 0 .. Len(cons)] ==
        IF k = 0 THEN [p |-> box, change |-> FALSE, empty |-> FALSE]
        ELSE LET s == step[k - 1]
             IN IF s.empty \/ cons[k].typ = "DISEQ" THEN s
                ELSE [BoxizeOne(cons[k], s.p, intdim) EXCEPT !.change = @ \/ s.change]
  IN step[Len(cons)]

Passes == 2

(* itv_boxize_lincons_array: passes until nothing changes, at most two.    *)
Boxize(cons, box, intdim) ==
  LET pass[k \in 0 .. Passes] ==
        IF k = 0 THEN [p |-> box, change |-> TRUE, empty |-> FALSE]
        ELSE IF pass[k - 1].empty \/ ~pass[k - 1].change THEN pass[k - 1]
        ELSE BoxizePass(cons, pass[k - 1].p, intdim)
  IN pass[Passes]
=============================================================================
