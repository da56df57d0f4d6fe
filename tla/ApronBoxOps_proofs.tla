-------------------------- MODULE ApronBoxOps_proofs --------------------------
(***************************************************************************)
(* What a client may rely on, for any operations in any order: boxes stay  *)
(* proper, what a box answers is true of all its points, the constraints   *)
(* that it gives out rebuild it, and chains of widenings end.              *)
(***************************************************************************)
EXTENDS ApronBoxOps, ApronBox_proofs

(* The invariant.                                                          *)
IInv == GoodBox(box) /\ GoodBox(saved)

Kinds == {"assign", "meet_tcons", "forget", "threshold", "join", "meet", "widening",
          "project", "add", "remove", "permute", "expand", "fold", "add_ray"}

LEMMA CallKinds ==
  ASSUME NEW op \in Ops
  PROVE  /\ op.do \in Kinds
         /\ op.do \in {"join", "meet", "widening"} => (Valid(op) <=> Fit(box, saved))
         /\ op.do = "threshold" => (Valid(op) <=> Fit(box, saved) /\ op.uses \subseteq Dims(box))
         /\ op.do \in {"meet_tcons", "forget"} => (Valid(op) <=> op.uses \subseteq Dims(box))
         /\ op.do = "assign" =>
              (Valid(op) <=> /\ op.uses \subseteq Dims(box)
                             /\ ~box.null => \A k \in DOMAIN op.targets : Assignable(op.exprs[k], op.targets[k]))
         /\ op.do \in {"project", "add", "remove", "permute", "expand", "fold", "add_ray"} =>
              (Valid(op) <=> op.int = box.int /\ op.real = box.real)
<1>1. op.do \in Kinds
  BY OpsAssumption DEF Kinds
<1> QED BY <1>1 DEF Kinds, Valid

LEMMA ResultKinds ==
  ASSUME NEW op
  PROVE  /\ op.do = "assign" => Result(op) = BoxAssignTexpr(box, op.targets, op.exprs)
         /\ op.do = "meet_tcons" => Result(op) = BoxMeetTcons(box, op.cons)
         /\ op.do = "forget" => Result(op) = BoxForget(box, op.dims, FALSE)
         /\ op.do = "project" => Result(op) = BoxForget(box, op.dims, TRUE)
         /\ op.do = "add" => Result(op) = BoxAddDimensions(box, op.change, op.ints, op.project)
         /\ op.do = "remove" => Result(op) = BoxRemoveDimensions(box, op.change, op.ints)
         /\ op.do = "permute" => Result(op) = BoxPermute(box, op.perm)
         /\ op.do = "expand" => Result(op) = BoxExpand(box, op.dim, op.n)
         /\ op.do = "fold" => Result(op) = BoxFold(box, op.targets)
         /\ op.do = "add_ray" => Result(op) = BoxAddRay(box, op.line, op.ray)
         /\ op.do = "join" => Result(op) = BoxJoin(box, saved)
         /\ op.do = "meet" => Result(op) = BoxMeet(box, saved)
         /\ op.do = "widening" => Result(op) = BoxWidening(box, saved)
         /\ op.do = "threshold" => Result(op) = WideningThreshold(box, saved, op.lincons)
BY DEF Result

LEMMA AssignableIs ==
  ASSUME GoodBox(box), ~box.null, NEW uses \in SUBSET Dims(box), NEW expr, IsTexpr(expr, uses),
         NEW dim, Assignable(expr, dim)
  PROVE  Proper(EvalTexpr(expr, box.p)) /\ (dim < box.int => IntegerItv(EvalTexpr(expr, box.p)))
<1>1. box.int \in Nat /\ Dims(box) \subseteq Nat /\ ProperEnv(box.p, Dims(box))
  BY GoodIs
<1>2. uses \in SUBSET Nat
  BY <1>1
<1>3. ProperEnv(box.p, uses)
  BY <1>1 DEF ProperEnv
<1>4. \A d \in uses : d < box.int => IntegerItv(box.p[d])
  BY GoodDim
<1>5. FitsDim(expr, dim, box.p, box.int)
  BY DEF Assignable, FitsDim, DividesUp
<1> QED BY <1>1, <1>2, <1>3, <1>4, <1>5, EvalIsProper DEF Proper

LEMMA CallIsGood ==
  ASSUME IInv, NEW op \in Ops, Valid(op), op.do = "widening" => ~WideningCrashes(box, saved),
         op.do = "threshold" => BoxLeq(box, saved)
  PROVE  GoodBox(Result(op))
<1>0. GoodBox(box) /\ GoodBox(saved)
  BY DEF IInv
<1>1. CASE op.do = "assign"
  <2>1. /\ IsSequence(op.targets) /\ \A k \in DOMAIN op.targets : op.targets[k] \in ToSet(op.targets)
        /\ ToSet(op.targets) \subseteq op.uses /\ \A k \in DOMAIN op.targets : IsTexpr(op.exprs[k], op.uses)
    BY <1>1, OpsAssumption DEF Distinct, ToSet
  <2>2. op.uses \in SUBSET Dims(box) /\ (~box.null => \A k \in DOMAIN op.targets : Assignable(op.exprs[k], op.targets[k]))
    BY <1>1, CallKinds
  <2>3. ASSUME ~box.null, NEW k \in DOMAIN op.targets
        PROVE  /\ op.targets[k] \in Dims(box) /\ Proper(EvalTexpr(op.exprs[k], box.p))
               /\ op.targets[k] < box.int => IntegerItv(EvalTexpr(op.exprs[k], box.p))
    BY <1>0, <2>1, <2>2, <2>3, AssignableIs
  <2>4. GoodBox(BoxAssignTexpr(box, op.targets, op.exprs))
    BY <1>0, <2>1, <2>3, AssignIsGood
  <2> QED BY <1>1, <2>4, ResultKinds
<1>2. CASE op.do = "meet_tcons"
  <2>1. IsSequence(op.cons) /\ \A k \in DOMAIN op.cons : IsTcons(op.cons[k], op.uses)
    BY <1>2, OpsAssumption
  <2>2. op.uses \in SUBSET Dims(box)
    BY <1>2, CallKinds
  <2>3. GoodBox(BoxMeetTcons(box, op.cons))
    BY <1>0, <2>1, <2>2, MeetTconsIsGood
  <2> QED BY <1>2, <2>3, ResultKinds
<1>3. CASE op.do = "forget"
  <2>1. GoodBox(BoxForget(box, op.dims, FALSE))
    BY <1>0, ForgetIsGood
  <2> QED BY <1>3, <2>1, ResultKinds
<1>4. CASE op.do = "project"
  <2>1. GoodBox(BoxForget(box, op.dims, TRUE))
    BY <1>0, ForgetIsGood
  <2> QED BY <1>4, <2>1, ResultKinds
<1>5. CASE op.do = "add"
  <2>1. /\ IsSequence(op.change) /\ op.ints \in 0 .. Len(op.change)
        /\ \A k \in DOMAIN op.change : op.change[k] \in 0 .. (op.int + op.real)
        /\ \A k \in 1 .. op.ints : op.change[k] <= op.int
    BY <1>5, OpsAssumption
  <2>2. op.int = box.int /\ op.real = box.real
    BY <1>5, CallKinds
  <2>3. /\ \A k \in DOMAIN op.change : op.change[k] \in 0 .. (box.int + box.real)
        /\ \A k \in 1 .. op.ints : op.change[k] <= box.int
    BY <2>1, <2>2
  <2>4. GoodBox(BoxAddDimensions(box, op.change, op.ints, op.project))
    BY <1>0, <2>1, <2>3, AddIsGood
  <2> QED BY <1>5, <2>4, ResultKinds
<1>6. CASE op.do = "remove"
  <2>1. /\ Distinct(op.change) /\ ToSet(op.change) \subseteq 0 .. (op.int + op.real - 1)
        /\ op.ints = Cardinality(ToSet(op.change) \intersect (0 .. (op.int - 1)))
    BY <1>6, OpsAssumption
  <2>2. op.int = box.int /\ op.real = box.real
    BY <1>6, CallKinds
  <2>3. ToSet(op.change) \subseteq Dims(box) /\ op.ints = Cardinality(ToSet(op.change) \intersect (0 .. box.int - 1))
    BY <2>1, <2>2 DEF Dims
  <2>4. GoodBox(BoxRemoveDimensions(box, op.change, op.ints))
    BY <1>0, <2>1, <2>3, RemoveIsGood
  <2> QED BY <1>6, <2>4, ResultKinds
<1>7. CASE op.do = "permute"
  <2>1. /\ op.perm \in Bijection(0 .. (op.int + op.real - 1), 0 .. (op.int + op.real - 1))
        /\ \A d \in 0 .. (op.int + op.real - 1) : op.perm[d] \in 0 .. (op.int - 1) <=> d \in 0 .. (op.int - 1)
    BY <1>7, OpsAssumption
  <2>2. op.int = box.int /\ op.real = box.real
    BY <1>7, CallKinds
  <2>3. /\ op.perm \in Bijection(Dims(box), Dims(box))
        /\ \A d \in Dims(box) : op.perm[d] \in 0 .. box.int - 1 <=> d \in 0 .. box.int - 1
    BY <2>1, <2>2 DEF Dims
  <2>4. GoodBox(BoxPermute(box, op.perm))
    BY <1>0, <2>3, PermuteIsGood
  <2> QED BY <1>7, <2>4, ResultKinds
<1>8. CASE op.do = "expand"
  <2>1. op.dim \in 0 .. (op.int + op.real - 1) /\ op.n \in Nat
    BY <1>8, OpsAssumption
  <2>2. op.int = box.int /\ op.real = box.real
    BY <1>8, CallKinds
  <2>3. op.dim \in Dims(box)
    BY <2>1, <2>2 DEF Dims
  <2>4. GoodBox(BoxExpand(box, op.dim, op.n))
    BY <1>0, <2>1, <2>3, ExpandIsGood
  <2> QED BY <1>8, <2>4, ResultKinds
<1>9. CASE op.do = "fold"
  <2>1. /\ op.targets \in Seq(Nat) /\ Distinct(op.targets) /\ Len(op.targets) > 0
        /\ \/ ToSet(op.targets) \subseteq 0 .. (op.int - 1)
           \/ ToSet(op.targets) \subseteq (0 .. (op.int + op.real - 1)) \ (0 .. (op.int - 1))
    BY <1>9, OpsAssumption
  <2>2. op.int = box.int /\ op.real = box.real
    BY <1>9, CallKinds
  <2>3. \/ ToSet(op.targets) \subseteq 0 .. box.int - 1
        \/ ToSet(op.targets) \subseteq Dims(box) \ (0 .. box.int - 1)
    BY <2>1, <2>2 DEF Dims
  <2>4. GoodBox(BoxFold(box, op.targets))
    BY <1>0, <2>1, <2>3, FoldIsGood
  <2> QED BY <1>9, <2>4, ResultKinds
<1>10. CASE op.do = "add_ray"
  <2>1. GoodBox(BoxAddRay(box, op.line, op.ray))
    BY <1>0, AddRayIsGood
  <2> QED BY <1>10, <2>1, ResultKinds
<1>11. CASE op.do = "join"
  <2>1. Fit(box, saved)
    BY <1>11, CallKinds
  <2>2. GoodBox(BoxJoin(box, saved))
    BY <1>0, <2>1, JoinIsGood
  <2> QED BY <1>11, <2>2, ResultKinds
<1>12. CASE op.do = "meet"
  <2>1. Fit(box, saved)
    BY <1>12, CallKinds
  <2>2. GoodBox(BoxMeet(box, saved))
    BY <1>0, <2>1, MeetIsGood
  <2> QED BY <1>12, <2>2, ResultKinds
<1>13. CASE op.do = "widening"
  <2>1. Fit(box, saved)
    BY <1>13, CallKinds
  <2>2. GoodBox(BoxWidening(box, saved))
    BY <1>0, <1>13, <2>1, WideningIsGood
  <2> QED BY <1>13, <2>2, ResultKinds
<1>14. CASE op.do = "threshold"
  <2>1. Fit(box, saved) /\ op.uses \in SUBSET Dims(box)
    BY <1>14, CallKinds
  <2>2. IsSequence(op.lincons) /\ \A k \in DOMAIN op.lincons : IsLincons(op.lincons[k], op.uses)
    BY <1>14, OpsAssumption
  <2>3. ~WideningCrashes(box, saved)
    BY <1>14 DEF BoxLeq, WideningCrashes
  <2>4. GoodBox(WideningThreshold(box, saved, op.lincons))
    BY <1>0, <2>1, <2>2, <2>3, ThresholdIsGood
  <2> QED BY <1>14, <2>4, ResultKinds
<1> QED BY <1>1, <1>2, <1>3, <1>4, <1>5, <1>6, <1>7, <1>8, <1>9, <1>10, <1>11, <1>12, <1>13, <1>14, CallKinds DEF Kinds

LEMMA NextKeepsIInv ==
  ASSUME IInv, [Next]_vars
  PROVE  IInv'
<1>1. CASE Save
  BY <1>1 DEF Save, IInv
<1>2. ASSUME NEW op \in Ops, Call(op)
      PROVE  IInv'
  <2>1. box' = Result(op) /\ saved' = saved
    BY <1>2 DEF Call
  <2>2. GoodBox(Result(op))
    BY <1>2, CallIsGood DEF Call
  <2> QED BY <2>1, <2>2 DEF IInv
<1>3. CASE UNCHANGED vars
  BY <1>3 DEF IInv, vars
<1> QED BY <1>1, <1>2, <1>3 DEF Next

(* A box is empty only by its null array: whatever is called on it, a box  *)
(* with an array holds no empty interval, and integer bounds in integer    *)
(* dimensions (box_is_bottom of box_predicate.c looks at nothing else).    *)
THEOREM BoxesStayCanonical ==
  ASSUME NEW Boxes, NEW Copies, \A b \in Boxes \union Copies : GoodBox(b)
  PROVE  Init(Boxes, Copies) /\ [][Next]_vars => []Canonical
<1>1. Init(Boxes, Copies) => IInv
  BY DEF Init, IInv
<1>2. IInv /\ [Next]_vars => IInv'
  BY NextKeepsIInv
<1>3. IInv => Canonical
  <2> SUFFICES ASSUME GoodBox(box), ~box.null
               PROVE  /\ DOMAIN box.p = Dims(box)
                      /\ \A d \in Dims(box) : ~IsEmptyItv(box.p[d]) /\ (d < box.int => IntegerItv(box.p[d]))
    BY DEF IInv, Canonical
  <2> QED BY GoodIs, GoodDim DEF Proper
<1> QED BY <1>1, <1>2, <1>3, PTL

-----------------------------------------------------------------------------
(***************************************************************************)
(* The answers of a box.                                                   *)
(***************************************************************************)
LEMMA PointsAre ==
  ASSUME NEW a, GoodBox(a), NEW pt
  PROVE  pt \in Points(a) <=> /\ ~a.null /\ pt \in [Dims(a) -> Window]
                              /\ \A d \in Dims(a) : Has(pt[d], a.p[d])
<1>1. CASE a.null
  BY <1>1 DEF Points, InBox
<1>2. CASE ~a.null /\ pt \in [Dims(a) -> Window]
  <2>1. ASSUME NEW d \in Dims(a)
        PROVE  InItv(pt[d], a.p[d]) <=> Has(pt[d], a.p[d])
    <3>1. pt[d] \in Int /\ IsItv(a.p[d])
      BY <1>2, GoodDim, ApronBoxOpsAssumption DEF Proper
    <3> QED BY <3>1, InItvIs
  <2> QED BY <1>2, <2>1 DEF Points, InBox
<1>3. CASE pt \notin [Dims(a) -> Window]
  BY <1>3 DEF Points
<1> QED BY <1>1, <1>2, <1>3

(* A box that is below another one has no point that the other has not.    *)
LEMMA InclusionIsSound ==
  ASSUME NEW a, GoodBox(a), NEW b, GoodBox(b), Fit(a, b), BoxLeq(a, b)
  PROVE  Points(a) \subseteq Points(b)
<1> SUFFICES ASSUME NEW pt \in Points(a)
             PROVE  pt \in Points(b)
  OBVIOUS
<1>1. /\ ~a.null /\ pt \in [Dims(a) -> Window]
      /\ \A d \in Dims(a) : Has(pt[d], a.p[d])
  BY PointsAre
<1>2. Dims(a) = Dims(b)
  BY FitIs
<1>3. ~b.null /\ \A d \in Dims(a) : ItvLeq(a.p[d], b.p[d])
  BY <1>1 DEF BoxLeq
<1>4. ASSUME NEW d \in Dims(a)
      PROVE  Has(pt[d], b.p[d])
  <2>1. IsItv(a.p[d]) /\ IsItv(b.p[d])
    BY <1>1, <1>2, <1>3, GoodDim DEF Proper
  <2>2. pt[d] \in Int /\ IsFrac(IntBound(pt[d])) /\ In(IntBound(pt[d]), a.p[d])
    BY <1>1, IntBoundIs DEF Has
  <2>3. In(IntBound(pt[d]), b.p[d])
    BY <1>3, <2>1, <2>2, ItvLattice
  <2> QED BY <2>2, <2>3 DEF Has
<1> QED BY <1>1, <1>2, <1>3, <1>4, PointsAre

(* An interval without bounds holds every integer.                         *)
LEMMA TopHasAll ==
  ASSUME NEW a, IsItv(a), ItvIsTop(a), NEW k \in Int
  PROVE  Has(k, a)
<1>1. a.inf = PlusOo /\ a.sup = PlusOo
  BY BoundKinds DEF ItvIsTop, IsItv
<1>2. IsFrac(IntBound(k)) /\ IsFrac(BoundNeg(IntBound(k)))
  BY IntBoundIs, FracIs
<1> QED BY <1>1, <1>2, PlusOoIs DEF Has, In

LEMMA UnconstrainedIsSound ==
  ASSUME NEW a, GoodBox(a), NEW d \in Dims(a), BoxUnconstrained(a, d)
  PROVE  C!Inside(C!Forgotten(Points(a), {d})) \subseteq Points(a)
<1> SUFFICES ASSUME NEW q \in C!Forgotten(Points(a), {d})
             PROVE  q \in Points(a)
  BY DEF C!Inside
<1>1. ~a.null /\ ItvIsTop(a.p[d]) /\ IsItv(a.p[d])
  BY GoodDim DEF BoxUnconstrained, Proper
<1>2. PICK pt \in Points(a), f \in [{d} -> Window] :
        q = [x \in DOMAIN pt |-> IF x \in {d} THEN f[x] ELSE pt[x]]
  BY DEF C!Forgotten
<1>3. /\ pt \in [Dims(a) -> Window] /\ \A e \in Dims(a) : Has(pt[e], a.p[e])
  BY PointsAre
<1>4. q = [x \in Dims(a) |-> IF x \in {d} THEN f[x] ELSE pt[x]]
  BY <1>2, <1>3
<1>5. q \in [Dims(a) -> Window]
  BY <1>3, <1>4
<1>6. ASSUME NEW e \in Dims(a)
      PROVE  Has(q[e], a.p[e])
  <2>1. CASE e = d
    <3>1. q[e] \in Int
      BY <1>5, ApronBoxOpsAssumption
    <3> QED BY <2>1, <3>1, <1>1, TopHasAll
  <2>2. CASE e # d
    BY <2>2, <1>3, <1>4
  <2> QED BY <2>1, <2>2
<1> QED BY <1>1, <1>5, <1>6, PointsAre

-----------------------------------------------------------------------------
(* The values of a node, as the collecting semantics has them.             *)
LEMMA ApplyIs ==
  ASSUME NEW n, n.op \in Operators \ {"DIV"}, NEW a, NEW b
  PROVE  C!Apply(n, a, b) = Outcomes(n, a, b)
<1>1. CASE n.op = "MOD"
  BY <1>1 DEF C!Apply, Outcomes, C!Remainder, C!Magn, Abs
<1>2. CASE n.op # "MOD"
  BY <1>2 DEF C!Apply, Outcomes, Operators, Unary, Binary
<1> QED BY <1>1, <1>2

LEMMA LeafVals ==
  ASSUME NEW n, IsLeaf(n), NEW pt, NEW X, NEW Y
  PROVE  NodeVals(n, pt, X, Y) = IF n.op = "CST" THEN n.ints ELSE {pt[n.dim]}
BY DEF NodeVals, IsLeaf, Unary

(* The recursion of the collecting semantics has a solution.               *)
LEMMA ValuesAre ==
  ASSUME NEW expr, NEW uses, IsTexpr(expr, uses), \A i \in DOMAIN expr : expr[i].op # "DIV", NEW pt
  PROVE  \E vals : IsValuation(vals, expr, pt) /\ C!Values(expr, pt) = vals[Len(expr)]
<1> DEFINE N == Len(expr)
           E(i, g) == NodeVals(expr[i], pt, g[expr[i].a], g[expr[i].b])
           F(g) == [i \in DOMAIN expr |->
                      CASE expr[i].op = "CST" -> expr[i].ints
                        [] expr[i].op = "DIM" -> {pt[expr[i].dim]}
                        [] expr[i].op \in {"NEG", "CAST"} -> UNION {C!Apply(expr[i], a, a) : a \in g[expr[i].a]}
                        [] OTHER -> UNION {C!Apply(expr[i], a, b) : a \in g[expr[i].a], b \in g[expr[i].b]}]
           val == CHOOSE g : g = F(g)
           P(m, g) == g = [i \in 1 .. m |-> g[i]] /\ \A i \in 1 .. m : g[i] = E(i, g)
           S == {m \in 0 .. N : \E g : P(m, g)}
<1>0. N \in Nat /\ DOMAIN expr = 1 .. N /\ \A i \in 1 .. N : i \in Nat /\ IsNode(expr[i], i, uses)
  BY DEF IsTexpr, IsSequence
<1>1. C!Values(expr, pt) = val[N]
  BY DEF C!Values
<1>2. \A g : F(g) = [i \in 1 .. N |-> F(g)[i]]
  BY <1>0
<1>3. ASSUME NEW g, NEW i \in 1 .. N
      PROVE  F(g)[i] = E(i, g)
  <2>0. i \in DOMAIN expr
    BY <1>0
  <2>1. CASE IsLeaf(expr[i])
    <3>1. \A X, Y : NodeVals(expr[i], pt, X, Y) = IF expr[i].op = "CST" THEN expr[i].ints ELSE {pt[expr[i].dim]}
      BY <2>1, LeafVals
    <3>2. F(g)[i] = IF expr[i].op = "CST" THEN expr[i].ints ELSE {pt[expr[i].dim]}
      BY <2>0, <2>1 DEF IsLeaf
    <3> QED BY <3>1, <3>2
  <2>2. CASE ~IsLeaf(expr[i])
    <3>1. expr[i].op \in Operators \ {"DIV"} /\ i \in Nat
      BY <1>0, <2>2, NodeKinds
    <3>2. \A a, b : C!Apply(expr[i], a, b) = Outcomes(expr[i], a, b)
      BY <3>1, ApplyIs
    <3>3. CASE expr[i].op \in Unary
      <4>1. expr[i].op \in {"NEG", "CAST"} /\ expr[i].op \notin {"CST", "DIM"}
        BY <3>3 DEF Unary
      <4>2. F(g)[i] = UNION {C!Apply(expr[i], a, a) : a \in g[expr[i].a]}
        BY <2>0, <4>1
      <4>3. E(i, g) = UNION {Outcomes(expr[i], a, a) : a \in g[expr[i].a]}
        BY <3>3, <4>1 DEF NodeVals, OfOne
      <4>4. {C!Apply(expr[i], a, a) : a \in g[expr[i].a]} = {Outcomes(expr[i], a, a) : a \in g[expr[i].a]}
        BY ONLY <3>2
      <4> HIDE DEF E, F
      <4> QED BY <4>2, <4>3, <4>4
    <3>4. CASE expr[i].op \notin Unary
      <4>1. expr[i].op \notin {"NEG", "CAST"} /\ expr[i].op \notin {"CST", "DIM"}
        BY <2>2, <3>4 DEF Unary, IsLeaf
      <4>2. F(g)[i] = UNION {C!Apply(expr[i], a, b) : a \in g[expr[i].a], b \in g[expr[i].b]}
        BY <2>0, <4>1
      <4>3. E(i, g) = UNION {Outcomes(expr[i], a, b) : a \in g[expr[i].a], b \in g[expr[i].b]}
        BY <3>4, <4>1 DEF NodeVals, OfTwo
      <4>4. {C!Apply(expr[i], a, b) : a \in g[expr[i].a], b \in g[expr[i].b]}
              = {Outcomes(expr[i], a, b) : a \in g[expr[i].a], b \in g[expr[i].b]}
        BY ONLY <3>2
      <4> HIDE DEF E, F
      <4> QED
        <5> DEFINE A == {C!Apply(expr[i], a, b) : a \in g[expr[i].a], b \in g[expr[i].b]}
                   B == {Outcomes(expr[i], a, b) : a \in g[expr[i].a], b \in g[expr[i].b]}
        <5>1. F(g)[i] = UNION A /\ E(i, g) = UNION B /\ A = B
          BY <4>2, <4>3, <4>4
        <5> HIDE DEF A, B
        <5> QED BY <5>1
    <3> QED BY <3>3, <3>4
  <2> QED BY <2>1, <2>2
<1>4. ASSUME NEW i \in 1 .. N, NEW g, NEW h, \A j \in 1 .. i - 1 : g[j] = h[j]
      PROVE  E(i, g) = E(i, h)
  <2>1. CASE IsLeaf(expr[i])
    <3>1. \A X, Y : NodeVals(expr[i], pt, X, Y) = IF expr[i].op = "CST" THEN expr[i].ints ELSE {pt[expr[i].dim]}
      BY <2>1, LeafVals
    <3> QED BY <3>1
  <2>2. CASE ~IsLeaf(expr[i])
    <3>1. expr[i].a \in 1 .. i - 1 /\ expr[i].b \in 1 .. i - 1
      BY <2>2, <1>0, NodeKinds
    <3>2. g[expr[i].a] = h[expr[i].a] /\ g[expr[i].b] = h[expr[i].b]
      BY <1>4, <3>1
    <3> QED BY <3>2
  <2> QED BY <2>1, <2>2
<1> HIDE DEF E, F, N
<1>5. 0 \in S
  <2> DEFINE g == [i \in 1 .. 0 |-> 0]
  <2>1. P(0, g)
    OBVIOUS
  <2> HIDE DEF P
  <2> QED BY <1>0, <2>1
<1>6. ASSUME NEW m \in 0 .. N - 1, m \in S
      PROVE  m + 1 \in S
  <2>1. PICK g : P(m, g)
    BY <1>6
  <2> DEFINE h == [i \in 1 .. m + 1 |-> IF i = m + 1 THEN E(m + 1, g) ELSE g[i]]
  <2>2. m \in Nat /\ m + 1 \in 0 .. N /\ m + 1 \in 1 .. N
    BY <1>0
  <2>3. h = [i \in 1 .. m + 1 |-> h[i]] /\ \A i \in 1 .. m + 1 : h[i] = IF i = m + 1 THEN E(m + 1, g) ELSE g[i]
    OBVIOUS
  <2> HIDE DEF h
  <2>4. ASSUME NEW i \in 1 .. m + 1
        PROVE  h[i] = E(i, h)
    <3>1. i \in 1 .. N /\ \A j \in 1 .. i - 1 : j \in 1 .. m + 1 /\ j # m + 1
      BY <2>2, <1>0
    <3>2. E(i, g) = E(i, h)
      BY <1>4, <3>1, <2>3
    <3>3. CASE i = m + 1
      BY <2>3, <3>2, <3>3
    <3>4. CASE i # m + 1
      <4>1. i \in 1 .. m
        BY <3>4, <2>2
      <4> QED BY <4>1, <3>4, <3>2, <2>1, <2>3
    <3> QED BY <3>3, <3>4
  <2>5. P(m + 1, h)
    BY <2>3, <2>4
  <2> HIDE DEF P
  <2> QED BY <2>2, <2>5
<1>7. PICK g : P(N, g)
  <2> HIDE DEF P
  <2>1. 0 .. N \subseteq S
    <3> HIDE DEF S
    <3> QED BY <1>0, <1>5, <1>6, UpTo
  <2>2. N \in 0 .. N
    BY <1>0
  <2> QED BY <2>1, <2>2
<1>8. g = F(g)
  <2>1. \A i \in 1 .. N : g[i] = F(g)[i]
    BY <1>3, <1>7
  <2> QED BY <1>2, <1>7, <2>1
<1>9. val = F(val)
  BY <1>8
<1> HIDE DEF val
<1>10. IsValuation(val, expr, pt)
  BY <1>0, <1>3, <1>9 DEF IsValuation, E
<1> QED BY <1>1, <1>10 DEF N

-----------------------------------------------------------------------------
(* A constraint that the constant interval m satisfies holds of every      *)
(* integer in it.                                                          *)
LEMMA EvalCstIs ==
  ASSUME NEW typ \in Types, NEW lin, EvalCst(Lincons(typ, lin)) = "true"
  PROVE  /\ ~IsEmptyItv(lin.cst)
         /\ typ = "EQ" => lin.eq /\ BoundSgn(lin.cst.sup) = 0
         /\ typ = "DISEQ" => BoundSgn(lin.cst.inf) < 0 \/ BoundSgn(lin.cst.sup) < 0
         /\ typ = "SUPEQ" => BoundSgn(lin.cst.inf) <= 0
         /\ typ = "SUP" => BoundSgn(lin.cst.inf) < 0
<1>1. Lincons(typ, lin).typ = typ /\ Lincons(typ, lin).lin = lin
  BY LinconsIs
<1>2. ~IsEmptyItv(lin.cst)
  BY <1>1 DEF EvalCst
<1>3. CASE typ = "EQ"
  BY <1>1, <1>2, <1>3 DEF EvalCst
<1>4. CASE typ = "DISEQ"
  BY <1>1, <1>2, <1>4 DEF EvalCst
<1>5. CASE typ = "SUPEQ"
  BY <1>1, <1>2, <1>5 DEF EvalCst
<1>6. CASE typ = "SUP"
  BY <1>1, <1>2, <1>6 DEF EvalCst
<1> QED BY <1>2, <1>3, <1>4, <1>5, <1>6 DEF Types

LEMMA ConstantIsSound ==
  ASSUME NEW m, IsItv(m), NEW typ \in Types, EvalCst(Lincons(typ, LinCst(m))) = "true", NEW v, Has(v, m)
  PROVE  C!Satisfies(v, typ)
<1>1. /\ typ = "EQ" => ItvIsPoint(m) /\ BoundSgn(m.sup) = 0
      /\ typ = "DISEQ" => BoundSgn(m.inf) < 0 \/ BoundSgn(m.sup) < 0
      /\ typ = "SUPEQ" => BoundSgn(m.inf) <= 0
      /\ typ = "SUP" => BoundSgn(m.inf) < 0
  BY EvalCstIs, LinCstIs
<1>2. v \in Int /\ IsFrac(IntBound(v)) /\ IntBound(v)[1] = v /\ In(IntBound(v), m)
  BY IntBoundIs DEF Has
<1>3. IsBound(m.inf) /\ IsBound(m.sup)
  BY ItvSides
<1>4. /\ m.inf[1] <= 0 => v >= 0
      /\ m.inf[1] < 0 => v > 0
      /\ m.sup[1] < 0 => v < 0
      /\ m.inf[1] \in Int /\ m.sup[1] \in Int
  BY <1>2, <1>3, ItvSides, BoundKinds
<1>5. /\ BoundSgn(m.inf) <= 0 <=> m.inf[1] <= 0
      /\ BoundSgn(m.inf) < 0 <=> m.inf[1] < 0
      /\ BoundSgn(m.sup) < 0 <=> m.sup[1] < 0
      /\ BoundSgn(m.sup) = 0 <=> m.sup[1] = 0
  BY <1>3, <1>4 DEF BoundSgn, SgnOf
<1>6. CASE typ = "EQ"
  <2>1. IntBound(v) = m.sup
    BY <1>1, <1>2, <1>6, PointIs
  <2>2. v = 0
    BY <1>1, <1>2, <1>5, <1>6, <2>1
  <2> QED BY <1>6, <2>2 DEF C!Satisfies
<1>7. CASE typ = "DISEQ"
  BY <1>1, <1>2, <1>4, <1>5, <1>7 DEF C!Satisfies
<1>8. CASE typ = "SUPEQ"
  BY <1>1, <1>2, <1>4, <1>5, <1>8 DEF C!Satisfies
<1>9. CASE typ = "SUP"
  BY <1>1, <1>2, <1>4, <1>5, <1>9 DEF C!Satisfies
<1> QED BY <1>6, <1>7, <1>8, <1>9 DEF Types

(* Without divisions nothing depends on the sign of a divisor.             *)
LEMMA NoDivision ==
  ASSUME NEW c, NEW uses, IsTcons(c, uses), NEW env
  PROVE  /\ c.typ \in Types /\ IsTexpr(c.expr, uses) /\ (\A i \in DOMAIN c.expr : c.expr[i].op # "DIV")
         /\ DividesUp(c.expr, env)
BY DEF IsTcons, DividesUp

(* Every value of an expression at a point of a box is in the interval     *)
(* that the box evaluates it to.                                           *)
LEMMA ValuesAreInside ==
  ASSUME NEW a, GoodBox(a), ~a.null, NEW uses \in SUBSET Dims(a),
         NEW expr, IsTexpr(expr, uses), \A i \in DOMAIN expr : expr[i].op # "DIV", DividesUp(expr, a.p),
         NEW pt, \A d \in Dims(a) : Has(pt[d], a.p[d]), NEW v \in C!Values(expr, pt)
  PROVE  IsItv(EvalTexpr(expr, a.p)) /\ Has(v, EvalTexpr(expr, a.p))
<1>1. ProperEnv(a.p, uses)
  BY GoodIs DEF ProperEnv
<1>2. PointIn(pt, a.p, uses)
  BY DEF PointIn
<1>3. Len(expr) \in 1 .. Len(expr)
  BY Nodes
<1>4. PICK vals : IsValuation(vals, expr, pt) /\ C!Values(expr, pt) = vals[Len(expr)]
  BY ValuesAre
<1>5. IsItv(EvalNodes(expr, a.p)[Len(expr)]) /\ Has(v, EvalNodes(expr, a.p)[Len(expr)])
  BY <1>1, <1>2, <1>3, <1>4, EvalAreItvs, EvalIsSound
<1> QED BY <1>5 DEF EvalTexpr

LEMMA SatIsSound ==
  ASSUME NEW a, GoodBox(a), NEW uses \in SUBSET Dims(a), NEW c, IsTcons(c, uses), BoxSatTcons(a, c),
         NEW pt \in Points(a), NEW v \in C!Values(c.expr, pt)
  PROVE  C!Satisfies(v, c.typ)
<1>1. ~a.null /\ \A d \in Dims(a) : Has(pt[d], a.p[d])
  BY PointsAre
<1>2. /\ c.typ \in Types /\ IsTexpr(c.expr, uses) /\ (\A i \in DOMAIN c.expr : c.expr[i].op # "DIV")
      /\ DividesUp(c.expr, a.p)
  BY NoDivision
<1>3. IsItv(EvalTexpr(c.expr, a.p)) /\ Has(v, EvalTexpr(c.expr, a.p))
  BY <1>1, <1>2, ValuesAreInside
<1>4. EvalCst(Lincons(c.typ, LinCst(EvalTexpr(c.expr, a.p)))) = "true"
  BY <1>1 DEF BoxSatTcons
<1> QED BY <1>2, <1>3, <1>4, ConstantIsSound

LEMMA AskedAre ==
  ASSUME NEW c \in Asked
  PROVE  \E uses \in SUBSET Dims(box) : IsTcons(c, uses)
<1>1. PICK op \in Ops : op.do = "meet_tcons" /\ op.uses \subseteq Dims(box) /\ c \in ToSet(op.cons)
  BY DEF Asked
<1>2. IsSequence(op.cons) /\ \A k \in DOMAIN op.cons : IsTcons(op.cons[k], op.uses)
  BY <1>1, OpsAssumption
<1>3. IsTcons(c, op.uses)
  BY <1>1, <1>2 DEF ToSet
<1> QED BY <1>1, <1>3

(* A box answers for all its points: an inclusion, a constraint that is    *)
(* said to hold, a dimension that is said to be unconstrained              *)
(* (box_is_leq, box_sat_tcons, box_is_dimension_unconstrained of           *)
(* box_predicate.c).                                                       *)
THEOREM BoxesAnswerSoundly ==
  ASSUME NEW Boxes, NEW Copies, \A b \in Boxes \union Copies : GoodBox(b)
  PROVE  Init(Boxes, Copies) /\ [][Next]_vars => []AnswersAreSound
<1>1. Init(Boxes, Copies) => IInv
  BY DEF Init, IInv
<1>2. IInv /\ [Next]_vars => IInv'
  BY NextKeepsIInv
<1>3. IInv => AnswersAreSound
  <2> SUFFICES ASSUME GoodBox(box), GoodBox(saved) PROVE AnswersAreSound
    BY DEF IInv
  <2>1. Fit(box, saved) /\ BoxLeq(box, saved) => Points(box) \subseteq Points(saved)
    BY InclusionIsSound
  <2>2. ASSUME NEW c \in Asked, BoxSatTcons(box, c), NEW pt \in Points(box), NEW v \in C!Values(c.expr, pt)
        PROVE  C!Satisfies(v, c.typ)
    BY <2>2, AskedAre, SatIsSound
  <2>3. ASSUME NEW d \in Dims(box), BoxUnconstrained(box, d)
        PROVE  C!Inside(C!Forgotten(Points(box), {d})) \subseteq Points(box)
    BY <2>3, UnconstrainedIsSound
  <2> QED BY <2>1, <2>2, <2>3 DEF AnswersAreSound
<1> QED BY <1>1, <1>2, <1>3, PTL

-----------------------------------------------------------------------------
(***************************************************************************)
(* The constraints that a box gives out.                                   *)
(***************************************************************************)
One == IntBound(1)

(* Nothing is lost in lowest terms.                                        *)
LEMMA UnitOps ==
  ASSUME NEW b, IsFrac(b)
  PROVE  /\ BoundDiv(b, One) = b
         /\ BoundMul(b, One) = b
         /\ BoundAdd(b, Zero) = b
<1>1. b = <<b[1], b[2]>> /\ b[1] \in Int /\ b[2] \in Int /\ b[2] > 0 /\ Num(b[1], b[2]) = b /\ ~IsInfty(b)
  BY FracIs DEF IsFrac
<1>2. One = <<1, 1>> /\ Zero = <<0, 1>>
  BY DEF One, Zero, IntBound
<1>3. b[1] = 0 => b = Zero
  BY <1>1, NumOfZero
<1>4. BoundSgn(b) = 0 <=> b[1] = 0
  BY <1>1 DEF BoundSgn, SgnOf
<1>5. BoundSgn(One) = 1 /\ ~IsInfty(One) /\ ~IsInfty(Zero)
  BY <1>2 DEF BoundSgn, SgnOf, IsInfty
<1>6. b[1] * 1 = b[1] /\ b[2] * 1 = b[2] /\ b[1] * 1 + 0 * b[2] = b[1] /\ One[1] = 1 /\ One[2] = 1 /\ Zero[1] = 0 /\ Zero[2] = 1
  BY <1>1, <1>2
<1>7. BoundDiv(b, One) = b
  BY <1>1, <1>3, <1>4, <1>5, <1>6 DEF BoundDiv
<1>8. BoundMul(b, One) = b
  BY <1>1, <1>3, <1>4, <1>5, <1>6 DEF BoundMul
<1>9. BoundAdd(b, Zero) = b
  BY <1>1, <1>5, <1>6 DEF BoundAdd
<1> QED BY <1>7, <1>8, <1>9

LEMMA FloorOfWhole ==
  ASSUME NEW b, IsBound(b), Integral(b), NEW typ, typ # "SUP"
  PROVE  BoundFloor(b) = b /\ Tightened(typ, b) = b
<1>1. BoundFloor(b) = b
  <2>1. CASE b = PlusOo
    BY <2>1, PlusOoIs DEF BoundFloor
  <2>2. CASE b # PlusOo
    <3>1. b[1] \in Int /\ b = IntBound(b[1])
      BY <2>2, IntegralIs
    <3>2. b[2] = 1 /\ ~IsInfty(b)
      BY <3>1, IntBoundIs DEF IsInfty
    <3>3. b[1] \div 1 = b[1]
      BY <3>1
    <3> QED BY <3>1, <3>2, <3>3 DEF BoundFloor
  <2> QED BY <2>1, <2>2
<1> QED BY <1>1 DEF Tightened

(* A constraint  k x + b >= 0  or  = 0  for a coefficient k of 1 or -1.    *)
UnitTerms(d, k) == [x \in {d} |-> ItvInt(k)]
Unit(typ, d, k, b) == Lincons(typ, Lin(Itv(BoundNeg(b), b), TRUE, UnitTerms(d, k)))

LEMMA UnitIs ==
  ASSUME NEW typ, NEW d, NEW k, NEW b
  PROVE  /\ Unit(typ, d, k, b).typ = typ /\ Unit(typ, d, k, b).lin.cst = Itv(BoundNeg(b), b)
         /\ Unit(typ, d, k, b).lin.terms = UnitTerms(d, k)
<1>1. Unit(typ, d, k, b).lin.cst = Itv(BoundNeg(b), b)
  BY DEF Unit, Lincons, Lin
<1>2. Unit(typ, d, k, b).lin.terms = UnitTerms(d, k)
  BY DEF Unit, Lincons, Lin
<1>3. Unit(typ, d, k, b).typ = typ
  BY DEF Unit, Lincons
<1> HIDE DEF Unit
<1> QED BY <1>1, <1>2, <1>3

LEMMA UnitTermsAre ==
  ASSUME NEW d, NEW k
  PROVE  DOMAIN UnitTerms(d, k) = {d} /\ UnitTerms(d, k)[d] = ItvInt(k)
BY DEF UnitTerms

LEMMA UnitEq ==
  ASSUME NEW typ, NEW d, NEW k, NEW b
  PROVE  Unit(typ, d, k, b).lin.eq /\ Unit(typ, d, k, b).lin.eq \in BOOLEAN
BY DEF Unit, Lincons, Lin

LEMMA UnitIsReady ==
  ASSUME NEW typ, typ \in {"EQ", "SUPEQ"}, NEW D, NEW d \in D, NEW k, k \in {1, -1}, NEW b, IsFrac(b)
  PROVE  ReadyCons(Unit(typ, d, k, b), D) /\ Proper(Itv(BoundNeg(b), b)) /\ Bounded(Itv(BoundNeg(b), b))
<1>1. IsFrac(BoundNeg(b)) /\ IsBound(b) /\ IsBound(BoundNeg(b)) /\ ~IsInfty(b) /\ ~IsInfty(BoundNeg(b)) /\ BoundNeg(BoundNeg(b)) = b
  BY FracIs
<1>2. IsItv(Itv(BoundNeg(b), b)) /\ Itv(BoundNeg(b), b).inf = BoundNeg(b) /\ Itv(BoundNeg(b), b).sup = b
  BY <1>1, ItvIs
<1>3. ItvIsPoint(Itv(BoundNeg(b), b)) /\ Bounded(Itv(BoundNeg(b), b))
  BY <1>1, <1>2 DEF ItvIsPoint, Bounded
<1>4. Proper(Itv(BoundNeg(b), b))
  BY <1>2, <1>3, PointIs DEF Proper
<1>5. Proper(ItvInt(k))
  BY ItvIntIs
<1> DEFINE c == Unit(typ, d, k, b)
<1>6. c.typ = typ /\ c.lin.cst = Itv(BoundNeg(b), b) /\ c.lin.terms = UnitTerms(d, k)
  BY UnitIs
<1>9. c.lin.eq /\ c.lin.eq \in BOOLEAN
  BY UnitEq
<1>10. DOMAIN UnitTerms(d, k) = {d} /\ UnitTerms(d, k)[d] = ItvInt(k)
  BY UnitTermsAre
<1> HIDE DEF c
<1>7. ProperLin(c.lin, D)
  BY <1>4, <1>5, <1>6, <1>9, <1>10 DEF ProperLin
<1>8. ReadyCons(c, D)
  BY <1>3, <1>6, <1>9, <1>7 DEF ReadyCons, ProperCons, Types
<1> QED BY <1>3, <1>4, <1>8 DEF c

(* A constraint of a box is in its final form.                             *)
LEMMA UnitFactor ==
  ASSUME NEW d \in Nat, NEW k \in {1, -1}
  PROVE  CommonFactor(UnitTerms(d, k)).lcm = 1 /\ CommonFactor(UnitTerms(d, k)).gcd = 1
<1> DEFINE terms == UnitTerms(d, k)
           dims == Ascending(DOMAIN terms)
<1>1. DOMAIN terms = {d} /\ terms[d] = ItvInt(k)
  BY UnitTermsAre
<1>2. DOMAIN terms \in SUBSET Int /\ IsFiniteSet(DOMAIN terms) /\ Cardinality(DOMAIN terms) = 1
  <2>1. IsFiniteSet({d}) /\ Cardinality({d}) = 1
    BY FS_Singleton
  <2>2. Cardinality(DOMAIN terms) = Cardinality({d})
    BY <1>1
  <2> HIDE DEF terms
  <2> QED BY <1>1, <2>1, <2>2
<1>3. \A e \in DOMAIN terms : Proper(terms[e]) /\ ItvIsPoint(terms[e])
  BY <1>1, ItvIntIs
<1>4. Len(dims) = 1 /\ dims[1] = d
  <2>1. Len(dims) = 1 /\ dims[1] \in DOMAIN terms
    <3> DEFINE T == DOMAIN terms
    <3>1. T \in SUBSET Int /\ IsFiniteSet(T) /\ Cardinality(T) = 1
      BY <1>2
    <3> HIDE DEF terms, T
    <3>2. Len(Ascending(T)) = 1
      BY <3>1, AscendingIs
    <3>3. \A j \in 1 .. Len(Ascending(T)) : Ascending(T)[j] \in T
      BY <3>1, AscendingIs
    <3>4. 1 \in 1 .. Len(Ascending(T))
      BY <3>2
    <3> QED BY <3>2, <3>3, <3>4 DEF T
  <2> QED BY <1>1, <2>1
<1>5. ItvInt(k).sup = <<k, 1>>
  BY DEF ItvInt, Itv, IntBound
<1> HIDE DEF terms
<1>6. PICK fold : /\ fold[0] = [lcm |-> 1, gcd |-> 0]
                  /\ \A j \in 1 .. Len(dims) : fold[j] = FactorStep(terms[dims[j]], fold[j - 1])
                  /\ CommonFactor(terms) = fold[Len(dims)]
  BY <1>2, <1>3, CommonFactorIs
<1>7. CommonFactor(terms) = FactorStep(ItvInt(k), [lcm |-> 1, gcd |-> 0])
  <2>1. 1 \in 1 .. Len(dims) /\ 1 - 1 = 0
    BY <1>4
  <2>2. fold[1] = FactorStep(terms[dims[1]], fold[1 - 1])
    BY <1>6, <2>1
  <2> HIDE DEF dims
  <2> QED BY <1>1, <1>4, <1>6, <2>1, <2>2
<1>8. Gcd[<<1, 1>>] = 1 /\ Gcd[<<0, 1>>] = 1 /\ Gcd[<<1, 0>>] = 1
  <2>1. Gcd[<<1, 0>>] = 1
    BY GcdUnfolds
  <2>2. Gcd[<<1, 1>>] = Gcd[<<1, 1 % 1>>] /\ Gcd[<<0, 1>>] = Gcd[<<1, 0 % 1>>]
    BY GcdUnfolds
  <2> QED BY <2>1, <2>2
<1>9. Lcm(1, 1) = 1 /\ Abs(k) = 1
  BY <1>8 DEF Lcm, Abs
<1> QED BY <1>5, <1>7, <1>8, <1>9 DEF FactorStep, terms

-----------------------------------------------------------------------------
LEMMA SameEq ==
  ASSUME NEW e \in BOOLEAN, e, NEW cst, NEW terms
  PROVE  Lin(cst, e, terms) = Lin(cst, TRUE, terms)
BY DEF Lin

LEMMA MulByOne ==
  ASSUME NEW a, IsItv(a), ~IsInfty(a.inf), ~IsInfty(a.sup)
  PROVE  ItvMulBound(a, One) = a
<1>1. a = Itv(a.inf, a.sup) /\ IsFrac(a.inf) /\ IsFrac(a.sup)
  BY BoundKinds DEF IsItv
<1>2. BoundSgn(One) >= 0
  BY DEF One, IntBound, BoundSgn, SgnOf
<1>3. BoundMul(a.inf, One) = a.inf /\ BoundMul(a.sup, One) = a.sup
  BY <1>1, UnitOps
<1> QED BY <1>1, <1>2, <1>3 DEF ItvMulBound

LEMMA UnitReduces ==
  ASSUME NEW typ \in {"EQ", "SUPEQ"}, NEW d \in Nat, NEW k \in {1, -1}, NEW b, IsFrac(b),
         NEW int \in Nat, d < int => Integral(b)
  PROVE  ReduceInteger(Unit(typ, d, k, b), int) = Unit(typ, d, k, b)
<1> DEFINE u == Unit(typ, d, k, b)
           ts == UnitTerms(d, k)
           factor == CommonFactor(ts)
           q == Num(factor.lcm, factor.gcd)
           terms == [x \in DOMAIN ts |-> ItvMulBound(ts[x], q)]
           m == Itv(BoundNeg(b), b)
           cst == ItvMulBound(m, q)
           sup == IF IsInfty(cst.sup) THEN cst.sup ELSE Tightened(typ, cst.sup)
           eqInf == IF IsInfty(cst.inf) THEN cst.inf ELSE BoundNeg(sup)
<1>1. u.typ = typ /\ u.lin.cst = m /\ u.lin.terms = ts
  BY UnitIs
<1>2. u.lin.eq /\ u.lin.eq \in BOOLEAN
  BY UnitEq
<1>3. DOMAIN ts = {d} /\ ts[d] = ItvInt(k)
  BY UnitTermsAre
<1>4. u = Lincons(typ, Lin(m, TRUE, ts))
  BY DEF Unit
<1>5. factor.lcm = 1 /\ factor.gcd = 1
  BY UnitFactor
<1>6. q = One
  BY <1>5, NumOfInteger DEF One
<1> HIDE DEF q, factor
<1>7. Proper(m) /\ ~IsInfty(m.inf) /\ ~IsInfty(m.sup) /\ m.inf = BoundNeg(b) /\ m.sup = b
  <2>1. Proper(m) /\ Bounded(m)
    BY UnitIsReady
  <2>2. m.inf = BoundNeg(b) /\ m.sup = b
    BY DEF Itv
  <2> QED BY <2>1, <2>2 DEF Bounded
<1>8. cst = m
  BY <1>6, <1>7, MulByOne DEF Proper
<1>9. ItvIsPoint(ItvInt(k)) /\ ItvMulBound(ItvInt(k), One) = ItvInt(k)
  <2>1. Proper(ItvInt(k)) /\ Bounded(ItvInt(k)) /\ ItvIsPoint(ItvInt(k))
    BY ItvIntIs
  <2> QED BY <2>1, MulByOne DEF Proper, Bounded
<1>10. terms = ts
  BY <1>3, <1>6, <1>9 DEF UnitTerms
<1>11. CASE d >= int
  <2>1. \E x \in DOMAIN u.lin.terms : x >= int
    BY <1>1, <1>3, <1>11
  <2> HIDE DEF u
  <2>2. ReduceInteger(u, int) = u
    BY <2>1 DEF ReduceInteger
  <2> QED BY <2>2 DEF u
<1>12. CASE d < int
  <2>1. IsBound(b) /\ sup = b /\ eqInf = BoundNeg(b)
    BY <1>7, <1>8, <1>12, FracIs, FloorOfWhole
  <2>2. ~(\/ typ = "DISEQ"
          \/ \E x \in DOMAIN ts : x >= int \/ ~ItvIsPoint(ts[x])
          \/ factor.gcd = 0)
    BY <1>3, <1>5, <1>9, <1>12
  <2> HIDE DEF u, ts, m
  <2>3. ReduceInteger(u, int) =
          IF \/ typ = "DISEQ"
             \/ \E x \in DOMAIN ts : x >= int \/ ~ItvIsPoint(ts[x])
             \/ factor.gcd = 0
          THEN u
          ELSE IF typ = "EQ"
          THEN IF IsEmptyItv(Itv(eqInf, sup)) THEN FalseCons
               ELSE Lincons(typ, Lin(Itv(eqInf, sup), u.lin.eq, terms))
          ELSE IF IsInfty(sup) THEN Lincons(typ, Lin(cst, u.lin.eq, terms))
          ELSE Lincons(typ, Lin(Itv(BoundNeg(sup), sup), TRUE, terms))
    BY <1>1, <1>2 DEF ReduceInteger, factor, q
  <2> HIDE DEF terms, sup, eqInf, cst
  <2>4. ~IsEmptyItv(m) /\ ~IsInfty(b)
    BY <1>7 DEF Proper
  <2>5. Itv(BoundNeg(b), b) = m
    BY DEF m
  <2>6. Lin(m, u.lin.eq, ts) = Lin(m, TRUE, ts)
    BY <1>2, SameEq
  <2>7. CASE typ = "EQ"
    <3>1. ReduceInteger(u, int) = u
      BY <1>4, <1>10, <2>1, <2>2, <2>3, <2>4, <2>5, <2>6, <2>7
    <3> QED BY <3>1 DEF u
  <2>8. CASE typ # "EQ"
    <3>1. ReduceInteger(u, int) = u
      BY <1>4, <1>10, <2>1, <2>2, <2>3, <2>4, <2>5, <2>8
    <3> QED BY <3>1 DEF u
  <2> QED BY <2>7, <2>8
<1> QED BY <1>11, <1>12

(* It is neither false nor without use.                                    *)
LEMMA UnitIsUseful ==
  ASSUME NEW typ, NEW d, NEW k, NEW b
  PROVE  ~IsFalseCst(Unit(typ, d, k, b)) /\ ~IsUselessForMeet(Unit(typ, d, k, b))
<1> DEFINE u == Unit(typ, d, k, b)
<1>1. u.lin.terms = UnitTerms(d, k)
  BY UnitIs
<1>5. DOMAIN UnitTerms(d, k) = {d}
  BY UnitTermsAre
<1>2. u.lin.eq
  BY UnitEq
<1>3. ~IsCst(u.lin)
  BY <1>1, <1>5 DEF IsCst
<1> HIDE DEF u
<1>4. ~IsFalseCst(u) /\ ~IsUselessForMeet(u)
  BY <1>2, <1>3 DEF IsFalseCst, IsUselessForMeet
<1> QED BY <1>4 DEF u

-----------------------------------------------------------------------------
LEMMA MinToward ==
  ASSUME NEW b, IsBound(b), NEW x \in {PlusOo, b}, NEW y \in {PlusOo, b}
  PROVE  BoundMin(x, y) = IF x = b \/ y = b THEN b ELSE PlusOo
<1>1. CASE x = y
  BY <1>1 DEF BoundMin
<1>2. CASE x # y
  <2>1. IsFrac(b) /\ b # PlusOo /\ ~IsInfty(b)
    BY <1>2, FracIs DEF IsBound
  <2>2. IsInfty(PlusOo) /\ BoundSgn(PlusOo) = 1
    BY PlusOoIs
  <2>3. BoundCmp(PlusOo, b) = 1 /\ BoundCmp(b, PlusOo) = -1
    BY <2>1, <2>2 DEF BoundCmp
  <2> QED BY <1>2, <2>1, <2>3 DEF BoundMin
<1> QED BY <1>1, <1>2

(* Between the whole space and the box a: every bound is that of a, or     *)
(* not there yet.                                                          *)
Between(env, a) ==
  /\ env = [d \in Dims(a) |-> env[d]]
  /\ \A d \in Dims(a) : /\ env[d] = Itv(env[d].inf, env[d].sup)
                        /\ env[d].inf \in {PlusOo, a.p[d].inf}
                        /\ env[d].sup \in {PlusOo, a.p[d].sup}

LEMMA TowardIsProper ==
  ASSUME NEW i, Proper(i), NEW x \in {PlusOo, i.inf}, NEW y \in {PlusOo, i.sup}
  PROVE  Proper(Itv(x, y)) /\ (IntegerItv(i) => IntegerItv(Itv(x, y))) /\ Itv(x, y).inf = x /\ Itv(x, y).sup = y
<1>1. IsItv(i) /\ IsBound(i.inf) /\ IsBound(i.sup)
  BY DEF Proper, IsItv
<1>2. IsBound(PlusOo) /\ IsInfty(PlusOo) /\ \A q : IsFrac(q) => AtMost(q, PlusOo)
  BY PlusOoIs
<1>3. IsBound(x) /\ IsBound(y)
  BY <1>1, <1>2
<1>4. IsItv(Itv(x, y)) /\ Itv(x, y).inf = x /\ Itv(x, y).sup = y
  BY <1>3, ItvIs
<1>5. PICK q : IsFrac(q) /\ In(q, i)
  BY <1>1, NonEmptyIs DEF Proper
<1>6. IsFrac(BoundNeg(q)) /\ AtMost(q, y) /\ AtMost(BoundNeg(q), x)
  BY <1>2, <1>5, FracIs DEF In
<1>7. In(q, Itv(x, y))
  BY <1>4, <1>6 DEF In
<1>8. ~IsEmptyItv(Itv(x, y))
  BY <1>4, <1>5, <1>7, NonEmptyIs
<1>9. IntegerItv(i) => IntegerItv(Itv(x, y))
  BY <1>2, <1>4 DEF IntegerItv, Integral
<1> QED BY <1>4, <1>8, <1>9 DEF Proper

(* Meeting with bounds of a keeps between, and gains those bounds.         *)
LEMMA StepToward ==
  ASSUME NEW a, GoodBox(a), ~a.null, NEW d \in Dims(a), NEW c, NEW s, ~s.empty, Between(s.p, a),
         NEW x \in {PlusOo, a.p[d].inf}, NEW y \in {PlusOo, a.p[d].sup},
         Deduced(c, d, c.lin.terms[d],
                 EvalLin(Lin(c.lin.cst, c.lin.eq, [c.lin.terms EXCEPT ![d] = ItvInt(0)]), s.p), a.int) = Itv(x, y)
  PROVE  LET r == NarrowStep(c, d, s, a.int)
         IN /\ ~r.empty /\ Between(r.p, a)
            /\ \A e \in Dims(a) \ {d} : r.p[e] = s.p[e]
            /\ r.p[d].inf = IF x = a.p[d].inf THEN a.p[d].inf ELSE s.p[d].inf
            /\ r.p[d].sup = IF y = a.p[d].sup THEN a.p[d].sup ELSE s.p[d].sup
<1> DEFINE i == a.p[d]
           itv == ItvMeet(s.p[d], Itv(x, y))
           narrowed == Canonicalize(itv, d < a.int)
           r == NarrowStep(c, d, s, a.int)
<1>1. Proper(i) /\ (d < a.int => IntegerItv(i)) /\ IsBound(i.inf) /\ IsBound(i.sup) /\ a.int \in Nat /\ d \in Nat
  <2>1. Proper(i) /\ (d < a.int => IntegerItv(i)) /\ a.int \in Nat /\ d \in Nat
    BY GoodDim, GoodIs
  <2> QED BY <2>1 DEF Proper, IsItv
<1>2. /\ s.p[d] = Itv(s.p[d].inf, s.p[d].sup)
      /\ s.p[d].inf \in {PlusOo, i.inf} /\ s.p[d].sup \in {PlusOo, i.sup}
      /\ s.p = [e \in Dims(a) |-> s.p[e]]
  BY DEF Between
<1>3. Itv(x, y).inf = x /\ Itv(x, y).sup = y
  BY DEF Itv
<1> DEFINE u == IF s.p[d].inf = i.inf \/ x = i.inf THEN i.inf ELSE PlusOo
           v == IF s.p[d].sup = i.sup \/ y = i.sup THEN i.sup ELSE PlusOo
<1>4. itv = Itv(u, v) /\ u \in {PlusOo, i.inf} /\ v \in {PlusOo, i.sup}
  <2>1. BoundMin(s.p[d].inf, x) = u /\ BoundMin(s.p[d].sup, y) = v
    BY <1>1, <1>2, MinToward
  <2>2. itv = Itv(BoundMin(s.p[d].inf, x), BoundMin(s.p[d].sup, y))
    BY <1>3 DEF ItvMeet
  <2> QED BY <2>1, <2>2
<1>5. Proper(itv) /\ (d < a.int => IntegerItv(itv)) /\ itv.inf = u /\ itv.sup = v
  <2> HIDE DEF itv, u, v, i
  <2> QED BY <1>1, <1>4, TowardIsProper
<1>6. narrowed = itv
  <2>1. CASE d < a.int
    <3>1. IsBound(itv.inf) /\ IsBound(itv.sup) /\ Integral(itv.inf) /\ Integral(itv.sup)
      BY <1>5, <2>1 DEF Proper, IsItv, IntegerItv
    <3>2. BoundFloor(itv.inf) = itv.inf /\ BoundFloor(itv.sup) = itv.sup
      <4> HIDE DEF itv
      <4>1. "EQ" # "SUP"
        OBVIOUS
      <4> QED BY <3>1, <4>1, FloorOfWhole
    <3>3. narrowed = Itv(BoundFloor(itv.inf), BoundFloor(itv.sup))
      BY <2>1 DEF Canonicalize
    <3>4. itv = Itv(itv.inf, itv.sup)
      BY <1>4, <1>5
    <3> QED BY <3>2, <3>3, <3>4
  <2>2. CASE ~(d < a.int)
    BY <2>2 DEF Canonicalize
  <2> QED BY <2>1, <2>2
<1>7. r = IF s.empty \/ itv = s.p[d] THEN s
          ELSE [p |-> [s.p EXCEPT ![d] = narrowed], change |-> TRUE, empty |-> IsEmptyItv(narrowed)]
  BY DEF NarrowStep
<1> HIDE DEF r, itv, narrowed
<1>8. CASE itv = s.p[d]
  <2>1. r = s
    BY <1>7, <1>8
  <2>2. s.p[d].inf = u /\ s.p[d].sup = v
    BY <1>5, <1>8
  <2>3. s.p[d].inf = IF x = i.inf THEN i.inf ELSE s.p[d].inf
    BY <1>2, <2>2
  <2>4. s.p[d].sup = IF y = i.sup THEN i.sup ELSE s.p[d].sup
    BY <1>2, <2>2
  <2> QED BY <2>1, <2>3, <2>4 DEF r
<1>9. CASE itv # s.p[d]
  <2> DEFINE p == [s.p EXCEPT ![d] = itv]
  <2>1. r = [p |-> p, change |-> TRUE, empty |-> IsEmptyItv(itv)]
    BY <1>6, <1>7, <1>9
  <2>2. p = [e \in Dims(a) |-> p[e]] /\ p[d] = itv /\ \A e \in Dims(a) \ {d} : p[e] = s.p[e]
    BY <1>2
  <2>3. r.p = p /\ (r.empty <=> IsEmptyItv(itv))
    BY <2>1
  <2> HIDE DEF p
  <2>4. Between(p, a)
    <3> SUFFICES ASSUME NEW e \in Dims(a)
                 PROVE  /\ p[e] = Itv(p[e].inf, p[e].sup)
                        /\ p[e].inf \in {PlusOo, a.p[e].inf}
                        /\ p[e].sup \in {PlusOo, a.p[e].sup}
      BY <2>2 DEF Between
    <3>1. CASE e = d
      BY <1>4, <1>5, <2>2, <3>1
    <3>2. CASE e # d
      BY <2>2, <3>2 DEF Between
    <3> QED BY <3>1, <3>2
  <2>5. itv.inf = IF x = i.inf THEN i.inf ELSE s.p[d].inf
    BY <1>2, <1>4, <1>5
  <2>6. itv.sup = IF y = i.sup THEN i.sup ELSE s.p[d].sup
    BY <1>2, <1>4, <1>5
  <2>7. ~IsEmptyItv(itv)
    BY <1>5 DEF Proper
  <2> QED BY <2>2, <2>3, <2>4, <2>5, <2>6, <2>7 DEF r
<1> QED BY <1>8, <1>9

-----------------------------------------------------------------------------
LEMMA OneAscending ==
  ASSUME NEW d \in Nat
  PROVE  Len(Ascending({d})) = 1 /\ Ascending({d})[1] = d
<1> DEFINE T == {d}
<1>1. T \in SUBSET Int /\ IsFiniteSet(T) /\ Cardinality(T) = 1
  <2>1. IsFiniteSet({d}) /\ Cardinality({d}) = 1
    BY FS_Singleton
  <2>2. {d} \in SUBSET Int
    OBVIOUS
  <2> QED BY <2>1, <2>2
<1>2. \A x \in T : x = d
  OBVIOUS
<1> HIDE DEF T
<1>3. Len(Ascending(T)) = 1
  BY <1>1, AscendingIs
<1>4. \A j \in 1 .. Len(Ascending(T)) : Ascending(T)[j] \in T
  BY <1>1, AscendingIs
<1>5. 1 \in 1 .. Len(Ascending(T))
  BY <1>3
<1> QED BY <1>2, <1>3, <1>4, <1>5 DEF T

LEMMA TimesZero ==
  ASSUME NEW i
  PROVE  EvalTerm(i, ItvInt(0)) = Itv(Zero, Zero)
<1>1. ItvIsPoint(ItvInt(0)) /\ ItvInt(0).sup = IntBound(0)
  BY ItvIntIs
<1>2. IntBound(0) = Zero /\ BoundSgn(Zero) = 0
  BY DEF Zero, IntBound, BoundSgn, SgnOf
<1>3. BoundMul(i.inf, Zero) = Zero /\ BoundMul(i.sup, Zero) = Zero
  BY <1>2 DEF BoundMul
<1> QED BY <1>1, <1>2, <1>3 DEF EvalTerm, ItvMulBound

(* What is left of a constraint when its only variable is taken out.       *)
LEMMA EvalUnit ==
  ASSUME NEW d \in Nat, NEW b, IsFrac(b), NEW env, Proper(env[d]), NEW k, NEW e \in BOOLEAN
  PROVE  EvalLin(Lin(Itv(BoundNeg(b), b), e, [UnitTerms(d, k) EXCEPT ![d] = ItvInt(0)]), env)
           = Itv(BoundNeg(b), b)
<1> DEFINE m == Itv(BoundNeg(b), b)
           ts == UnitTerms(d, 0)
           l == Lin(m, e, ts)
           D == {d}
           dims == Ascending(D)
<1>1. [UnitTerms(d, k) EXCEPT ![d] = ItvInt(0)] = ts
  BY DEF UnitTerms
<1>2. Proper(m)
  <2>1. 1 \in {1, -1} /\ "EQ" \in {"EQ", "SUPEQ"} /\ d \in D
    OBVIOUS
  <2> QED BY <2>1, UnitIsReady
<1>3. DOMAIN ts = D /\ ts[d] = ItvInt(0)
  BY UnitTermsAre
<1>4. l.cst = m /\ l.eq = e /\ l.terms = ts /\ l.eq \in BOOLEAN
  <2> HIDE DEF m, ts
  <2> QED BY LinIs
<1>5. D \subseteq Nat /\ IsFiniteSet(D)
  BY FS_Singleton
<1>6. ProperLin(l, D) /\ ProperEnv(env, D)
  <2>1. Proper(ItvInt(0))
    BY ItvIntIs
  <2>2. \A x \in D : x = d
    OBVIOUS
  <2>3. ProperEnv(env, D)
    BY <2>2 DEF ProperEnv, Proper
  <2> HIDE DEF l, D, ts, m
  <2>4. ProperLin(l, D)
    BY <1>2, <1>3, <1>4, <2>1, <2>2 DEF ProperLin
  <2> QED BY <2>3, <2>4
<1>7. Len(dims) = 1 /\ dims[1] = d
  BY OneAscending
<1> HIDE DEF l, D, ts, m
<1>8. PICK sum \in [0 .. Len(dims) -> Itvs] :
              /\ sum[0] = l.cst
              /\ \A j \in 1 .. Len(dims) :
                   sum[j] = ItvAdd(sum[j - 1], EvalTerm(env[dims[j]], l.terms[dims[j]]))
              /\ EvalLin(l, env) = sum[Len(dims)]
  <2>1. LET q == Ascending(DOMAIN l.terms)
         IN \E sum \in [0 .. Len(q) -> Itvs] :
              /\ sum[0] = l.cst
              /\ \A j \in 1 .. Len(q) :
                   sum[j] = ItvAdd(sum[j - 1], EvalTerm(env[q[j]], l.terms[q[j]]))
              /\ EvalLin(l, env) = sum[Len(q)]
    BY <1>5, <1>6, EvalLinIs
  <2> QED BY <1>3, <1>4, <2>1
<1>9. EvalLin(l, env) = ItvAdd(m, Itv(Zero, Zero))
  <2>1. 1 \in 1 .. Len(dims) /\ 1 - 1 = 0
    BY <1>7
  <2>2. sum[1] = ItvAdd(sum[1 - 1], EvalTerm(env[dims[1]], l.terms[dims[1]]))
    BY <1>8, <2>1
  <2> HIDE DEF dims
  <2> QED BY <1>3, <1>4, <1>7, <1>8, <2>1, <2>2, TimesZero
<1>10. ItvAdd(m, Itv(Zero, Zero)) = m
  <2>1. IsFrac(BoundNeg(b))
    BY FracIs
  <2>2. BoundAdd(b, Zero) = b /\ BoundAdd(BoundNeg(b), Zero) = BoundNeg(b)
    BY <2>1, UnitOps
  <2> QED BY <2>2 DEF ItvAdd, m, Itv
<1> QED BY <1>1, <1>9, <1>10 DEF l, m

(* Such a constraint says what its bound is, and nothing more.             *)
LEMMA UnitDeduced ==
  ASSUME NEW c, c.typ \in {"EQ", "SUPEQ"}, NEW d \in Nat, NEW int \in Nat, NEW b, IsFrac(b), d < int => Integral(b)
  PROVE  /\ Deduced(c, d, ItvInt(1), Itv(BoundNeg(b), b), int)
              = Itv(b, IF c.typ = "EQ" THEN BoundNeg(b) ELSE PlusOo)
         /\ c.typ = "SUPEQ" => Deduced(c, d, ItvInt(-1), Itv(BoundNeg(b), b), int) = Itv(PlusOo, b)
<1> DEFINE m == Itv(BoundNeg(b), b)
           Rounded(x) == IF d >= int \/ IsInfty(x) THEN x ELSE Tightened(c.typ, x)
           other == BoundNeg(b)
<1>1. IsFrac(other) /\ IsBound(b) /\ IsBound(other) /\ ~IsInfty(b) /\ ~IsInfty(other)
  BY FracIs
<1>2. Integral(b) => Integral(other)
  BY <1>1 DEF Integral, BoundNeg, IsInfty
<1>3. Rounded(b) = b /\ Rounded(other) = other
  <2>1. CASE d >= int
    BY <2>1
  <2>2. CASE ~(d >= int)
    <3>1. d < int /\ c.typ # "SUP"
      BY <2>2
    <3>2. Tightened(c.typ, b) = b /\ Tightened(c.typ, other) = other
      <4> HIDE DEF other
      <4> QED BY <1>1, <1>2, <3>1, FloorOfWhole
    <3> QED BY <3>2
  <2> QED BY <2>1, <2>2
<1>4. m.inf = other /\ m.sup = b /\ ~ItvIsTop(m)
  BY <1>1 DEF Itv, ItvIsTop
<1>5. /\ ItvIsPoint(ItvInt(1)) /\ ItvInt(1).sup = One /\ BoundSgn(One) = 1
      /\ ItvIsPoint(ItvInt(-1)) /\ ItvInt(-1).sup = IntBound(-1) /\ BoundSgn(IntBound(-1)) = -1 /\ ItvInt(-1).inf = One
  <2>1. \A n \in Int : ItvIsPoint(ItvInt(n)) /\ ItvInt(n).sup = IntBound(n) /\ ItvInt(n).inf = IntBound(-n)
    BY ItvIntIs
  <2>2. \A n \in Int : n + 1 = 0 => ItvInt(n).inf = IntBound(1)
    <3>1. \A n \in Int : n + 1 = 0 => -n = 1
      OBVIOUS
    <3> QED BY <2>1, <3>1
  <2>3. ItvInt(-1).inf = IntBound(1)
    <3>1. -1 \in Int /\ -1 + 1 = 0
      OBVIOUS
    <3> QED BY <2>2, <3>1
  <2> QED BY <2>1, <2>3 DEF One, IntBound, BoundSgn, SgnOf
<1>6. BoundDiv(b, One) = b /\ BoundDiv(other, One) = other
  <2> HIDE DEF other
  <2> QED BY <1>1, UnitOps
<1> HIDE DEF m, other
<1>7. Deduced(c, d, ItvInt(1), m, int) = Itv(b, IF c.typ = "EQ" THEN other ELSE PlusOo)
  <2> DEFINE one == ItvInt(1)
  <2>0. one.sup = One /\ ItvIsPoint(one)
    BY <1>5
  <2> HIDE DEF one
  <2>1. Deduced(c, d, one, m, int) = Itv(Rounded(b), IF c.typ = "EQ" THEN Rounded(other) ELSE PlusOo)
    BY <1>4, <1>5, <1>6, <2>0 DEF Deduced
  <2> QED BY <1>3, <2>1 DEF one
<1>8. c.typ = "SUPEQ" => Deduced(c, d, ItvInt(-1), m, int) = Itv(PlusOo, b)
  <2> DEFINE one == ItvInt(-1)
  <2>0. one.sup = IntBound(-1) /\ one.inf = One /\ ItvIsPoint(one)
    BY <1>5
  <2> HIDE DEF one
  <2>1. c.typ = "SUPEQ" => Deduced(c, d, one, m, int) = Itv(PlusOo, Rounded(b))
    BY <1>4, <1>5, <1>6, <2>0 DEF Deduced
  <2> QED BY <1>3, <2>1 DEF one
<1> QED BY <1>7, <1>8 DEF m, other

-----------------------------------------------------------------------------
(* The constraints of the bounds of a box, as box_to_lincons_array writes  *)
(* them, and the dimensions whose bounds are already those of the box.     *)
Lower(a, d) == Unit(LowerType(a.p[d]), d, 1, a.p[d].inf)
Upper(a, d) == Unit("SUPEQ", d, -1, a.p[d].sup)
HasLower(a, d) == ~IsInfty(a.p[d].inf)
HasUpper(a, d) == ~IsInfty(a.p[d].sup) /\ ~ItvIsPoint(a.p[d])
IsBoundOf(c, a) ==
  \E d \in Dims(a) : (HasLower(a, d) /\ c = Lower(a, d)) \/ (HasUpper(a, d) /\ c = Upper(a, d))

SameInf(p, a) == {d \in Dims(a) : p[d].inf = a.p[d].inf}
SameSup(p, a) == {d \in Dims(a) : p[d].sup = a.p[d].sup}

LEMMA PassStepOf ==
  ASSUME NEW c, c.typ # "DISEQ", NEW s, ~s.empty, NEW int, NEW r, BoxizeOne(c, s.p, int) = r,
         NEW D, r \in Narrowings(D, int)
  PROVE  PassStep(c, s, int).p = r.p /\ (PassStep(c, s, int).empty <=> r.empty)
<1>1. PassStep(c, s, int) = [r EXCEPT !.change = @ \/ s.change]
  BY DEF PassStep
<1>2. DOMAIN r = {"p", "change", "empty"} /\ r = [p |-> r.p, change |-> r.change, empty |-> r.empty]
  BY DEF Narrowings
<1> QED BY <1>1, <1>2

LEMMA OneNarrowing ==
  ASSUME NEW a, GoodBox(a), NEW d \in Dims(a), NEW c, ProperCons(c, Dims(a)), DOMAIN c.lin.terms = {d},
         NEW env, [p |-> env, change |-> FALSE, empty |-> FALSE] \in Narrowings(Dims(a), a.int)
  PROVE  /\ BoxizeOne(c, env, a.int) \in Narrowings(Dims(a), a.int)
         /\ BoxizeOne(c, env, a.int) = NarrowStep(c, d, [p |-> env, change |-> FALSE, empty |-> FALSE], a.int)
<1> DEFINE D == Dims(a)
           T == DOMAIN c.lin.terms
           dims == Ascending(T)
           s == [p |-> env, change |-> FALSE, empty |-> FALSE]
<1>1. D \subseteq Nat /\ IsFiniteSet(D) /\ a.int \in Nat /\ d \in Nat
  BY GoodIs
<1>2. Len(dims) = 1 /\ dims[1] = d
  BY <1>1, OneAscending
<1>3. ~IsFalseCst(c)
  BY DEF IsFalseCst, IsCst
<1> HIDE DEF D, s
<1>9. s = [p |-> env, change |-> FALSE, empty |-> FALSE] /\ s \in Narrowings(D, a.int) /\ ProperCons(c, D)
  BY DEF D, s
<1>4. BoxizeOne(c, env, a.int) \in Narrowings(D, a.int)
  BY <1>1, <1>9, BoxizeOneIs
<1> HIDE DEF dims, T
<1>5. \E step \in [0 .. Len(dims) -> Narrowings(D, a.int)] :
                   /\ step[0] = s
                   /\ \A k \in 1 .. Len(dims) : step[k] = NarrowStep(c, dims[k], step[k - 1], a.int)
                   /\ BoxizeOne(c, env, a.int) = step[Len(dims)]
  <2>1. \E step : NarrowSteps(step, c, env, D, a.int)
    BY <1>1, <1>3, <1>9, BoxizeOneIs
  <2> QED BY <1>9, <2>1 DEF NarrowSteps, dims, T
<1>6. PICK step \in [0 .. Len(dims) -> Narrowings(D, a.int)] :
                   /\ step[0] = s
                   /\ \A k \in 1 .. Len(dims) : step[k] = NarrowStep(c, dims[k], step[k - 1], a.int)
                   /\ BoxizeOne(c, env, a.int) = step[Len(dims)]
  BY <1>5
<1> HIDE DEF dims
<1>7. 1 \in 1 .. Len(dims) /\ 1 - 1 = 0
  BY <1>2
<1>8. step[1] = NarrowStep(c, dims[1], step[1 - 1], a.int)
  BY <1>6, <1>7
<1> QED BY <1>2, <1>4, <1>6, <1>7, <1>8 DEF D, s

(* One constraint of one bound.                                            *)
LEMMA UnitStep ==
  ASSUME NEW a, GoodBox(a), ~a.null, NEW d \in Dims(a), NEW typ \in {"EQ", "SUPEQ"}, NEW k \in {1, -1},
         NEW b, IsFrac(b), d < a.int => Integral(b),
         NEW s \in Narrowings(Dims(a), a.int), ~s.empty, Between(s.p, a),
         NEW x \in {PlusOo, a.p[d].inf}, NEW y \in {PlusOo, a.p[d].sup},
         Deduced(Unit(typ, d, k, b), d, ItvInt(k), Itv(BoundNeg(b), b), a.int) = Itv(x, y)
  PROVE  LET r == PassStep(Unit(typ, d, k, b), s, a.int)
         IN /\ ~r.empty /\ Between(r.p, a)
            /\ SameInf(s.p, a) \subseteq SameInf(r.p, a) /\ SameSup(s.p, a) \subseteq SameSup(r.p, a)
            /\ x = a.p[d].inf => d \in SameInf(r.p, a)
            /\ y = a.p[d].sup => d \in SameSup(r.p, a)
<1> DEFINE c == Unit(typ, d, k, b)
           s0 == [p |-> s.p, change |-> FALSE, empty |-> FALSE]
           r == NarrowStep(c, d, s0, a.int)
           q == PassStep(c, s, a.int)
<1>1. c.typ = typ /\ c.lin.cst = Itv(BoundNeg(b), b) /\ c.lin.terms = UnitTerms(d, k)
  BY UnitIs
<1>2. c.lin.eq \in BOOLEAN
  BY UnitEq
<1>3. DOMAIN UnitTerms(d, k) = {d} /\ UnitTerms(d, k)[d] = ItvInt(k)
  BY UnitTermsAre
<1>4. ProperCons(c, Dims(a))
  BY UnitIsReady DEF ReadyCons
<1> HIDE DEF c, s0
<1>5. s0.p = s.p /\ ~s0.empty /\ s0 \in Narrowings(Dims(a), a.int)
  BY NarrowingGoesOn DEF s0
<1>6. BoxizeOne(c, s.p, a.int) = r /\ r \in Narrowings(Dims(a), a.int)
  BY <1>1, <1>3, <1>4, <1>5, OneNarrowing DEF s0
<1>7. d \in Nat /\ Proper(s.p[d])
  <2>1. d \in Nat /\ Proper(a.p[d])
    BY GoodDim, GoodIs
  <2>2. s.p[d] = Itv(s.p[d].inf, s.p[d].sup) /\ s.p[d].inf \in {PlusOo, a.p[d].inf} /\ s.p[d].sup \in {PlusOo, a.p[d].sup}
    BY DEF Between
  <2> QED BY <2>1, <2>2, TowardIsProper
<1>8. EvalLin(Lin(c.lin.cst, c.lin.eq, [c.lin.terms EXCEPT ![d] = ItvInt(0)]), s0.p) = Itv(BoundNeg(b), b)
  BY <1>1, <1>2, <1>5, <1>7, EvalUnit
<1>9. Deduced(c, d, c.lin.terms[d],
              EvalLin(Lin(c.lin.cst, c.lin.eq, [c.lin.terms EXCEPT ![d] = ItvInt(0)]), s0.p), a.int) = Itv(x, y)
  BY <1>1, <1>3, <1>8 DEF c
<1>10. /\ ~r.empty /\ Between(r.p, a)
       /\ \A e \in Dims(a) \ {d} : r.p[e] = s.p[e]
       /\ r.p[d].inf = IF x = a.p[d].inf THEN a.p[d].inf ELSE s.p[d].inf
       /\ r.p[d].sup = IF y = a.p[d].sup THEN a.p[d].sup ELSE s.p[d].sup
  <2>1. Between(s0.p, a)
    BY <1>5
  <2> QED BY <1>5, <1>9, <2>1, StepToward
<1> HIDE DEF r
<1>11. q.p = r.p /\ (q.empty <=> r.empty)
  <2>1. c.typ # "DISEQ"
    BY <1>1
  <2> QED BY <1>6, <2>1, PassStepOf
<1> HIDE DEF q
<1>12. SameInf(s.p, a) \subseteq SameInf(q.p, a)
  BY <1>10, <1>11 DEF SameInf
<1>13. SameSup(s.p, a) \subseteq SameSup(q.p, a)
  BY <1>10, <1>11 DEF SameSup
<1>14. (x = a.p[d].inf => d \in SameInf(q.p, a)) /\ (y = a.p[d].sup => d \in SameSup(q.p, a))
  BY <1>10, <1>11 DEF SameInf, SameSup
<1>15. ~q.empty /\ Between(q.p, a)
  BY <1>10, <1>11
<1> QED BY <1>12, <1>13, <1>14, <1>15 DEF q, c

LEMMA BoundStep ==
  ASSUME NEW a, GoodBox(a), ~a.null, NEW s \in Narrowings(Dims(a), a.int), ~s.empty, Between(s.p, a),
         NEW c, IsBoundOf(c, a)
  PROVE  LET r == PassStep(c, s, a.int)
         IN /\ ~r.empty /\ Between(r.p, a)
            /\ SameInf(s.p, a) \subseteq SameInf(r.p, a) /\ SameSup(s.p, a) \subseteq SameSup(r.p, a)
            /\ \A d \in Dims(a) : /\ HasLower(a, d) /\ c = Lower(a, d) =>
                                       d \in SameInf(r.p, a) /\ (ItvIsPoint(a.p[d]) => d \in SameSup(r.p, a))
                                  /\ HasUpper(a, d) /\ c = Upper(a, d) => d \in SameSup(r.p, a)
<1> DEFINE r == PassStep(c, s, a.int)
<1>1. ASSUME NEW d \in Dims(a), HasLower(a, d), c = Lower(a, d)
      PROVE  /\ ~r.empty /\ Between(r.p, a)
             /\ SameInf(s.p, a) \subseteq SameInf(r.p, a) /\ SameSup(s.p, a) \subseteq SameSup(r.p, a)
             /\ d \in SameInf(r.p, a) /\ (ItvIsPoint(a.p[d]) => d \in SameSup(r.p, a))
  <2> DEFINE b == a.p[d].inf
             typ == LowerType(a.p[d])
             x == b
             y == IF typ = "EQ" THEN BoundNeg(b) ELSE PlusOo
  <2>1. Proper(a.p[d]) /\ (d < a.int => IntegerItv(a.p[d])) /\ a.int \in Nat /\ d \in Nat
    BY GoodDim, GoodIs
  <2>2. IsFrac(b) /\ (d < a.int => Integral(b))
    BY <1>1, <2>1, BoundKinds DEF Proper, IsItv, HasLower, IntegerItv
  <2>3. typ \in {"EQ", "SUPEQ"} /\ (typ = "EQ" <=> ItvIsPoint(a.p[d]))
    BY DEF LowerType
  <2>4. ItvIsPoint(a.p[d]) => BoundNeg(b) = a.p[d].sup
    BY DEF ItvIsPoint
  <2>5. x \in {PlusOo, a.p[d].inf} /\ y \in {PlusOo, a.p[d].sup}
    BY <2>3, <2>4
  <2> HIDE DEF b, typ
  <2>6. Unit(typ, d, 1, b).typ = typ
    BY UnitIs
  <2>7. Deduced(Unit(typ, d, 1, b), d, ItvInt(1), Itv(BoundNeg(b), b), a.int) = Itv(x, y)
    BY <2>1, <2>2, <2>3, <2>6, UnitDeduced
  <2> HIDE DEF x, y
  <2>8. /\ ~r.empty /\ Between(r.p, a)
        /\ SameInf(s.p, a) \subseteq SameInf(r.p, a) /\ SameSup(s.p, a) \subseteq SameSup(r.p, a)
        /\ x = a.p[d].inf => d \in SameInf(r.p, a)
        /\ y = a.p[d].sup => d \in SameSup(r.p, a)
    <3>1. c = Unit(typ, d, 1, b)
      BY <1>1 DEF Lower, typ, b
    <3> HIDE DEF r
    <3>2. 1 \in {1, -1}
      OBVIOUS
    <3> QED BY <2>2, <2>3, <2>5, <2>7, <3>1, <3>2, UnitStep DEF r
  <2>9. x = a.p[d].inf /\ (ItvIsPoint(a.p[d]) => y = a.p[d].sup)
    BY <2>3, <2>4 DEF x, y, b
  <2> QED BY <2>8, <2>9
<1>2. ASSUME NEW d \in Dims(a), HasUpper(a, d), c = Upper(a, d)
      PROVE  /\ ~r.empty /\ Between(r.p, a)
             /\ SameInf(s.p, a) \subseteq SameInf(r.p, a) /\ SameSup(s.p, a) \subseteq SameSup(r.p, a)
             /\ d \in SameSup(r.p, a)
  <2> DEFINE b == a.p[d].sup
             x == PlusOo
             typ == "SUPEQ"
  <2>1. Proper(a.p[d]) /\ (d < a.int => IntegerItv(a.p[d])) /\ a.int \in Nat /\ d \in Nat
    BY GoodDim, GoodIs
  <2>2. IsFrac(b) /\ (d < a.int => Integral(b))
    BY <1>2, <2>1, BoundKinds DEF Proper, IsItv, HasUpper, IntegerItv
  <2>3. typ \in {"EQ", "SUPEQ"} /\ x \in {PlusOo, a.p[d].inf} /\ b \in {PlusOo, a.p[d].sup}
    OBVIOUS
  <2>4. Unit(typ, d, -1, b).typ = typ
    BY UnitIs
  <2> HIDE DEF b, x
  <2>5. Deduced(Unit(typ, d, -1, b), d, ItvInt(-1), Itv(BoundNeg(b), b), a.int) = Itv(x, b)
    BY <2>1, <2>2, <2>4, UnitDeduced DEF x
  <2>6. c = Unit(typ, d, -1, b)
    BY <1>2 DEF Upper, b
  <2> HIDE DEF typ, r
  <2>7. /\ ~r.empty /\ Between(r.p, a)
        /\ SameInf(s.p, a) \subseteq SameInf(r.p, a) /\ SameSup(s.p, a) \subseteq SameSup(r.p, a)
        /\ b = a.p[d].sup => d \in SameSup(r.p, a)
    <3>1. -1 \in {1, -1}
      OBVIOUS
    <3> QED BY <2>2, <2>3, <2>5, <2>6, <3>1, UnitStep DEF r
  <2> QED BY <2>7 DEF b
<1> HIDE DEF r
<1>3. ~r.empty /\ Between(r.p, a) /\ SameInf(s.p, a) \subseteq SameInf(r.p, a) /\ SameSup(s.p, a) \subseteq SameSup(r.p, a)
  BY <1>1, <1>2 DEF IsBoundOf
<1> QED BY <1>1, <1>2, <1>3 DEF r

-----------------------------------------------------------------------------
LEMMA BoundIsProper ==
  ASSUME NEW a, GoodBox(a), ~a.null, NEW c, IsBoundOf(c, a)
  PROVE  /\ ReadyCons(c, Dims(a)) /\ ReduceInteger(c, a.int) = c
         /\ ~IsFalseCst(c) /\ ~IsUselessForMeet(c)
<1>1. PICK d \in Dims(a) : (HasLower(a, d) /\ c = Lower(a, d)) \/ (HasUpper(a, d) /\ c = Upper(a, d))
  BY DEF IsBoundOf
<1>2. Proper(a.p[d]) /\ (d < a.int => IntegerItv(a.p[d])) /\ a.int \in Nat /\ d \in Nat
  BY GoodDim, GoodIs
<1>3. PICK typ, k, b : /\ typ \in {"EQ", "SUPEQ"} /\ k \in {1, -1} /\ c = Unit(typ, d, k, b)
                        /\ IsFrac(b) /\ (d < a.int => Integral(b))
  <2>1. CASE HasLower(a, d) /\ c = Lower(a, d)
    <3>1. IsFrac(a.p[d].inf) /\ (d < a.int => Integral(a.p[d].inf))
      BY <1>2, <2>1, BoundKinds DEF Proper, IsItv, HasLower, IntegerItv
    <3>2. LowerType(a.p[d]) \in {"EQ", "SUPEQ"} /\ 1 \in {1, -1}
      BY DEF LowerType
    <3> QED BY <2>1, <3>1, <3>2 DEF Lower
  <2>2. CASE HasUpper(a, d) /\ c = Upper(a, d)
    <3>1. IsFrac(a.p[d].sup) /\ (d < a.int => Integral(a.p[d].sup))
      BY <1>2, <2>2, BoundKinds DEF Proper, IsItv, HasUpper, IntegerItv
    <3>2. "SUPEQ" \in {"EQ", "SUPEQ"} /\ -1 \in {1, -1}
      OBVIOUS
    <3> QED BY <2>2, <3>1, <3>2 DEF Upper
  <2> QED BY <1>1, <2>1, <2>2
<1>4. ReadyCons(c, Dims(a))
  BY <1>3, UnitIsReady
<1>5. ReduceInteger(c, a.int) = c
  BY <1>2, <1>3, UnitReduces
<1>6. ~IsFalseCst(c) /\ ~IsUselessForMeet(c)
  BY <1>3, UnitIsUseful
<1> QED BY <1>4, <1>5, <1>6

(* A pass over constraints of bounds gains those bounds.                   *)
Tells(c, p, a) ==
  \A d \in Dims(a) : /\ HasLower(a, d) /\ c = Lower(a, d) =>
                          d \in SameInf(p, a) /\ (ItvIsPoint(a.p[d]) => d \in SameSup(p, a))
                     /\ HasUpper(a, d) /\ c = Upper(a, d) => d \in SameSup(p, a)

LEMMA TellsOn ==
  ASSUME NEW c, NEW a, NEW p, NEW q, Tells(c, p, a), SameInf(p, a) \subseteq SameInf(q, a), SameSup(p, a) \subseteq SameSup(q, a)
  PROVE  Tells(c, q, a)
BY DEF Tells

LEMMA BoundPass ==
  ASSUME NEW a, GoodBox(a), ~a.null, NEW cons, IsSequence(cons), \A i \in DOMAIN cons : IsBoundOf(cons[i], a),
         NEW env, [p |-> env, change |-> FALSE, empty |-> FALSE] \in Narrowings(Dims(a), a.int), Between(env, a)
  PROVE  LET r == BoxizePass(cons, env, a.int)
         IN /\ r \in Narrowings(Dims(a), a.int) /\ ~r.empty /\ Between(r.p, a)
            /\ \A i \in DOMAIN cons : Tells(cons[i], r.p, a)
            /\ \A c : Tells(c, env, a) => Tells(c, r.p, a)
<1> DEFINE D == Dims(a)
           n == Len(cons)
           s0 == [p |-> env, change |-> FALSE, empty |-> FALSE]
           r == BoxizePass(cons, env, a.int)
<1>1. D \subseteq Nat /\ IsFiniteSet(D) /\ a.int \in Nat /\ n \in Nat /\ DOMAIN cons = 1 .. n
  BY GoodIs DEF IsSequence
<1>2. \A i \in DOMAIN cons : ProperCons(cons[i], D)
  BY BoundIsProper DEF ReadyCons
<1>3. s0 = [p |-> env, change |-> FALSE, empty |-> FALSE] /\ s0 \in Narrowings(D, a.int) /\ s0.p = env /\ ~s0.empty
  OBVIOUS
<1> HIDE DEF D, s0, r
<1>4. r \in Narrowings(D, a.int) /\ \E step : PassSteps(step, cons, env, D, a.int)
  BY <1>1, <1>2, <1>3, BoxizePassIs DEF r
<1>5. PICK step : PassSteps(step, cons, env, D, a.int)
  BY <1>4
<1>6. /\ step \in [0 .. n -> Narrowings(D, a.int)]
      /\ step[0] = s0 /\ r = step[n]
      /\ \A k \in 1 .. n : step[k] = PassStep(cons[k], step[k - 1], a.int)
  BY <1>3, <1>5 DEF PassSteps, r
<1> DEFINE T == {k \in 0 .. n : /\ ~step[k].empty /\ Between(step[k].p, a)
                                /\ SameInf(env, a) \subseteq SameInf(step[k].p, a)
                                /\ SameSup(env, a) \subseteq SameSup(step[k].p, a)
                                /\ \A i \in 1 .. k : Tells(cons[i], step[k].p, a)}
<1>7. 0 .. n \subseteq T
  <2> HIDE DEF n
  <2>1. 0 \in T
    BY <1>1, <1>3, <1>6
  <2>2. ASSUME NEW i \in 0 .. n - 1, i \in T
        PROVE  i + 1 \in T
    <3>1. i + 1 \in 1 .. n /\ i + 1 \in 0 .. n /\ (i + 1) - 1 = i /\ i \in 0 .. n
      BY <1>1
    <3> DEFINE s == step[i]
               q == step[i + 1]
    <3>2. q = PassStep(cons[i + 1], s, a.int) /\ s \in Narrowings(D, a.int) /\ IsBoundOf(cons[i + 1], a)
      <4>1. step[i + 1] = PassStep(cons[i + 1], step[(i + 1) - 1], a.int)
        BY <1>6, <3>1
      <4> QED BY <1>1, <1>6, <3>1, <4>1
    <3>3. /\ ~s.empty /\ Between(s.p, a)
          /\ SameInf(env, a) \subseteq SameInf(s.p, a) /\ SameSup(env, a) \subseteq SameSup(s.p, a)
          /\ \A j \in 1 .. i : Tells(cons[j], s.p, a)
      BY <2>2
    <3> HIDE DEF T, s, q
    <3>4. /\ ~q.empty /\ Between(q.p, a)
          /\ SameInf(s.p, a) \subseteq SameInf(q.p, a) /\ SameSup(s.p, a) \subseteq SameSup(q.p, a)
          /\ Tells(cons[i + 1], q.p, a)
      BY <3>2, <3>3, BoundStep DEF D, Tells
    <3>5. ASSUME NEW j \in 1 .. (i + 1)
          PROVE  Tells(cons[j], q.p, a)
      <4>1. CASE j = i + 1
        BY <3>4, <4>1
      <4>2. CASE j # i + 1
        <5>1. j \in 1 .. i
          BY <3>1, <4>2
        <5> QED BY <3>3, <3>4, <5>1, TellsOn
      <4> QED BY <4>1, <4>2
    <3>6. SameInf(env, a) \subseteq SameInf(q.p, a) /\ SameSup(env, a) \subseteq SameSup(q.p, a)
      BY <3>3, <3>4
    <3> QED BY <3>1, <3>4, <3>5, <3>6 DEF T, q
  <2> HIDE DEF T
  <2> QED BY <1>1, <2>1, <2>2, UpTo
<1>8. n \in T
  BY <1>1, <1>7
<1>9. /\ ~r.empty /\ Between(r.p, a)
      /\ SameInf(env, a) \subseteq SameInf(r.p, a) /\ SameSup(env, a) \subseteq SameSup(r.p, a)
      /\ \A i \in 1 .. n : Tells(cons[i], r.p, a)
  BY <1>6, <1>8
<1>10. \A c : Tells(c, env, a) => Tells(c, r.p, a)
  BY <1>9, TellsOn
<1> QED BY <1>1, <1>4, <1>9, <1>10 DEF r, D

-----------------------------------------------------------------------------
LEMMA ToldAll ==
  ASSUME NEW a, GoodBox(a), ~a.null, NEW p, Between(p, a), NEW cons,
         \A i \in DOMAIN cons : Tells(cons[i], p, a),
         \A d \in Dims(a) : /\ HasLower(a, d) => \E i \in DOMAIN cons : cons[i] = Lower(a, d)
                            /\ HasUpper(a, d) => \E i \in DOMAIN cons : cons[i] = Upper(a, d)
  PROVE  \A d \in Dims(a) : p[d] = a.p[d]
<1> SUFFICES ASSUME NEW d \in Dims(a) PROVE p[d] = a.p[d]
  OBVIOUS
<1>1. /\ p[d] = Itv(p[d].inf, p[d].sup)
      /\ p[d].inf \in {PlusOo, a.p[d].inf} /\ p[d].sup \in {PlusOo, a.p[d].sup}
  BY DEF Between
<1>2. a.p[d] = Itv(a.p[d].inf, a.p[d].sup) /\ IsBound(a.p[d].inf) /\ IsBound(a.p[d].sup)
  BY GoodDim DEF Proper, IsItv
<1>3. HasLower(a, d) => d \in SameInf(p, a) /\ (ItvIsPoint(a.p[d]) => d \in SameSup(p, a))
  BY DEF Tells
<1>4. HasUpper(a, d) => d \in SameSup(p, a)
  BY DEF Tells
<1>5. p[d].inf = a.p[d].inf
  <2>1. CASE HasLower(a, d)
    BY <1>3, <2>1 DEF SameInf
  <2>2. CASE ~HasLower(a, d)
    BY <1>1, <1>2, <2>2, BoundKinds DEF HasLower
  <2> QED BY <2>1, <2>2
<1>6. p[d].sup = a.p[d].sup
  <2>1. CASE HasUpper(a, d)
    BY <1>4, <2>1 DEF SameSup
  <2>2. CASE ItvIsPoint(a.p[d])
    BY <1>3, <2>2 DEF SameSup, HasLower, ItvIsPoint
  <2>3. CASE IsInfty(a.p[d].sup)
    BY <1>1, <1>2, <2>3, BoundKinds
  <2> QED BY <2>1, <2>2, <2>3 DEF HasUpper
<1> QED BY <1>1, <1>2, <1>5, <1>6

LEMMA TopIs ==
  ASSUME NEW a, GoodBox(a)
  PROVE  LET t == BoxTop(a.int, a.real)
         IN /\ GoodBox(t) /\ ~t.null /\ t.int = a.int /\ t.real = a.real /\ Dims(t) = Dims(a)
            /\ t.p = [d \in Dims(a) |-> ItvTop]
<1> DEFINE t == BoxTop(a.int, a.real)
           p == [d \in 0 .. (a.int + a.real - 1) |-> ItvTop]
<1>1. a.int \in Nat /\ a.real \in Nat /\ Dims(a) = 0 .. (a.int + a.real - 1)
  BY GoodIs
<1>2. t = Box(a.int, a.real, p)
  BY DEF BoxTop
<1>3. t.int = a.int /\ t.real = a.real /\ t.p = p /\ ~t.null
  <2> HIDE DEF p, t
  <2> QED BY <1>2, BoxParts
<1>4. GoodBox(t)
  <2>1. p = [d \in 0 .. (a.int + a.real - 1) |-> p[d]]
        /\ \A d \in 0 .. (a.int + a.real - 1) : Proper(p[d]) /\ (d < a.int => IntegerItv(p[d]))
    BY ItvTopIsProper
  <2> HIDE DEF p, t
  <2> QED BY <1>1, <1>2, <2>1, GoodFull
<1>5. Dims(t) = Dims(a)
  BY <1>3 DEF Dims
<1> HIDE DEF t
<1> QED BY <1>1, <1>3, <1>4, <1>5 DEF t

LEMMA TopNarrows ==
  ASSUME NEW a, GoodBox(a), ~a.null, NEW b \in BOOLEAN
  PROVE  LET p == [d \in Dims(a) |-> ItvTop]
         IN Between(p, a) /\ [p |-> p, change |-> b, empty |-> FALSE] \in Narrowings(Dims(a), a.int)
<1> DEFINE p == [d \in Dims(a) |-> ItvTop]
<1>1. ItvTop = Itv(PlusOo, PlusOo) /\ ItvTop.inf = PlusOo /\ ItvTop.sup = PlusOo
  BY DEF ItvTop, Itv
<1>2. ItvTop \in AnyItv /\ ~IsEmptyItv(ItvTop) /\ IntegerItv(ItvTop)
  BY ItvTopIsProper, AnyItvIs DEF Proper
<1>3. \A d \in Dims(a) : p[d] = ItvTop
  OBVIOUS
<1>4. p \in [Dims(a) -> AnyItv] /\ p = [d \in Dims(a) |-> p[d]]
  BY <1>2
<1> HIDE DEF p
<1>5. Between(p, a)
  BY <1>1, <1>3, <1>4 DEF Between
<1>6. [p |-> p, change |-> b, empty |-> FALSE] \in Narrowings(Dims(a), a.int)
  <2> DEFINE D == Dims(a)
             int == a.int
  <2>1. /\ p \in [D -> AnyItv] /\ b \in BOOLEAN /\ FALSE \in BOOLEAN
        /\ ~FALSE => \A d \in D : ~IsEmptyItv(p[d])
        /\ \A d \in D : d < int => IntegerItv(p[d])
    BY <1>2, <1>3, <1>4
  <2> HIDE DEF D, int
  <2>2. \A e \in BOOLEAN : (~e => \A d \in D : ~IsEmptyItv(p[d])) => [p |-> p, change |-> b, empty |-> e] \in Narrowings(D, int)
    BY <2>1, NarrowingsAre
  <2>3. [p |-> p, change |-> b, empty |-> FALSE] \in Narrowings(D, int)
    BY <2>1, <2>2
  <2> QED BY <2>3 DEF D, int
<1> QED BY <1>5, <1>6 DEF p

(* From the whole space, constraints of all the bounds of a box give back  *)
(* its bounds.                                                             *)
LEMMA BoundsRebuild ==
  ASSUME NEW a, GoodBox(a), ~a.null, NEW cons, IsSequence(cons), \A i \in DOMAIN cons : IsBoundOf(cons[i], a),
         \A d \in Dims(a) : /\ HasLower(a, d) => \E i \in DOMAIN cons : cons[i] = Lower(a, d)
                            /\ HasUpper(a, d) => \E i \in DOMAIN cons : cons[i] = Upper(a, d)
  PROVE  LET r == Boxize(cons, [d \in Dims(a) |-> ItvTop], a.int)
         IN ~r.empty /\ \A d \in Dims(a) : r.p[d] = a.p[d]
<1> DEFINE top == [d \in Dims(a) |-> ItvTop]
           D == Dims(a)
           first == BoxizePass(cons, top, a.int)
           second == BoxizePass(cons, first.p, a.int)
           r == Boxize(cons, top, a.int)
<1>1. D \subseteq Nat /\ IsFiniteSet(D) /\ a.int \in Nat
  BY GoodIs
<1>2. \A i \in DOMAIN cons : ProperCons(cons[i], D)
  BY BoundIsProper DEF ReadyCons
<1>3. /\ Between(top, a)
      /\ [p |-> top, change |-> FALSE, empty |-> FALSE] \in Narrowings(D, a.int)
      /\ [p |-> top, change |-> TRUE, empty |-> FALSE] \in Narrowings(D, a.int)
  BY TopNarrows
<1> HIDE DEF top, first, second, r
<1>4. r = IF first.empty \/ ~first.change THEN first ELSE second
  <2> HIDE DEF D
  <2> QED BY <1>1, <1>2, <1>3, BoxizeIs DEF r, first, second
<1>5. /\ first \in Narrowings(D, a.int) /\ ~first.empty /\ Between(first.p, a)
      /\ \A i \in DOMAIN cons : Tells(cons[i], first.p, a)
  BY <1>3, BoundPass DEF first
<1>6. [p |-> first.p, change |-> FALSE, empty |-> FALSE] \in Narrowings(D, a.int)
  BY <1>5, NarrowingGoesOn
<1>7. ~second.empty /\ Between(second.p, a) /\ \A i \in DOMAIN cons : Tells(cons[i], second.p, a)
  BY <1>5, <1>6, BoundPass DEF second
<1>8. ~r.empty /\ Between(r.p, a) /\ \A i \in DOMAIN cons : Tells(cons[i], r.p, a)
  BY <1>4, <1>5, <1>7
<1>9. \A d \in Dims(a) : r.p[d] = a.p[d]
  BY <1>8, ToldAll
<1> QED BY <1>8, <1>9 DEF r, top

-----------------------------------------------------------------------------
(* Sequences put one after the other.                                      *)
LEMMA FlattenIs ==
  ASSUME NEW V, NEW seqs \in Seq(Seq(V)), Len(seqs) > 0
  PROVE  \E h \in [0 .. Len(seqs) -> Seq(V)] :
           /\ h[0] = << >> /\ FlattenSeq(seqs) = h[Len(seqs)]
           /\ \A k \in 1 .. Len(seqs) : h[k] = h[k - 1] \o seqs[k]
<1> DEFINE n == Len(seqs)
           R == Seq(V)
           F(g) == [i \in 1 .. n |-> IF i = 1 THEN seqs[i] ELSE g[i - 1] \o seqs[i]]
           flatten == CHOOSE g : g = F(g)
           st == [k \in 1 .. n |-> [x \in R |-> x \o seqs[k]]]
           h == [k \in 0 .. n |-> IF k = 0 THEN << >> ELSE flatten[k]]
           T == {k \in 0 .. n : h[k] \in R}
<1>1. n \in Nat /\ n > 0 /\ \A k \in 1 .. n : seqs[k] \in R /\ k \in 0 .. n /\ k # 0
  <2>1. n \in Nat /\ n > 0 /\ seqs \in Seq(R)
    BY LenProperties
  <2>2. \A k \in 1 .. n : seqs[k] \in R
    BY <2>1, ElementOfSeq
  <2> QED BY <2>1, <2>2
<1>2. << >> \in R /\ \A x \in R : << >> \o x = x
  BY EmptySeq, ConcatEmptySeq
<1>3. \A x \in R, k \in 1 .. n : x \o seqs[k] \in R
  BY <1>1, ConcatProperties
<1>4. FlattenSeq(seqs) = flatten[n]
  <2>1. ~(n = 0)
    BY <1>1
  <2> QED BY <2>1 DEF FlattenSeq
<1> HIDE DEF n, R
<1>5. \E g : g = F(g)
  <2> HIDE DEF F
  <2>1. st \in [1 .. n -> [R -> R]]
    BY <1>3
  <2>2. \A k \in 1 .. n : \A x \in R : st[k][x] = x \o seqs[k]
    OBVIOUS
  <2> DEFINE nil == << >>
  <2>0. nil \in R
    BY <1>2
  <2> HIDE DEF st, nil
  <2>3. PICK g : g \in [0 .. n -> R] /\ Steps(g, nil, st, n)
    BY ONLY <1>1, <2>0, <2>1, SomeSequence
  <2> DEFINE f == [i \in 1 .. n |-> g[i]]
  <2>4. \A k \in 1 .. n : g[k] = g[k - 1] \o seqs[k] /\ g[k - 1] \in R
    <3>1. \A k \in 1 .. n : k - 1 \in 0 .. n
      BY <1>1
    <3> QED BY <2>2, <2>3, <3>1 DEF Steps
  <2>5. \A k \in 1 .. n : f[k] = IF k = 1 THEN seqs[k] ELSE f[k - 1] \o seqs[k]
    <3> SUFFICES ASSUME NEW k \in 1 .. n PROVE f[k] = IF k = 1 THEN seqs[k] ELSE f[k - 1] \o seqs[k]
      OBVIOUS
    <3>1. CASE k = 1
      <4>1. g[0] = nil /\ 1 - 1 = 0
        BY <2>3 DEF Steps
      <4>2. g[1] = nil \o seqs[1]
        BY <2>4, <3>1, <4>1
      <4> QED BY <1>1, <1>2, <3>1, <4>2 DEF nil
    <3>2. CASE k # 1
      <4>1. k - 1 \in 1 .. n
        BY <1>1, <3>2
      <4> QED BY <2>4, <3>2, <4>1
    <3> QED BY <3>1, <3>2
  <2>6. f = F(f)
    <3> HIDE DEF f
    <3>1. F(f) = [k \in 1 .. n |-> IF k = 1 THEN seqs[k] ELSE f[k - 1] \o seqs[k]]
      BY DEF F
    <3>2. f = [k \in 1 .. n |-> f[k]]
      BY DEF f
    <3> QED BY <2>5, <3>1, <3>2
  <2> QED BY <2>6
<1>6. flatten = F(flatten)
  BY <1>5
<1> HIDE DEF flatten
<1>7. \A k \in 1 .. n : flatten[k] = IF k = 1 THEN seqs[k] ELSE flatten[k - 1] \o seqs[k]
  BY <1>6
<1> HIDE DEF F
<1>8. h[0] = << >> /\ \A k \in 1 .. n : h[k] = h[k - 1] \o seqs[k]
  <2>1. h[0] = << >> /\ \A k \in 1 .. n : h[k] = flatten[k]
    BY <1>1
  <2> HIDE DEF h
  <2> SUFFICES ASSUME NEW k \in 1 .. n PROVE h[k] = h[k - 1] \o seqs[k]
    BY <2>1
  <2>2. CASE k = 1
    <3>1. k - 1 = 0
      BY <2>2
    <3> QED BY <1>1, <1>2, <1>7, <2>1, <2>2, <3>1
  <2>3. CASE k # 1
    <3>1. k - 1 \in 1 .. n
      BY <1>1, <2>3
    <3> QED BY <1>7, <2>1, <2>3, <3>1
  <2> QED BY <2>2, <2>3
<1>9. h = [k \in 0 .. n |-> h[k]] /\ h[n] = flatten[n]
  BY <1>1
<1> HIDE DEF h
<1>10. 0 .. n \subseteq T
  <2>1. 0 \in T
    BY <1>1, <1>2, <1>8
  <2>2. \A i \in 0 .. n - 1 : i \in T => i + 1 \in T
    <3> SUFFICES ASSUME NEW i \in 0 .. n - 1, i \in T PROVE i + 1 \in T
      OBVIOUS
    <3>1. i + 1 \in 1 .. n /\ i + 1 \in 0 .. n /\ (i + 1) - 1 = i
      BY <1>1
    <3> QED BY <3>1, <1>3, <1>8
  <2> HIDE DEF T
  <2> QED BY <1>1, <2>1, <2>2, UpTo
<1>11. h \in [0 .. n -> R]
  BY <1>9, <1>10
<1> QED BY <1>4, <1>8, <1>9, <1>11 DEF n, R

LEMMA FlattenHas ==
  ASSUME NEW V, NEW seqs \in Seq(Seq(V))
  PROVE  /\ FlattenSeq(seqs) \in Seq(V)
         /\ \A k \in 1 .. Len(seqs) : \A j \in 1 .. Len(seqs[k]) :
              \E i \in 1 .. Len(FlattenSeq(seqs)) : FlattenSeq(seqs)[i] = seqs[k][j]
<1> DEFINE n == Len(seqs)
           R == Seq(V)
<1>1. n \in Nat /\ \A k \in 1 .. n : seqs[k] \in R
  <2>1. n \in Nat /\ seqs \in Seq(R)
    BY LenProperties
  <2>2. \A k \in 1 .. n : seqs[k] \in R
    BY <2>1, ElementOfSeq
  <2> QED BY <2>1, <2>2
<1>2. CASE n = 0
  <2>1. seqs = << >>
    BY <1>2, EmptySeq
  <2>2. FlattenSeq(seqs) = seqs
    BY <1>2 DEF FlattenSeq
  <2>3. FlattenSeq(seqs) \in R
    <3>1. << >> \in R
      BY EmptySeq
    <3> QED BY <2>1, <2>2, <3>1
  <2>4. \A k \in 1 .. n : FALSE
    BY <1>2
  <2> QED BY <2>3, <2>4
<1>3. CASE n > 0
  <2>1. PICK h \in [0 .. n -> R] :
           /\ h[0] = << >> /\ FlattenSeq(seqs) = h[n]
           /\ \A k \in 1 .. n : h[k] = h[k - 1] \o seqs[k]
    BY <1>3, FlattenIs
  <2> DEFINE Has2(m, k, j) == \E i \in 1 .. Len(h[m]) : h[m][i] = seqs[k][j]
             T == {m \in 0 .. n : \A k \in 1 .. m : \A j \in 1 .. Len(seqs[k]) : Has2(m, k, j)}
  <2>2. 0 .. n \subseteq T
    <3> HIDE DEF n, R
    <3>1. 0 \in T
      BY <1>1
    <3>2. ASSUME NEW m \in 0 .. n - 1, m \in T
          PROVE  m + 1 \in T
      <4>1. m + 1 \in 1 .. n /\ m + 1 \in 0 .. n /\ (m + 1) - 1 = m /\ m \in 0 .. n
        BY <1>1
      <4> DEFINE s1 == h[m]
                 s2 == seqs[m + 1]
                 s == h[m + 1]
      <4>2. s = s1 \o s2 /\ s1 \in R /\ s2 \in R
        <5>1. h[m + 1] = h[(m + 1) - 1] \o seqs[m + 1]
          BY <2>1, <4>1
        <5> QED BY <1>1, <2>1, <4>1, <5>1
      <4>3. \A k \in 1 .. m : \A j \in 1 .. Len(seqs[k]) : \E i \in 1 .. Len(s1) : s1[i] = seqs[k][j]
        BY <3>2
      <4> HIDE DEF s1, s2, s, Has2
      <4>4. /\ Len(s) = Len(s1) + Len(s2) /\ Len(s1) \in Nat /\ Len(s2) \in Nat
            /\ \A i \in 1 .. Len(s1) + Len(s2) : s[i] = IF i <= Len(s1) THEN s1[i] ELSE s2[i - Len(s1)]
        BY <4>2, ConcatProperties, LenProperties DEF R
      <4>5. ASSUME NEW k \in 1 .. (m + 1), NEW j \in 1 .. Len(seqs[k])
            PROVE  \E i \in 1 .. Len(s) : s[i] = seqs[k][j]
        <5>1. CASE k = m + 1
          <6>1. j \in 1 .. Len(s2) /\ seqs[k][j] = s2[j]
            BY <5>1 DEF s2
          <6>2. Len(s1) + j \in 1 .. Len(s) /\ ~(Len(s1) + j <= Len(s1)) /\ (Len(s1) + j) - Len(s1) = j
            BY <4>4, <6>1
          <6>3. s[Len(s1) + j] = s2[j]
            BY <4>4, <6>2
          <6> QED BY <6>1, <6>2, <6>3
        <5>2. CASE k # m + 1
          <6>1. k \in 1 .. m
            BY <4>1, <5>2
          <6>2. PICK i \in 1 .. Len(s1) : s1[i] = seqs[k][j]
            BY <4>3, <6>1
          <6>3. i \in 1 .. Len(s) /\ i <= Len(s1)
            BY <4>4, <6>2
          <6>4. s[i] = s1[i]
            BY <4>4, <6>3
          <6> QED BY <6>2, <6>3, <6>4
        <5> QED BY <5>1, <5>2
      <4>6. \A k \in 1 .. (m + 1) : \A j \in 1 .. Len(seqs[k]) : Has2(m + 1, k, j)
        BY <4>5 DEF Has2, s
      <4> QED BY <4>1, <4>6
    <3> HIDE DEF T
    <3> QED BY <1>1, <3>1, <3>2, UpTo
  <2>3. n \in T
    <3> HIDE DEF T, n
    <3>1. n \in 0 .. n
      BY <1>1
    <3> QED BY <2>2, <3>1
  <2>4. \A k \in 1 .. n : \A j \in 1 .. Len(seqs[k]) : Has2(n, k, j)
    BY <2>3
  <2>5. FlattenSeq(seqs) \in R
    BY <1>1, <2>1
  <2>6. \A k \in 1 .. n : \A j \in 1 .. Len(seqs[k]) :
              \E i \in 1 .. Len(FlattenSeq(seqs)) : FlattenSeq(seqs)[i] = seqs[k][j]
    BY <2>1, <2>4
  <2> QED BY <2>5, <2>6
<1> QED BY <1>1, <1>2, <1>3

-----------------------------------------------------------------------------
(* The constraints that a box gives out are those of its bounds.           *)
Bounds(a) == {Lower(a, d) : d \in {e \in Dims(a) : HasLower(a, e)}}
               \union {Upper(a, d) : d \in {e \in Dims(a) : HasUpper(a, e)}}
Of(a, d) == (IF HasLower(a, d) THEN <<Lower(a, d)>> ELSE << >>)
              \o (IF HasUpper(a, d) THEN <<Upper(a, d)>> ELSE << >>)

LEMMA BoundsAre ==
  ASSUME NEW a, NEW c
  PROVE  c \in Bounds(a) => IsBoundOf(c, a)
BY DEF Bounds, IsBoundOf

LEMMA OfIs ==
  ASSUME NEW a, NEW d \in Dims(a)
  PROVE  /\ Of(a, d) \in Seq(Bounds(a))
         /\ HasLower(a, d) => \E j \in 1 .. Len(Of(a, d)) : Of(a, d)[j] = Lower(a, d)
         /\ HasUpper(a, d) => \E j \in 1 .. Len(Of(a, d)) : Of(a, d)[j] = Upper(a, d)
<1> DEFINE V == Bounds(a)
           l == Lower(a, d)
           u == Upper(a, d)
           s == IF HasLower(a, d) THEN <<l>> ELSE << >>
           t == IF HasUpper(a, d) THEN <<u>> ELSE << >>
<1>1. (HasLower(a, d) => l \in V) /\ (HasUpper(a, d) => u \in V)
  BY DEF Bounds
<1>2. Of(a, d) = s \o t
  BY DEF Of
<1> HIDE DEF V, l, u
<1>3. s \in Seq(V) /\ (HasLower(a, d) => Len(s) = 1 /\ s[1] = l)
  BY <1>1, EmptySeq
<1>4. t \in Seq(V) /\ (HasUpper(a, d) => Len(t) = 1 /\ t[1] = u)
  BY <1>1, EmptySeq
<1> HIDE DEF s, t
<1>5. /\ s \o t \in Seq(V) /\ Len(s \o t) = Len(s) + Len(t) /\ Len(s) \in Nat /\ Len(t) \in Nat
      /\ \A i \in 1 .. Len(s) + Len(t) : (s \o t)[i] = IF i <= Len(s) THEN s[i] ELSE t[i - Len(s)]
  BY <1>3, <1>4, ConcatProperties, LenProperties
<1> DEFINE q == s \o t
<1> HIDE DEF q
<1>6. ASSUME HasLower(a, d)
      PROVE  1 \in 1 .. Len(q) /\ q[1] = l
  <2>0. Len(s) = 1 /\ Len(t) \in Nat
    BY <1>3, <1>5, <1>6
  <2>1. 1 \in 1 .. Len(s) + Len(t) /\ 1 <= Len(s)
    BY ONLY <2>0
  <2> QED BY <1>3, <1>5, <1>6, <2>1 DEF q
<1>7. ASSUME HasUpper(a, d)
      PROVE  Len(s) + 1 \in 1 .. Len(q) /\ q[Len(s) + 1] = u
  <2>2. Len(t) = 1 /\ Len(s) \in Nat /\ t[1] = u
    BY <1>4, <1>5, <1>7
  <2>3. \A m, k \in Nat : k = 1 => m + 1 \in 1 .. m + k /\ ~(m + 1 <= m) /\ (m + 1) - m = 1
    OBVIOUS
  <2>1. Len(s) + 1 \in 1 .. Len(s) + Len(t) /\ ~(Len(s) + 1 <= Len(s)) /\ (Len(s) + 1) - Len(s) = 1
    BY <2>2, <2>3
  <2> QED BY <1>5, <2>1, <2>2 DEF q
<1>8. Of(a, d) = q
  BY <1>2 DEF q
<1>9. q \in Seq(V)
  BY <1>5 DEF q
<1>10. HasLower(a, d) => \E j \in 1 .. Len(q) : q[j] = l
  BY <1>6
<1>11. HasUpper(a, d) => \E j \in 1 .. Len(q) : q[j] = u
  BY <1>7
<1> QED BY <1>8, <1>9, <1>10, <1>11 DEF V, l, u

LEMMA GivenOut ==
  ASSUME NEW a, GoodBox(a), ~a.null
  PROVE  LET cons == ToLinconsArray(a)
         IN /\ cons \in Seq(Bounds(a))
            /\ \A d \in Dims(a) : /\ HasLower(a, d) => \E i \in 1 .. Len(cons) : cons[i] = Lower(a, d)
                                  /\ HasUpper(a, d) => \E i \in 1 .. Len(cons) : cons[i] = Upper(a, d)
<1> DEFINE n == a.int + a.real
           V == Bounds(a)
           seqs == [i \in 1 .. n |-> Of(a, i - 1)]
           cons == ToLinconsArray(a)
<1>1. a.int \in Nat /\ a.real \in Nat /\ Dims(a) = 0 .. (a.int + a.real - 1) /\ n \in Nat
  BY GoodIs
<1>2. \A i \in 1 .. n : i - 1 \in Dims(a)
  BY <1>1
<1>3. cons = FlattenSeq(seqs)
  <2> DEFINE lower(d) == Lincons(LowerType(a.p[d]),
                          Lin(Itv(BoundNeg(a.p[d].inf), a.p[d].inf), TRUE, [x \in {d} |-> ItvInt(1)]))
             upper(d) == Lincons("SUPEQ",
                          Lin(Itv(BoundNeg(a.p[d].sup), a.p[d].sup), TRUE, [x \in {d} |-> ItvInt(-1)]))
             of(d) == (IF IsInfty(a.p[d].inf) THEN << >> ELSE <<lower(d)>>)
                 \o (IF ItvIsPoint(a.p[d]) \/ IsInfty(a.p[d].sup) THEN << >> ELSE <<upper(d)>>)
  <2>1. cons = FlattenSeq([i \in 1 .. n |-> of(i - 1)])
    BY DEF ToLinconsArray
  <2>2. \A d : lower(d) = Lower(a, d) /\ upper(d) = Upper(a, d)
    BY DEF Lower, Upper, Unit, UnitTerms
  <2> HIDE DEF lower, upper, cons
  <2>3. ASSUME NEW d
        PROVE  of(d) = Of(a, d)
    <3>1. (IF IsInfty(a.p[d].inf) THEN << >> ELSE <<lower(d)>>) = (IF HasLower(a, d) THEN <<Lower(a, d)>> ELSE << >>)
      BY <2>2 DEF HasLower
    <3>2. (IF ItvIsPoint(a.p[d]) \/ IsInfty(a.p[d].sup) THEN << >> ELSE <<upper(d)>>)
            = (IF HasUpper(a, d) THEN <<Upper(a, d)>> ELSE << >>)
      BY <2>2 DEF HasUpper
    <3> QED BY <3>1, <3>2 DEF Of
  <2> HIDE DEF of
  <2>4. [i \in 1 .. n |-> of(i - 1)] = seqs
    BY <2>3
  <2> QED BY <2>1, <2>4
<1> HIDE DEF n, V, cons
<1>4. seqs \in Seq(Seq(V)) /\ Len(seqs) = n /\ \A i \in 1 .. n : seqs[i] = Of(a, i - 1)
  <2>1. \A i \in 1 .. n : Of(a, i - 1) \in Seq(V)
    BY <1>2, OfIs DEF V
  <2> DEFINE R == Seq(V)
  <2> HIDE DEF R
  <2>2. \A i \in 1 .. n : Of(a, i - 1) \in R
    BY <2>1 DEF R
  <2>3. seqs \in Seq(R) /\ Len(seqs) = n
    BY <1>1, <2>2
  <2> QED BY <2>3 DEF R
<1> HIDE DEF seqs
<1>5. /\ cons \in Seq(V)
      /\ \A k \in 1 .. n : \A j \in 1 .. Len(seqs[k]) : \E i \in 1 .. Len(cons) : cons[i] = seqs[k][j]
  <2>1. /\ FlattenSeq(seqs) \in Seq(V)
        /\ \A k \in 1 .. Len(seqs) : \A j \in 1 .. Len(seqs[k]) :
              \E i \in 1 .. Len(FlattenSeq(seqs)) : FlattenSeq(seqs)[i] = seqs[k][j]
    BY <1>4, FlattenHas
  <2> QED BY <1>3, <1>4, <2>1
<1>6. ASSUME NEW d \in Dims(a)
      PROVE  /\ HasLower(a, d) => \E i \in 1 .. Len(cons) : cons[i] = Lower(a, d)
             /\ HasUpper(a, d) => \E i \in 1 .. Len(cons) : cons[i] = Upper(a, d)
  <2>1. d + 1 \in 1 .. n /\ (d + 1) - 1 = d
    BY <1>1 DEF n
  <2>2. seqs[d + 1] = Of(a, d)
    <3>1. seqs[d + 1] = Of(a, (d + 1) - 1)
      BY <1>4, <2>1
    <3> QED BY <2>1, <3>1
  <2>3. \A j \in 1 .. Len(Of(a, d)) : \E i \in 1 .. Len(cons) : cons[i] = Of(a, d)[j]
    BY <1>5, <2>1, <2>2
  <2>4. HasLower(a, d) => \E j \in 1 .. Len(Of(a, d)) : Of(a, d)[j] = Lower(a, d)
    BY OfIs
  <2>5. HasUpper(a, d) => \E j \in 1 .. Len(Of(a, d)) : Of(a, d)[j] = Upper(a, d)
    BY OfIs
  <2> QED BY <2>3, <2>4, <2>5
<1> QED BY <1>5, <1>6 DEF cons, V

-----------------------------------------------------------------------------
LEMMA FalseIsFalse ==
  /\ IsFalseCst(FalseCons) /\ \A int : ReduceInteger(FalseCons, int) = FalseCons
<1> DEFINE l == LinCst(ItvInt(1))
<1>1. l.cst = ItvInt(1) /\ DOMAIN l.terms = {}
  BY LinCstIs
<1>2. FalseCons.typ = "EQ" /\ FalseCons.lin = l /\ FalseCons = Lincons("EQ", l)
  BY LinconsIs DEF FalseCons
<1>3. Proper(ItvInt(1)) /\ ItvIsPoint(ItvInt(1)) /\ ItvInt(1).sup = IntBound(1)
  BY ItvIntIs
<1>4. l.eq
  <2>1. l.eq = ItvIsPoint(ItvInt(1))
    BY LinCstIs
  <2> HIDE DEF l
  <2> QED BY <1>3, <2>1
<1>5. BoundSgn(IntBound(1)) = 1
  BY DEF BoundSgn, SgnOf, IntBound
<1> HIDE DEF l
<1>6. EvalCst(FalseCons) = "false"
  BY <1>1, <1>2, <1>3, <1>4, <1>5 DEF EvalCst, Proper
<1>7. IsFalseCst(FalseCons)
  BY <1>1, <1>2, <1>6 DEF IsFalseCst, IsCst
<1>8. CommonFactor(l.terms).gcd = 0
  <2> DEFINE ts == l.terms
             T == DOMAIN ts
  <2>1. T = {} /\ IsFiniteSet({})
    BY <1>1, FS_EmptySet
  <2>2. T \in SUBSET Int
    BY <2>1
  <2>3. IsFiniteSet(T)
    BY <2>1
  <2>4. \A d \in T : Proper(ts[d]) /\ ItvIsPoint(ts[d])
    BY <2>1
  <2> HIDE DEF ts
  <2> QED BY <2>1, <2>2, <2>3, <2>4, CommonFactorIs DEF ts
<1>9. ASSUME NEW int PROVE ReduceInteger(FalseCons, int) = FalseCons
  BY <1>2, <1>8 DEF ReduceInteger
<1> QED BY <1>7, <1>9

LEMMA EmptyRoundTrip ==
  ASSUME NEW a, GoodBox(a), a.null
  PROVE  BoxEq(BoxMeetLincons(BoxTop(a.int, a.real), ToLinconsArray(a)), a)
<1> DEFINE t == BoxTop(a.int, a.real)
           q == <<FalseCons>>
           r == BoxMeetLincons(t, q)
<1>1. ToLinconsArray(a) = q
  BY DEF ToLinconsArray
<1>2. ~t.null
  BY TopIs
<1>3. [i \in DOMAIN q |-> ReduceInteger(q[i], t.int)] = q
  <2>1. DOMAIN q = {1} /\ q[1] = FalseCons
    OBVIOUS
  <2>2. q = [i \in DOMAIN q |-> q[i]]
    OBVIOUS
  <2>3. \A i \in DOMAIN q : ReduceInteger(q[i], t.int) = q[i]
    <3> HIDE DEF t, q
    <3> QED BY <2>1, FalseIsFalse
  <2> HIDE DEF q, t
  <2> QED BY <2>2, <2>3
<1>4. ReduceArray(q) = q
  <2>1. 1 \in DOMAIN q /\ q[1] = FalseCons
    OBVIOUS
  <2>2. \E i \in DOMAIN q : IsFalseCst(q[i])
    BY <2>1, FalseIsFalse
  <2> QED BY <2>2 DEF ReduceArray
<1>5. r = SetBottom(t)
  <2> HIDE DEF t
  <2> QED BY <1>2, <1>3, <1>4 DEF BoxMeetLincons
<1>6. r.null
  <2> HIDE DEF r
  <2> QED BY <1>5, EmptyParts DEF SetBottom
<1> HIDE DEF r
<1>7. BoxEq(r, a)
  BY <1>6 DEF BoxEq
<1> QED BY <1>1, <1>7 DEF r

LEMMA FullRoundTrip ==
  ASSUME NEW a, GoodBox(a), ~a.null
  PROVE  BoxEq(BoxMeetLincons(BoxTop(a.int, a.real), ToLinconsArray(a)), a)
<1> DEFINE t == BoxTop(a.int, a.real)
           V == Bounds(a)
           D == Dims(a)
           cons == ToLinconsArray(a)
           n == Len(cons)
           top == [d \in D |-> ItvTop]
           b == Boxize(cons, top, a.int)
           r == BoxMeetLincons(t, cons)
<1>1. ~t.null /\ t.int = a.int /\ Dims(t) = D /\ t.p = top /\ GoodBox(t)
  BY TopIs
<1>2. /\ cons \in Seq(V)
      /\ \A d \in D : /\ HasLower(a, d) => \E i \in 1 .. n : cons[i] = Lower(a, d)
                      /\ HasUpper(a, d) => \E i \in 1 .. n : cons[i] = Upper(a, d)
  BY GivenOut
<1> HIDE DEF t, cons, V, r, b
<1>3. DOMAIN cons = 1 .. n /\ n \in Nat /\ cons = [i \in DOMAIN cons |-> cons[i]] /\ \A i \in 1 .. n : cons[i] \in V
  <2>1. DOMAIN cons = 1 .. n /\ n \in Nat
    BY <1>2, LenProperties
  <2>2. \A i \in 1 .. n : cons[i] \in V
    BY <1>2, ElementOfSeq
  <2>3. cons \in [1 .. n -> V]
    BY <1>2, LenProperties
  <2> QED BY <2>1, <2>2, <2>3
<1>4. IsSequence(cons) /\ \A i \in DOMAIN cons : IsBoundOf(cons[i], a)
  BY <1>3, BoundsAre DEF IsSequence, V
<1>5. \A i \in DOMAIN cons : /\ ReadyCons(cons[i], D) /\ ReduceInteger(cons[i], a.int) = cons[i]
                             /\ ~IsFalseCst(cons[i]) /\ ~IsUselessForMeet(cons[i])
  BY <1>4, BoundIsProper
<1>6. [i \in DOMAIN cons |-> ReduceInteger(cons[i], t.int)] = cons
  BY <1>1, <1>3, <1>5
<1>7. ReduceArray(cons) = cons
  <2>1. \A v \in V : ProperCons(v, D)
    BY BoundsAre, BoundIsProper DEF V, ReadyCons
  <2> HIDE DEF D
  <2> QED BY <1>2, <1>5, <2>1, ReduceArrayIs
<1>8. cons # <<FalseCons>>
  <2> SUFFICES ASSUME cons = <<FalseCons>> PROVE FALSE
    OBVIOUS
  <2>1. 1 \in DOMAIN cons /\ cons[1] = FalseCons
    OBVIOUS
  <2> QED BY <1>5, <2>1, FalseIsFalse
<1>9. ~b.empty /\ \A d \in D : b.p[d] = a.p[d]
  BY <1>2, <1>3, <1>4, BoundsRebuild DEF b
<1> DEFINE p == [d \in D |-> b.p[d]]
<1>10. r = With(t, p)
  <2> HIDE DEF D
  <2> QED BY <1>1, <1>6, <1>7, <1>8, <1>9 DEF BoxMeetLincons, r, b
<1>11. p = [d \in Dims(t) |-> p[d]] /\ \A d \in Dims(t) : Proper(p[d]) /\ (d < t.int => IntegerItv(p[d]))
  BY <1>1, <1>9, GoodDim
<1>12. r.p = p /\ ~r.null /\ Dims(r) = Dims(t)
  <2> HIDE DEF p
  <2> QED BY <1>1, <1>10, <1>11, GoodWith
<1>13. BoxEq(r, a)
  BY <1>1, <1>9, <1>12 DEF BoxEq
<1> QED BY <1>13 DEF r, t, cons

(* Every value of the domain is a proper box: canonical, and the same      *)
(* again when it is rebuilt from the constraints it gives out              *)
(* (box_to_lincons_array and box_meet_lincons_array).                      *)
THEOREM BoxesAreProper ==
  ASSUME NEW Boxes, NEW Copies, \A b \in Boxes \union Copies : GoodBox(b)
  PROVE  Init(Boxes, Copies) /\ [][Next]_vars => []BoxOK
<1>1. Init(Boxes, Copies) => IInv
  BY DEF Init, IInv
<1>2. IInv /\ [Next]_vars => IInv'
  BY NextKeepsIInv
<1>3. IInv => BoxOK
  <2> SUFFICES ASSUME GoodBox(box) PROVE BoxOK
    BY DEF IInv
  <2>1. Canonical
    <3> SUFFICES ASSUME ~box.null
                 PROVE  /\ DOMAIN box.p = Dims(box)
                        /\ \A d \in Dims(box) : ~IsEmptyItv(box.p[d]) /\ (d < box.int => IntegerItv(box.p[d]))
      BY DEF Canonical
    <3> QED BY GoodIs, GoodDim DEF Proper
  <2>2. RoundTrip
    BY EmptyRoundTrip, FullRoundTrip DEF RoundTrip
  <2> QED BY <2>1, <2>2 DEF BoxOK
<1> QED BY <1>1, <1>2, <1>3, PTL

-----------------------------------------------------------------------------
(***************************************************************************)
(* Widening: the finite bounds of a box are counted, and one is lost when  *)
(* the box changes.                                                        *)
(***************************************************************************)
FiniteInf(a) == {d \in Dims(a) : ~IsInfty(a.p[d].inf)}
FiniteSup(a) == {d \in Dims(a) : ~IsInfty(a.p[d].sup)}

LEMMA FiniteBoundsAre ==
  ASSUME NEW a, GoodBox(a), ~a.null
  PROVE  /\ IsFiniteSet(FiniteInf(a)) /\ IsFiniteSet(FiniteSup(a))
         /\ Cardinality(FiniteInf(a)) \in Nat /\ Cardinality(FiniteSup(a)) \in Nat
         /\ FiniteBounds(a) = Cardinality(FiniteInf(a)) + Cardinality(FiniteSup(a))
         /\ FiniteBounds(a) <= 2 * (a.int + a.real)
<1>1. a.int \in Nat /\ a.real \in Nat /\ IsFiniteSet(Dims(a)) /\ Cardinality(Dims(a)) = a.int + a.real
  BY GoodIs, DimsAre
<1>2. FiniteInf(a) \subseteq Dims(a) /\ FiniteSup(a) \subseteq Dims(a)
  BY DEF FiniteInf, FiniteSup
<1>3. IsFiniteSet(FiniteInf(a)) /\ Cardinality(FiniteInf(a)) <= Cardinality(Dims(a))
  BY <1>1, <1>2, FS_Subset
<1>4. IsFiniteSet(FiniteSup(a)) /\ Cardinality(FiniteSup(a)) <= Cardinality(Dims(a))
  BY <1>1, <1>2, FS_Subset
<1>5. Cardinality(FiniteInf(a)) \in Nat
  BY <1>3, FS_CardinalityType
<1>6. Cardinality(FiniteSup(a)) \in Nat
  BY <1>4, FS_CardinalityType
<1>7. FiniteBounds(a) = Cardinality(FiniteInf(a)) + Cardinality(FiniteSup(a))
  BY DEF FiniteBounds, FiniteInf, FiniteSup
<1> QED BY <1>1, <1>3, <1>4, <1>5, <1>6, <1>7

(* An interval keeps each of its bounds or loses it.                       *)
LEMMA WideningKeepsOrLoses ==
  ASSUME NEW b, Proper(b), NEW c, Proper(c)
  PROVE  LET w == ItvWidening(b, c)
         IN /\ w.inf \in {b.inf, PlusOo} /\ w.sup \in {b.sup, PlusOo}
            /\ w # b => w.inf # b.inf \/ w.sup # b.sup
<1>1. b # ItvBottom /\ c # ItvBottom
  <2>1. IsItv(b) /\ IsItv(c) /\ ~IsEmptyItv(b) /\ ~IsEmptyItv(c)
    BY DEF Proper
  <2> QED BY <2>1, SomeFrac, ItvBottomIs
<1>2. ItvWidening(b, c) = Itv(BoundWidening(b.inf, c.inf), BoundWidening(b.sup, c.sup))
  BY <1>1 DEF ItvWidening
<1>3. b = Itv(b.inf, b.sup)
  BY DEF Proper, IsItv, Itv
<1>4. \A x, y : BoundWidening(x, y) \in {x, PlusOo}
  BY DEF BoundWidening
<1>5. ItvWidening(b, c).inf \in {b.inf, PlusOo} /\ ItvWidening(b, c).sup \in {b.sup, PlusOo}
  BY <1>2, <1>4 DEF Itv
<1>6. ItvWidening(b, c) = Itv(ItvWidening(b, c).inf, ItvWidening(b, c).sup)
  BY <1>2 DEF Itv
<1> QED BY <1>3, <1>5, <1>6

LEMMA WideningLoses ==
  ASSUME NEW a, GoodBox(a), NEW b, GoodBox(b), Fit(a, b), ~WideningCrashes(a, b), BoxWidening(a, b) # a
  PROVE  FiniteBounds(BoxWidening(a, b)) < FiniteBounds(a)
<1> DEFINE w == BoxWidening(a, b)
<1>1. GoodBox(w) /\ Fit(w, a)
  BY WideningIsGood
<1>2. CASE a.null
  <2>1. w = b /\ b # a
    BY <1>2 DEF BoxWidening
  <2>2. ~b.null
    <3>1. a = BoxBottom(a.int, a.real) /\ (b.null => b = BoxBottom(b.int, b.real))
      BY <1>2, GoodIs
    <3>2. a.int = b.int /\ a.real = b.real
      BY DEF Fit
    <3> QED BY <2>1, <3>1, <3>2
  <2>3. FiniteBounds(b) <= 2 * (b.int + b.real) /\ FiniteBounds(b) \in Nat
    BY <2>2, FiniteBoundsAre
  <2>4. FiniteBounds(a) = 2 * (a.int + a.real) + 1
    BY <1>2 DEF FiniteBounds
  <2>5. a.int = b.int /\ a.real = b.real /\ a.int \in Nat /\ a.real \in Nat
    BY GoodIs DEF Fit
  <2> QED BY <2>1, <2>3, <2>4, <2>5
<1>3. CASE ~a.null
  <2> DEFINE p == [d \in Dims(a) |-> ItvWidening(a.p[d], b.p[d])]
  <2>1. w = Box(a.int, a.real, p) /\ a = Box(a.int, a.real, a.p) /\ DOMAIN a.p = Dims(a)
    BY <1>3, GoodIs DEF BoxWidening, With
  <2>2. a.p = [d \in Dims(a) |-> a.p[d]]
    BY <1>3, GoodIs DEF GoodItvs
  <2>3. PICK d \in Dims(a) : p[d] # a.p[d]
    <3>1. p # a.p
      BY <2>1
    <3> QED BY <2>2, <3>1
  <2>4. ~b.null /\ Dims(b) = Dims(a)
    BY <1>3, <2>3, FitIs DEF WideningCrashes
  <2>5. ASSUME NEW e \in Dims(a)
        PROVE  /\ p[e].inf \in {a.p[e].inf, PlusOo} /\ p[e].sup \in {a.p[e].sup, PlusOo}
               /\ p[e] # a.p[e] => p[e].inf # a.p[e].inf \/ p[e].sup # a.p[e].sup
    <3>1. Proper(a.p[e]) /\ Proper(b.p[e])
      BY <1>3, <2>4, GoodDim
    <3> QED BY <3>1, WideningKeepsOrLoses
  <2>6. ~w.null /\ w.p = p /\ Dims(w) = Dims(a)
    BY <1>1, <2>1, BoxParts, FitIs
  <2>7. IsInfty(PlusOo)
    BY BoundKinds DEF IsBound
  <2> HIDE DEF p, w
  <2>8. FiniteInf(w) \subseteq FiniteInf(a) /\ FiniteSup(w) \subseteq FiniteSup(a)
    BY <2>5, <2>6, <2>7 DEF FiniteInf, FiniteSup
  <2>9. FiniteInf(w) # FiniteInf(a) \/ FiniteSup(w) # FiniteSup(a)
    <3>1. IsBound(a.p[d].inf) /\ IsBound(a.p[d].sup)
      BY <1>3, GoodDim DEF Proper, IsItv
    <3>2. CASE p[d].inf # a.p[d].inf
      <4>1. p[d].inf = PlusOo /\ a.p[d].inf # PlusOo
        BY <2>5, <3>2
      <4>2. ~IsInfty(a.p[d].inf) /\ IsInfty(p[d].inf)
        BY <2>7, <3>1, <4>1, BoundKinds
      <4>3. d \in FiniteInf(a) /\ d \notin FiniteInf(w)
        BY <2>6, <4>2 DEF FiniteInf
      <4> QED BY <4>3
    <3>3. CASE p[d].sup # a.p[d].sup
      <4>1. p[d].sup = PlusOo /\ a.p[d].sup # PlusOo
        BY <2>5, <3>3
      <4>2. ~IsInfty(a.p[d].sup) /\ IsInfty(p[d].sup)
        BY <2>7, <3>1, <4>1, BoundKinds
      <4>3. d \in FiniteSup(a) /\ d \notin FiniteSup(w)
        BY <2>6, <4>2 DEF FiniteSup
      <4> QED BY <4>3
    <3> QED BY <2>3, <2>5, <3>2, <3>3
  <2>10. /\ IsFiniteSet(FiniteInf(a)) /\ IsFiniteSet(FiniteSup(a))
         /\ Cardinality(FiniteInf(a)) \in Nat /\ Cardinality(FiniteSup(a)) \in Nat
         /\ FiniteBounds(a) = Cardinality(FiniteInf(a)) + Cardinality(FiniteSup(a))
    BY <1>3, FiniteBoundsAre
  <2>11. /\ Cardinality(FiniteInf(w)) \in Nat /\ Cardinality(FiniteSup(w)) \in Nat
         /\ FiniteBounds(w) = Cardinality(FiniteInf(w)) + Cardinality(FiniteSup(w))
    BY <1>1, <2>6, FiniteBoundsAre
  <2>12. /\ Cardinality(FiniteInf(w)) <= Cardinality(FiniteInf(a))
         /\ Cardinality(FiniteInf(w)) = Cardinality(FiniteInf(a)) => FiniteInf(w) = FiniteInf(a)
    BY <2>8, <2>10, FS_Subset
  <2>13. /\ Cardinality(FiniteSup(w)) <= Cardinality(FiniteSup(a))
         /\ Cardinality(FiniteSup(w)) = Cardinality(FiniteSup(a)) => FiniteSup(w) = FiniteSup(a)
    BY <2>8, <2>10, FS_Subset
  <2>14. FiniteBounds(w) < FiniteBounds(a)
    BY <2>9, <2>10, <2>11, <2>12, <2>13
  <2> QED BY <2>14 DEF w
<1> QED BY <1>2, <1>3

(* A widening that changes a box costs it a bound, so that chains of them  *)
(* end, for boxes of any dimensions (box_widening).                        *)
THEOREM WideningsEnd ==
  ASSUME NEW Boxes, NEW Copies, \A b \in Boxes \union Copies : GoodBox(b)
  PROVE  Init(Boxes, Copies) /\ [][Next]_vars => WideningLosesABound
<1>1. Init(Boxes, Copies) => IInv
  BY DEF Init, IInv
<1>2. IInv /\ [Next]_vars => IInv'
  BY NextKeepsIInv
<1>3. IInv /\ [Next]_vars =>
        [last'.do = "widening" /\ box' # box => FiniteBounds(box') < FiniteBounds(box)]_vars
  <2> SUFFICES ASSUME IInv, [Next]_vars, last'.do = "widening", box' # box
               PROVE  FiniteBounds(box') < FiniteBounds(box)
    OBVIOUS
  <2>1. PICK op \in Ops : Call(op)
    BY DEF Next, Save, vars
  <2>2. op.do = "widening" /\ Valid(op) /\ ~WideningCrashes(box, saved) /\ box' = Result(op)
    BY <2>1 DEF Call
  <2>3. Fit(box, saved) /\ box' = BoxWidening(box, saved)
    BY <2>2, CallKinds, ResultKinds
  <2> QED BY <2>2, <2>3, WideningLoses DEF IInv
<1> QED BY <1>1, <1>2, <1>3, PTL DEF WideningLosesABound
=============================================================================
