----------------------------- MODULE MirNumeric -----------------------------
(***************************************************************************)
(* The numerical domain of mirchecker                                      *)
(* (src/tools/mirchecker/src/analysis/numerical/apron_domain.rs, and the   *)
(* intervals of interval.rs) over the boxes of ApronBox, as the block and  *)
(* body visitors use it: one value, and another one that it is joined,     *)
(* widened or compared with.                                               *)
(*                                                                         *)
(* A value is a box of integer dimensions and var_map, which says which    *)
(* dimension holds which path.  A path gets the next dimension when it is  *)
(* first mentioned, so two values that know the same paths may number them *)
(* differently.  A path that is not in var_map may have any value.         *)
(***************************************************************************)
EXTENDS ApronBox, Bits

CONSTANTS
  KeyOrder,  \* the paths, as BTreeMap sorts them
  Window,    \* integers that a path is looked at for
  Ops,       \* the operations the visitors may call
  MaxCalls   \* bound on the number of calls

ASSUME MirNumericAssumption ==
  /\ Window \subseteq Int /\ MaxCalls \in Nat
  /\ DOMAIN KeyOrder = 1 .. Len(KeyOrder) /\ Len(KeyOrder) \in Nat
  /\ \A i, j \in DOMAIN KeyOrder : KeyOrder[i] = KeyOrder[j] => i = j

Paths == ToSet(KeyOrder)

VARIABLES
  last,   \* the last operation
  state,  \* the value
  saved,  \* the value put aside
  calls   \* the number of calls so far

vars == <<last, state, saved, calls>>

-----------------------------------------------------------------------------
Value(vm, abstract) == [var_map |-> vm, box |-> abstract]
Top    == Value(<< >>, BoxTop(0, 0))
Bottom == Value(<< >>, BoxBottom(0, 0))

IsTop(a)    == BoxIsTop(a.box)
IsBottom(a) == BoxIsBottom(a.box)
(* contains.                                                               *)
HasPath(a, v) == v \in DOMAIN a.var_map
GetDims(a)  == a.box.int

(* The keys of a BTreeMap, in their order.                                 *)
Position(v) == CHOOSE k \in DOMAIN KeyOrder : KeyOrder[k] = v
PlaceAmong(v, keys) == Cardinality({u \in keys : Position(u) < Position(v)})
SortedKeys(keys) ==
  [k \in 1 .. Cardinality(keys) |-> CHOOSE v \in keys : PlaceAmong(v, keys) = k - 1]

(* add_dimensions: new dimensions come last.                               *)
AddDimensions(b, n) ==
  IF n = 0 THEN b ELSE BoxAddDimensions(b, [k \in 1 .. n |-> b.int], n, FALSE)

(* get_var_dim_insert.                                                     *)
Insert(a, v) ==
  IF HasPath(a, v) THEN a
  ELSE Value([u \in DOMAIN a.var_map \union {v} |->
                IF HasPath(a, u) THEN a.var_map[u] ELSE Cardinality(DOMAIN a.var_map)],
             AddDimensions(a.box, 1))

(* The expression on dimensions, once all its paths have one.              *)
OnDims(expr, vm) ==
  [i \in DOMAIN expr |-> IF expr[i].op = "DIM" THEN Dim(vm[expr[i].dim]) ELSE expr[i]]

(* Paths get their dimensions in turn.                                     *)
InsertAll(a, names) ==
  LET known[k \in 0 .. Len(names)] ==
        IF k = 0 THEN a ELSE Insert(known[k - 1], names[k])
  IN known[Len(names)]

(* The paths of an expression, as they come.                               *)
Mentioned(expr) ==
  LET at == {i \in DOMAIN expr : expr[i].op = "DIM"}
  IN [k \in 1 .. Cardinality(at) |-> expr[Nth(k - 1, at)].dim]

(* The paths of expr get their dimensions first, then x.                   *)
Known(a, x, expr) == Insert(InsertAll(a, Mentioned(expr)), x)

(* x = expr.                                                               *)
Assign(a, x, expr) ==
  LET known == Known(a, x, expr)
      vm == known.var_map
  IN IF IsBottom(a) THEN a
     ELSE Value(vm, BoxAssignTexpr(known.box, <<vm[x]>>, <<OnDims(expr, vm)>>))

(* Slip for Renumbered: the last dimension takes the place of the removed  *)
(* one.                                                                    *)
RenumberedSwap(vm, var) ==
  LET size == Cardinality(DOMAIN vm)
  IN [v \in DOMAIN vm \ {var} |-> IF vm[v] = size - 1 THEN vm[var] ELSE vm[v]]

(* The dimensions that are left are numbered anew, in their order.         *)
Renumbered(vm, var) ==
  LET left == DOMAIN vm \ {var}
  IN [v \in left |-> Cardinality({u \in left : vm[u] < vm[v]})]

Forget(a, var) ==
  LET dim == a.var_map[var]
  IN IF ~HasPath(a, var) THEN a
     ELSE Value(Renumbered(a.var_map, var),
                BoxRemoveDimensions(BoxForget(a.box, {dim}, FALSE), <<dim>>, 1))

(* rename, of a path that is there.                                        *)
Rename(a, old, new) == Forget(Assign(a, new, <<Dim(old)>>), old)

-----------------------------------------------------------------------------
(* A linear expression: a constant and the coefficients of paths.          *)
Linear(cst, terms) == [cst |-> cst, terms |-> terms]
LinearNeg(e) == Linear(-e.cst, [v \in DOMAIN e.terms |-> -e.terms[v]])

(* expr2texpr: cst + n1 * v1 + n2 * v2 ...                                 *)
ToTexpr(e) ==
  LET keys == SortedKeys(DOMAIN e.terms)
      Plus(t, v) == t \o <<Cst(e.terms[v], e.terms[v]), Dim(v),
                           Node("MUL", Len(t) + 1, Len(t) + 2, "INT", "NEAREST"),
                           Node("ADD", Len(t), Len(t) + 3, "INT", "NEAREST")>>
      sum[k \in 0 .. Len(keys)] ==
        IF k = 0 THEN <<Cst(e.cst, e.cst)>> ELSE Plus(sum[k - 1], keys[k])
  IN sum[Len(keys)]

(* Slip for ToTcons: the expression of an inequality is not negated.       *)
ToTconsUnnegated(c) ==
  [typ |-> CASE c.kind = "Equality" -> "EQ" [] c.kind = "Inequality" -> "DISEQ"
             [] c.kind = "LessEq" -> "SUPEQ" [] c.kind = "LessThan" -> "SUP",
   expr |-> ToTexpr(c.linear)]

(* const2tconst: e <= 0 becomes -e >= 0.                                   *)
ToTcons(c) ==
  CASE c.kind = "Equality"   -> [typ |-> "EQ", expr |-> ToTexpr(c.linear)]
    [] c.kind = "Inequality" -> [typ |-> "DISEQ", expr |-> ToTexpr(c.linear)]
    [] c.kind = "LessEq"     -> [typ |-> "SUPEQ", expr |-> ToTexpr(LinearNeg(c.linear))]
    [] c.kind = "LessThan"   -> [typ |-> "SUP", expr |-> ToTexpr(LinearNeg(c.linear))]

IsContradiction(c) ==
  LET cst == c.linear.cst
  IN /\ DOMAIN c.linear.terms = {}
     /\ CASE c.kind = "Equality"   -> cst # 0
          [] c.kind = "Inequality" -> cst = 0
          [] c.kind = "LessEq"     -> cst > 0
          [] c.kind = "LessThan"   -> cst >= 0

(* The system is false when every constraint is a contradiction, and true  *)
(* when there is none.                                                     *)
AddConstraints(a, conds) ==
  LET known[k \in 0 .. Len(conds)] ==
        IF k = 0 THEN a
        ELSE InsertAll(known[k - 1], SortedKeys(DOMAIN conds[k].linear.terms))
      all == known[Len(conds)]
      onDims == [i \in DOMAIN conds |->
                   LET c == ToTcons(conds[i])
                   IN [typ |-> c.typ, expr |-> OnDims(c.expr, all.var_map)]]
  IN IF IsBottom(a) \/ conds = << >> THEN a
     ELSE IF \A i \in DOMAIN conds : IsContradiction(conds[i]) THEN Bottom
     ELSE Value(all.var_map, BoxMeetTcons(all.box, onDims))

-----------------------------------------------------------------------------
(* Intervals, as in ApronItv; the one that is called bottom runs from plus *)
(* to minus infinity.                                                      *)
IntervalBottom == Itv(Infty(-1), Infty(-1))
IntervalIsBottom(i) == BoundCmp(i.sup, BoundNeg(i.inf)) < 0
IsValue(i) == ItvIsPoint(i)
Is(i, n)   == i = ItvInt(n)

(* var2itv: a path that may have any value gives bottom when it has a      *)
(* dimension and top when it has none.                                     *)
Interval(a, var) ==
  IF IsBottom(a) THEN IntervalBottom
  ELSE IF ~HasPath(a, var) THEN ItvTop
  ELSE IF ItvIsTop(BoundDimension(a.box, a.var_map[var])) THEN IntervalBottom
  ELSE ItvFloor(BoundDimension(a.box, a.var_map[var]))

(* The number of an interval that holds one.                               *)
NumberOf(i) == i.sup[1]
PointOf(op, l, r) ==
  CASE op = "SHL" -> IF NumberOf(r) < 0 THEN ItvTop ELSE ItvInt(ShiftLeft(NumberOf(l), NumberOf(r)))
    [] op = "SHR" -> IF NumberOf(r) < 0 THEN ItvTop ELSE ItvInt(ShiftRight(NumberOf(l), NumberOf(r)))
    [] OTHER -> ItvInt(Bitwise(op, NumberOf(l), NumberOf(r)))

(* The constant that decides an operator whatever the other operand is,    *)
(* and the one that leaves the other operand as it is.                     *)
Absorbing(op, i) == (op = "AND" /\ Is(i, 0)) \/ (op = "OR" /\ Is(i, -1))
Neutral(op, i)   == (op = "AND" /\ Is(i, -1)) \/ (op \in {"OR", "XOR"} /\ Is(i, 0))

(* bitand, bitor, bitxor, shl and shr of Interval.                         *)
BitOp(op, l, r) ==
  IF IntervalIsBottom(l) \/ IntervalIsBottom(r) THEN IntervalBottom
  ELSE IF ItvIsTop(l) \/ ItvIsTop(r) THEN ItvTop
  ELSE IF Absorbing(op, l) THEN l
  ELSE IF Absorbing(op, r) THEN r
  ELSE IF Neutral(op, l) THEN r
  ELSE IF Neutral(op, r) THEN l
  ELSE IF IsValue(l) /\ IsValue(r) THEN PointOf(op, l, r)
  ELSE ItvTop

(* The finite bounds of an interval, as constraints on a path: low - v <= 0 *)
(* and v - high <= 0.                                                      *)
Bounds(v, i) ==
  LET LessEq(cst, n) == [kind |-> "LessEq", linear |-> Linear(cst, [u \in {v} |-> n])]
  IN (IF IsInfty(i.inf) THEN << >> ELSE <<LessEq(-i.inf[1], -1)>>)
       \o (IF IsInfty(i.sup) THEN << >> ELSE <<LessEq(-i.sup[1], 1)>>)

SetInterval(a, v, i) == AddConstraints(Forget(a, v), Bounds(v, i))

OperandOf(a, n) == IF n.op = "DIM" THEN Interval(a, n.dim) ELSE n.itv

(* do_bin_op_itv, for x = l op r given as the expression <<l, r, op>>.     *)
AssignBits(a, x, expr) ==
  IF IsBottom(a) THEN a
  ELSE SetInterval(a, x, BitOp(expr[3].op, OperandOf(a, expr[1]), OperandOf(a, expr[2])))

-----------------------------------------------------------------------------
(* The paths of both values: those of the first one, sorted, and then what *)
(* the second one adds.                                                    *)
MergedVarMap(l, r) ==
  LET old == DOMAIN l.var_map
      new == DOMAIN r.var_map \ old
  IN [v \in old \union new |->
        IF v \in old THEN PlaceAmong(v, old) ELSE Cardinality(old) + PlaceAmong(v, new)]

(* Where each dimension goes: that of a known path to the new dimension of *)
(* the path, and the added ones, in order, to the dimensions that are left. *)
Placement(a, vm) ==
  LET all == 0 .. (Cardinality(DOMAIN vm) - 1)
      taken == {a.var_map[v] : v \in DOMAIN a.var_map}
      given == {vm[v] : v \in DOMAIN a.var_map}
  IN [i \in all |-> IF i \in taken
                    THEN vm[CHOOSE v \in DOMAIN a.var_map : a.var_map[v] = i]
                    ELSE Nth(Rank(i, all \ taken), all \ given)]

(* Slip for MergedBox: the dimensions are added but not permuted.          *)
MergedBoxUnplaced(a, vm) == AddDimensions(a.box, Cardinality(DOMAIN vm) - GetDims(a))

(* The box of one of the two values in merge_var_map.                      *)
MergedBox(a, vm) ==
  BoxPermute(AddDimensions(a.box, Cardinality(DOMAIN vm) - GetDims(a)), Placement(a, vm))

(* merge_var_map: both boxes, numbered alike.                              *)
Merge(l, r) ==
  LET vm == MergedVarMap(l, r)
  IN [var_map |-> vm, left |-> MergedBox(l, vm), right |-> MergedBox(r, vm)]

Join(a, b) ==
  IF IsBottom(a) \/ IsTop(b) THEN b
  ELSE IF IsTop(a) \/ IsBottom(b) THEN a
  ELSE LET m == Merge(a, b) IN Value(m.var_map, BoxJoin(m.left, m.right))

Meet(a, b) ==
  IF IsBottom(a) \/ IsBottom(b) THEN Bottom
  ELSE IF IsTop(a) THEN b
  ELSE IF IsTop(b) THEN a
  ELSE LET m == Merge(a, b) IN Value(m.var_map, BoxMeet(m.left, m.right))

(* narrowing_with; a box is narrowed by meet.                              *)
Narrowing(a, b) == Meet(a, b)

Widening(a, b) ==
  LET m == Merge(a, b) IN Value(m.var_map, BoxWidening(m.left, m.right))
Crashes(a, b) == LET m == Merge(a, b) IN WideningCrashes(m.left, m.right)

(* The comparison of two values that are neither top nor bottom: their     *)
(* join, which numbers the paths anew, against the second one as it is.    *)
Leq(a, b) ==
  IF IsBottom(a) THEN TRUE
  ELSE IF IsBottom(b) THEN FALSE
  ELSE IF IsTop(b) THEN TRUE
  ELSE IF IsTop(a) \/ GetDims(a) # GetDims(b) THEN FALSE
  ELSE BoxLeq(Join(a, b).box, b.box)

(* With as many paths, but not the same ones, the join has more dimensions *)
(* and the library ends the process.                                       *)
LeqRaises(a, b) ==
  /\ ~IsBottom(a) /\ ~IsBottom(b) /\ ~IsTop(a) /\ ~IsTop(b)
  /\ GetDims(a) = GetDims(b) /\ ~Fit(Join(a, b).box, b.box)

-----------------------------------------------------------------------------
Target(op) == op.targets[1]

(* What the visitors build: expressions of integers over paths, operators  *)
(* of bits on two operands, and systems of linear constraints.             *)
IsBitExpr(expr) ==
  /\ IsSequence(expr) /\ Len(expr) = 3
  /\ IsNode(expr[1], 1, Paths) /\ IsNode(expr[2], 1, Paths)
  /\ expr[3].op \in {"AND", "OR", "XOR", "SHL", "SHR"}

IsLinear(e) ==
  /\ e.cst \in Int /\ DOMAIN e.terms \subseteq Paths
  /\ \A v \in DOMAIN e.terms : e.terms[v] \in Int

IsSystem(conds) ==
  /\ IsSequence(conds)
  /\ \A i \in DOMAIN conds : /\ conds[i].kind \in {"Equality", "Inequality", "LessEq", "LessThan"}
                            /\ IsLinear(conds[i].linear)

ASSUME OpsAssumption ==
  \A op \in Ops :
    /\ op.do \in {"assign", "meet_tcons", "forget", "rename", "join", "meet", "narrowing", "widening"}
    /\ op.do = "assign" => op.bits \in BOOLEAN
    /\ op.do \in {"assign", "rename"} => 1 \in DOMAIN op.targets /\ Target(op) \in Paths
    /\ op.do = "assign" => IF op.bits THEN IsBitExpr(op.exprs[1]) ELSE IsTexpr(op.exprs[1], Paths)
    /\ op.do = "meet_tcons" => IsSystem(op.conds)
    /\ op.do \in {"forget", "rename"} => op.dims # {} /\ op.dims \subseteq Paths

(* No divisor of an expression is negative.                                *)
DividesByPositive(a, expr) ==
  LET val == EvalNodes(OnDims(expr, a.var_map), a.box.p)
  IN ~IsBottom(a) => \A i \in DOMAIN expr : expr[i].op = "DIV" => BoundSgn(val[expr[i].b].sup) >= 0

(* The visitors divide by constants or by paths.  A quotient by a negative *)
(* number is left out (see ApronBoxOps); the widening of a value by bottom *)
(* reads through NULL, and does not happen because the round before it     *)
(* ends on leq.                                                            *)
Valid(op) ==
  CASE op.do = "assign" ->
         ~op.bits => DividesByPositive(Known(state, Target(op), op.exprs[1]), op.exprs[1])
    [] op.do = "rename" -> \A v \in op.dims : HasPath(state, v)
    [] op.do = "widening" -> ~Crashes(state, saved)
    [] OTHER -> TRUE

Result(op) ==
  CASE op.do = "assign" -> IF op.bits THEN AssignBits(state, Target(op), op.exprs[1])
                           ELSE Assign(state, Target(op), op.exprs[1])
    [] op.do = "meet_tcons" -> AddConstraints(state, op.conds)
    [] op.do = "forget" -> Forget(state, CHOOSE v \in op.dims : TRUE)
    [] op.do = "rename" -> Rename(state, CHOOSE v \in op.dims : TRUE, Target(op))
    [] op.do = "join" -> Join(state, saved)
    [] op.do = "meet" -> Meet(state, saved)
    [] op.do = "narrowing" -> Narrowing(state, saved)
    [] op.do = "widening" -> Widening(state, saved)

Init(States, Copies) ==
  /\ last = [do |-> "init"]
  /\ state \in States
  /\ saved \in Copies
  /\ calls = 0

Call(op) ==
  /\ calls < MaxCalls
  /\ Valid(op)
  /\ state' = Result(op)
  /\ last' = op
  /\ calls' = calls + 1
  /\ UNCHANGED saved

(* The value is cloned, into the states of another block for instance.     *)
Save ==
  /\ calls < MaxCalls
  /\ saved' = state
  /\ last' = [do |-> "keep"]
  /\ calls' = calls + 1
  /\ UNCHANGED state

Next == Save \/ \E op \in Ops : Call(op)

-----------------------------------------------------------------------------
(* What a value says of a path.                                            *)
ItvOf(a, v) == IF HasPath(a, v) THEN a.box.p[a.var_map[v]] ELSE ItvTop

Points(a) ==
  {pt \in [Paths -> Window] : ~IsBottom(a) /\ \A v \in Paths : InItv(pt[v], ItvOf(a, v))}

(* The paths are numbered without gaps and without sharing, and the box    *)
(* has exactly their dimensions: what the assertions of merge_var_map and  *)
(* get_var_dim_insert (apron_domain.rs:825, 930) take for granted.         *)
IsNumbered(a) ==
  /\ {a.var_map[v] : v \in DOMAIN a.var_map} = 0 .. (Cardinality(DOMAIN a.var_map) - 1)
  /\ a.box.int = Cardinality(DOMAIN a.var_map) /\ a.box.real = 0
  /\ DOMAIN a.box.p = IF IsBottom(a) THEN {} ELSE Dims(a.box)

Numbered == IsNumbered(state) /\ IsNumbered(saved)

(* All dimensions are integers: the bounds are, or they are plus infinity. *)
IsWholeBound(b) == b = PlusOo \/ (b[1] \in Int /\ b = IntBound(b[1]))
IsWhole(a) ==
  \A d \in DOMAIN a.box.p :
    LET itv == a.box.p[d]
    IN itv = Itv(itv.inf, itv.sup) /\ IsWholeBound(itv.inf) /\ IsWholeBound(itv.sup)

Whole == IsWhole(state) /\ IsWhole(saved)

C == INSTANCE Collecting WITH now <- Points(state), kept <- Points(saved)

(* The value keeps every point that the same operations lead to.           *)
Collects == C!Spec

(* A comparison that answers yes is right, however the two values number   *)
(* their paths: the iterator stops on it.                                  *)
LeqIsSound ==
  /\ ~LeqRaises(state, saved) /\ Leq(state, saved) => Points(state) \subseteq Points(saved)
  /\ ~LeqRaises(saved, state) /\ Leq(saved, state) => Points(saved) \subseteq Points(state)

(* The join says of each path exactly what the two values together say of  *)
(* it, whichever of them comes first and however they number their paths.  *)
JoinIsHull ==
  ~IsBottom(state) /\ ~IsBottom(saved) =>
    \A v \in Paths :
      LET hull == ItvJoin(ItvOf(state, v), ItvOf(saved, v))
      IN ItvOf(Join(state, saved), v) = hull /\ ItvOf(Join(saved, state), v) = hull

(* Two values are compared and joined by their paths, not by their         *)
(* dimensions: the numbering is sound, and so is what is computed from it. *)
LatticeOK ==
  /\ Numbered
  /\ Whole
  /\ LeqIsSound
  /\ JoinIsHull

(* An operation on some paths leaves what is known of the others as it is, *)
(* although all dimensions may move.                                       *)
OthersKept ==
  [][last'.do \in {"assign", "forget", "rename"} /\ ~IsBottom(state) =>
       \A v \in Paths \ (ToSet(last'.targets) \union last'.dims) :
         ItvOf(state', v) = ItvOf(state, v)]_vars
=============================================================================
