---------------------------- MODULE ApronBoxOps ----------------------------
(***************************************************************************)
(* A client of the box domain: it holds one box, puts a copy aside, and    *)
(* calls the operations of the manager on them in any order.               *)
(*                                                                         *)
(* An operation is a record; "do" names it and the other fields are its    *)
(* arguments.  What the library leaves to its client, and mirchecker or    *)
(* these calls see to, is in OpsAssumption and in the guards of Valid: an  *)
(* assignment to an integer dimension has an integer value, and a quotient *)
(* is not by a negative interval, for which itv_divn of itv.c is wrong     *)
(* when the dividend has both signs.                                       *)
(***************************************************************************)
EXTENDS ApronBox

CONSTANTS
  Window,     \* integers the points of a box are looked at for
  Ops,        \* the operations the client may call
  MaxCalls    \* bound on the number of calls

ASSUME ApronBoxOpsAssumption == Window \subseteq Int /\ MaxCalls \in Nat

-----------------------------------------------------------------------------
(* The first dimensions that are new are integer; as many of those that go *)
(* are; a permutation keeps integer dimensions among themselves, and folds *)
(* are of dimensions of one type.                                          *)
ASSUME OpsAssumption ==
  \A op \in Ops :
    LET All == 0 .. (op.int + op.real - 1)
        Ints == 0 .. (op.int - 1)
    IN /\ op.do \in {"assign", "meet_tcons", "forget", "threshold", "join", "meet", "widening",
                     "project", "add", "remove", "permute", "expand", "fold", "add_ray"}
       /\ op.do \in {"assign", "meet_tcons", "forget", "threshold"} => op.uses \subseteq Nat
       /\ op.do \in {"project", "add", "remove", "permute", "expand", "fold", "add_ray"} =>
            op.int \in Nat /\ op.real \in Nat
       /\ op.do = "assign" =>
            /\ Distinct(op.targets) /\ ToSet(op.targets) \subseteq op.uses
            /\ \A k \in DOMAIN op.targets : IsTexpr(op.exprs[k], op.uses)
       /\ op.do \in {"meet_tcons", "threshold"} =>
            IsSequence(op.cons) /\ \A k \in DOMAIN op.cons : IsTcons(op.cons[k], op.uses)
       /\ op.do = "threshold" =>
            IsSequence(op.lincons) /\ \A k \in DOMAIN op.lincons : IsLincons(op.lincons[k], op.uses)
       /\ op.do = "add" =>
            /\ IsSequence(op.change) /\ op.ints \in 0 .. Len(op.change)
            /\ \A k \in DOMAIN op.change : op.change[k] \in 0 .. (op.int + op.real)
            /\ \A k \in 1 .. op.ints : op.change[k] <= op.int
       /\ op.do = "remove" =>
            /\ Distinct(op.change) /\ ToSet(op.change) \subseteq All
            /\ op.ints = Cardinality(ToSet(op.change) \intersect Ints)
       /\ op.do = "permute" => op.perm \in Bijection(All, All) /\ \A d \in All : op.perm[d] \in Ints <=> d \in Ints
       /\ op.do = "expand" => op.dim \in All /\ op.n \in Nat
       /\ op.do = "fold" =>
            /\ op.targets \in Seq(Nat) /\ Distinct(op.targets) /\ Len(op.targets) > 0
            /\ ToSet(op.targets) \subseteq Ints \/ ToSet(op.targets) \subseteq All \ Ints
       /\ op.do = "add_ray" => \A d \in DOMAIN op.ray : op.ray[d] \in Int

VARIABLES
  last,   \* the last operation
  box,    \* the box
  saved,  \* the copy put aside
  calls   \* the number of calls so far

vars == <<last, box, saved, calls>>

(* What the library takes for granted of an expression that is assigned.   *)
Assignable(expr, dim) ==
  LET whole == WholeNodes(expr, box.int)
      val == EvalNodes(expr, box.p)
  IN /\ dim < box.int => whole[Len(expr)]
     /\ \A i \in DOMAIN expr : expr[i].op = "MOD" => whole[expr[i].a] /\ whole[expr[i].b]
     /\ \A i \in DOMAIN expr : expr[i].op = "DIV" => BoundSgn(val[expr[i].b].sup) >= 0

(* The exceptions of ap_abstract0.c: dimensions that do not fit.           *)
Valid(op) ==
  CASE op.do \in {"join", "meet", "widening"} -> Fit(box, saved)
    [] op.do = "threshold" -> Fit(box, saved) /\ op.uses \subseteq Dims(box)
    [] op.do \in {"meet_tcons", "forget"} -> op.uses \subseteq Dims(box)
    [] op.do = "assign" ->
         /\ op.uses \subseteq Dims(box)
         /\ ~box.null => \A k \in DOMAIN op.targets : Assignable(op.exprs[k], op.targets[k])
    [] OTHER -> op.int = box.int /\ op.real = box.real

Result(op) ==
  CASE op.do = "assign" -> BoxAssignTexpr(box, op.targets, op.exprs)
    [] op.do = "meet_tcons" -> BoxMeetTcons(box, op.cons)
    [] op.do = "forget" -> BoxForget(box, op.dims, FALSE)
    [] op.do = "project" -> BoxForget(box, op.dims, TRUE)
    [] op.do = "add" -> BoxAddDimensions(box, op.change, op.ints, op.project)
    [] op.do = "remove" -> BoxRemoveDimensions(box, op.change, op.ints)
    [] op.do = "permute" -> BoxPermute(box, op.perm)
    [] op.do = "expand" -> BoxExpand(box, op.dim, op.n)
    [] op.do = "fold" -> BoxFold(box, op.targets)
    [] op.do = "add_ray" -> BoxAddRay(box, op.line, op.ray)
    [] op.do = "join" -> BoxJoin(box, saved)
    [] op.do = "meet" -> BoxMeet(box, saved)
    [] op.do = "widening" -> BoxWidening(box, saved)
    [] op.do = "threshold" -> WideningThreshold(box, saved, op.lincons)

Init(Boxes, Copies) ==
  /\ last = [do |-> "init"]
  /\ box \in Boxes
  /\ saved \in {b \in Copies : Fit(b, box)}
  /\ calls = 0

Call(op) ==
  /\ calls < MaxCalls
  /\ Valid(op)
  /\ op.do = "widening" => ~WideningCrashes(box, saved)
  /\ op.do = "threshold" => BoxLeq(box, saved)  \* what the thresholds assume
  /\ box' = Result(op)
  /\ last' = op
  /\ calls' = calls + 1
  /\ UNCHANGED saved

Save ==
  /\ calls < MaxCalls
  /\ saved' = box
  /\ last' = [do |-> "keep"]
  /\ calls' = calls + 1
  /\ UNCHANGED box

Next == Save \/ \E op \in Ops : Call(op)

-----------------------------------------------------------------------------
(* Emptiness is only ever told by the NULL array: a box that has one holds *)
(* no empty interval, and the bounds of its integer dimensions are         *)
(* integers, whatever was done to it (box_is_bottom looks at nothing else). *)
Canonical ==
  ~box.null =>
    /\ DOMAIN box.p = Dims(box)
    /\ \A d \in Dims(box) : ~IsEmptyItv(box.p[d]) /\ (d < box.int => IntegerItv(box.p[d]))

Points(a) == {pt \in [Dims(a) -> Window] : InBox(pt, a)}

C == INSTANCE Collecting WITH now <- Points(box), kept <- Points(saved)

(* A positive answer to a question is true of every point: the inclusion   *)
(* on which the iterators stop, the constraints on which a checker reports *)
(* nothing, and a dimension that is said to be unconstrained.              *)
Asked == UNION {ToSet(op.cons) : op \in {o \in Ops : o.do = "meet_tcons" /\ o.uses \subseteq Dims(box)}}

AnswersAreSound ==
  /\ Fit(box, saved) /\ BoxLeq(box, saved) => Points(box) \subseteq Points(saved)
  /\ \A c \in {q \in Asked : BoxSatTcons(box, q)}, pt \in Points(box) :
       \A v \in C!Values(c.expr, pt) : C!Satisfies(v, c.typ)
  /\ \A d \in {e \in Dims(box) : BoxUnconstrained(box, e)} :
       C!Inside(C!Forgotten(Points(box), {d})) \subseteq Points(box)

(* The constraints a box gives out describe it: taken back into the whole  *)
(* space they rebuild the same box.                                        *)
RoundTrip ==
  BoxEq(BoxMeetLincons(BoxTop(box.int, box.real), ToLinconsArray(box)), box)

(* Every value is a proper box: canonical, and the same again when it is   *)
(* rebuilt from its own constraints.                                       *)
BoxOK ==
  /\ Canonical
  /\ RoundTrip

FiniteBounds(a) ==
  IF a.null THEN 2 * (a.int + a.real) + 1
  ELSE Cardinality({d \in Dims(a) : ~IsInfty(a.p[d].inf)})
         + Cardinality({d \in Dims(a) : ~IsInfty(a.p[d].sup)})

(* A widening that changes the box costs it a bound, so that a chain of    *)
(* widenings ends.                                                         *)
WideningLosesABound ==
  [][last'.do = "widening" /\ box' # box => FiniteBounds(box') < FiniteBounds(box)]_vars

(* The box stands for every point that the same calls can lead to.         *)
Collects == C!Spec
=============================================================================
