------------------------------ MODULE ApronBox ------------------------------
(***************************************************************************)
(* The box domain of apron-sys (box/) as mirchecker reaches it through the *)
(* manager (apron/ap_abstract0.c): one interval per dimension, integer     *)
(* dimensions first.  A box is empty when its array is NULL.               *)
(*                                                                         *)
(* The manager compares the dimensions of its arguments first and raises   *)
(* an exception when they differ; every exception ends the process         *)
(* (ap_manager.c), so the operations below are for arguments that Fit.     *)
(***************************************************************************)
EXTENDS ApronLinear

Dims(a) == 0 .. (a.int + a.real - 1)

Box(int, real, p) == [null |-> FALSE, int |-> int, real |-> real, p |-> p]
BoxBottom(int, real) == [null |-> TRUE, int |-> int, real |-> real, p |-> << >>]
BoxTop(int, real) == Box(int, real, [d \in 0 .. (int + real - 1) |-> ItvTop])

SetBottom(a) == BoxBottom(a.int, a.real)
With(a, p)   == Box(a.int, a.real, p)

(* ap_abstract0_check_abstract2.                                           *)
Fit(a, b) == a.int = b.int /\ a.real = b.real

(* box_of_box: the intervals are narrowed to integers; without dimensions  *)
(* the result is empty.                                                    *)
BoxOfBox(int, real, tinterval) ==
  LET p == [d \in 0 .. (int + real - 1) |-> Canonicalize(tinterval[d], d < int)]
  IN IF int + real = 0 \/ \E d \in DOMAIN p : IsEmptyItv(p[d]) THEN BoxBottom(int, real)
     ELSE Box(int, real, p)

BoxIsBottom(a) == a.null
BoxIsTop(a)    == ~a.null /\ \A d \in Dims(a) : ItvIsTop(a.p[d])

BoxLeq(a, b) ==
  IF a.null THEN TRUE
  ELSE IF b.null THEN FALSE
  ELSE \A d \in Dims(a) : ItvLeq(a.p[d], b.p[d])

BoxEq(a, b) ==
  IF a.null THEN b.null
  ELSE ~b.null /\ \A d \in Dims(a) : a.p[d] = b.p[d]

BoxUnconstrained(a, dim) == ~a.null /\ ItvIsTop(a.p[dim])

(* ap_interval_is_leq on the interval of a dimension.                      *)
BoxSatInterval(a, dim, interval) == a.null \/ ItvLeq(a.p[dim], interval)

(* box_sat_tcons.                                                          *)
BoxSatTcons(a, c) ==
  a.null \/ EvalCst(Lincons(c.typ, LinCst(EvalTexpr(c.expr, a.p)))) = "true"

BoundDimension(a, dim) == IF a.null THEN ItvBottom ELSE a.p[dim]
BoundTexpr(a, expr)    == IF a.null THEN ItvBottom ELSE EvalTexpr(expr, a.p)

(* The constraint of the lower bound; that of a point holds both bounds.   *)
LowerType(itv) == IF ItvIsPoint(itv) THEN "EQ" ELSE "SUPEQ"

(* box_to_lincons_array: the finite bounds, as constraints.                *)
ToLinconsArray(a) ==
  LET lower(d) == Lincons(LowerType(a.p[d]),
                          Lin(Itv(BoundNeg(a.p[d].inf), a.p[d].inf), TRUE, [x \in {d} |-> ItvInt(1)]))
      upper(d) == Lincons("SUPEQ",
                          Lin(Itv(BoundNeg(a.p[d].sup), a.p[d].sup), TRUE, [x \in {d} |-> ItvInt(-1)]))
      of(d) == (IF IsInfty(a.p[d].inf) THEN << >> ELSE <<lower(d)>>)
                 \o (IF ItvIsPoint(a.p[d]) \/ IsInfty(a.p[d].sup) THEN << >> ELSE <<upper(d)>>)
  IN IF a.null THEN <<FalseCons>> ELSE FlattenSeq([i \in 1 .. (a.int + a.real) |-> of(i - 1)])

-----------------------------------------------------------------------------
(* Slip for BoxMeet: the meet keeps a dimension that became empty.         *)
BoxMeetKeeps(a, b) ==
  IF a.null \/ b.null THEN SetBottom(a)
  ELSE With(a, [d \in Dims(a) |-> ItvMeet(a.p[d], b.p[d])])

BoxMeet(a, b) ==
  LET p == [d \in Dims(a) |-> ItvMeet(a.p[d], b.p[d])]
  IN IF a.null \/ b.null THEN SetBottom(a)
     ELSE IF \E d \in Dims(a) : IsEmptyItv(p[d]) THEN SetBottom(a)
     ELSE With(a, p)

BoxJoin(a, b) ==
  IF a.null THEN b
  ELSE IF b.null THEN a
  ELSE With(a, [d \in Dims(a) |-> ItvJoin(a.p[d], b.p[d])])

(* box_widening; with an empty second argument and a first one that is not *)
(* empty it reads through NULL, because the assertion is compiled out.     *)
WideningCrashes(a, b) == ~a.null /\ b.null /\ Dims(a) # {}
BoxWidening(a, b) ==
  IF a.null THEN b
  ELSE With(a, [d \in Dims(a) |-> ItvWidening(a.p[d], b.p[d])])

(* box_meet_lincons_array.                                                 *)
BoxMeetLincons(a, cons) ==
  LET narrowed(boxized) == IF boxized.empty THEN SetBottom(a)
                            ELSE With(a, [d \in Dims(a) |-> boxized.p[d]])
      met(reduced) == IF reduced = <<FalseCons>> THEN SetBottom(a)
                      ELSE narrowed(Boxize(reduced, a.p, a.int))
  IN IF a.null THEN a ELSE met(ReduceArray([i \in DOMAIN cons |-> ReduceInteger(cons[i], a.int)]))

BoxSatLincons(a, c) ==
  a.null \/ EvalCst(Lincons(c.typ, LinCst(EvalLin(c.lin, a.p)))) = "true"

(* ap_abstract0_widening_threshold: the constraints that the second        *)
(* argument satisfies hold of the result too.                              *)
WideningThreshold(a, b, cons) ==
  LET holds == Ascending({i \in DOMAIN cons : BoxSatLincons(b, cons[i])})
      kept  == [k \in DOMAIN holds |-> cons[holds[k]]]
  IN IF holds = << >> THEN BoxWidening(a, b) ELSE BoxMeetLincons(BoxWidening(a, b), kept)

(* box_meet_tcons_array, the algorithm that is used by default.            *)
BoxMeetTcons(a, tcons) ==
  IF a.null THEN a ELSE BoxMeetLincons(a, LinearizeArray(tcons, a.p, a.int))

(* box_assign_texpr_array: the assignments are simultaneous.               *)
BoxAssignTexpr(a, dims, exprs) ==
  LET step[k \in 0 .. Len(dims)] ==
        IF k = 0 THEN a.p ELSE [step[k - 1] EXCEPT ![dims[k]] = EvalTexpr(exprs[k], a.p)]
  IN IF a.null THEN a ELSE With(a, step[Len(dims)])

(* box_add_ray: a ray is a coefficient per dimension, a line goes both ways. *)
BoxAddRay(a, line, ray) ==
  LET opened(d) ==
        IF d \notin DOMAIN ray \/ ray[d] = 0 THEN a.p[d]
        ELSE Itv(IF ray[d] < 0 \/ line THEN PlusOo ELSE a.p[d].inf,
                 IF ray[d] > 0 \/ line THEN PlusOo ELSE a.p[d].sup)
  IN IF a.null THEN a ELSE With(a, [d \in Dims(a) |-> opened(d)])

(* box_forget_array.                                                       *)
BoxForget(a, dims, project) ==
  IF a.null THEN a
  ELSE With(a, [d \in Dims(a) |-> IF d \notin dims THEN a.p[d]
                                  ELSE IF project THEN ItvInt(0) ELSE ItvTop])

-----------------------------------------------------------------------------
(* A change of dimensions is a sorted sequence: before which dimension a   *)
(* new one goes, or which dimensions go.                                   *)
(* The copy runs down from the last dimension; the new ones in front of    *)
(* dimension i are filled after i has been moved.                          *)
Shift(change, i) == Cardinality({k \in DOMAIN change : change[k] <= i})

BoxAddDimensions(a, change, ints, project) ==
  LET n == a.int + a.real + Len(change)
      moved == {<<i + Shift(change, i), i>> : i \in Dims(a)}
      fresh == IF project THEN ItvInt(0) ELSE ItvTop
  IN IF a.null THEN BoxBottom(a.int + ints, a.real + Len(change) - ints)
     ELSE Box(a.int + ints, a.real + Len(change) - ints,
              [d \in 0 .. (n - 1) |-> IF \E m \in moved : m[1] = d
                                      THEN a.p[(CHOOSE m \in moved : m[1] = d)[2]] ELSE fresh])

(* box_remove_dimensions: the dimensions that stay, in order.              *)
BoxRemoveDimensions(a, change, ints) ==
  LET stay == Dims(a) \ ToSet(change)
  IN IF a.null THEN BoxBottom(a.int - ints, a.real - (Len(change) - ints))
     ELSE Box(a.int - ints, a.real - (Len(change) - ints),
              [d \in 0 .. (Cardinality(stay) - 1) |-> a.p[Nth(d, stay)]])

(* Slip for BoxPermute: the permutation is read the other way round.       *)
BoxPermuteInverse(a, perm) ==
  IF a.null THEN a ELSE With(a, [d \in Dims(a) |-> a.p[perm[d]]])

(* box_permute_dimensions: perm is where each dimension goes.              *)
BoxPermute(a, perm) ==
  IF a.null THEN a
  ELSE With(a, [d \in Dims(a) |-> a.p[CHOOSE i \in Dims(a) : perm[i] = d]])

(* box_expand: n copies of a dimension, after the last one of its type.    *)
BoxExpand(a, dim, n) ==
  LET ints == IF dim < a.int THEN n ELSE 0
      offset == IF dim < a.int THEN a.int ELSE a.int + a.real
      wide == BoxAddDimensions(a, [k \in 1 .. n |-> offset], ints, FALSE)
  IN IF a.null THEN BoxBottom(a.int + ints, a.real + n - ints)
     ELSE With(wide, [d \in Dims(wide) |-> IF d \in offset .. (offset + n - 1)
                                           THEN wide.p[dim] ELSE wide.p[d]])

(* box_fold: the dimensions are joined into the first of them.             *)
BoxFold(a, tdim) ==
  LET ints == IF tdim[1] < a.int THEN Len(tdim) - 1 ELSE 0
      joined[k \in 1 .. Len(tdim)] ==
        IF k = 1 THEN a.p[tdim[1]] ELSE ItvJoin(joined[k - 1], a.p[tdim[k]])
  IN IF a.null THEN BoxBottom(a.int - ints, a.real - (Len(tdim) - 1 - ints))
     ELSE BoxRemoveDimensions(With(a, [a.p EXCEPT ![tdim[1]] = joined[Len(tdim)]]), Tail(tdim), ints)

-----------------------------------------------------------------------------
(* The integer points of a box within a window: what the box stands for,   *)
(* as far as it can be seen.                                               *)
InBox(pt, a) == ~a.null /\ \A d \in Dims(a) : InItv(pt[d], a.p[d])
=============================================================================
