----------------------------- MODULE Collecting -----------------------------
(***************************************************************************)
(* What an abstract value of a numerical domain promises: it stands for a  *)
(* set of points, and an operation on it keeps at least the points that    *)
(* the operation can lead to.  It may keep more.                           *)
(*                                                                         *)
(* A point gives an integer to each variable.  now is the set of points of *)
(* the current value, kept that of a value put aside, last the operation   *)
(* that was done last.  Only the points whose coordinates are in Window    *)
(* are looked at.                                                          *)
(***************************************************************************)
EXTENDS Bits, Sequences

CONSTANTS
  Window,  \* the integers a coordinate is looked at for
  Ops      \* the operations, records whose field "do" names the operation

VARIABLES last, now, kept

vars == <<last, now, kept>>

-----------------------------------------------------------------------------
(* The values of a tree expression at a point.  A quotient is rounded as   *)
(* the node says, or to either of the two integers next to it; the         *)
(* remainder has the sign of the dividend.                                 *)
Quotients(a, b, dir) ==
  LET n == IF b < 0 THEN -a ELSE a
      d == IF b < 0 THEN -b ELSE b
      down == n \div d
      up == -((-n) \div d)
  IN CASE dir = "DOWN" -> {down}
       [] dir = "UP"   -> {up}
       [] dir = "ZERO" -> {IF n < 0 THEN up ELSE down}
       [] OTHER        -> {down, up}

Magn(n) == IF n < 0 THEN -n ELSE n
Remainder(a, b) == IF a < 0 THEN -((-a) % Magn(b)) ELSE a % Magn(b)

Apply(n, a, b) ==
  CASE n.op = "NEG"  -> {-a}
    [] n.op = "CAST" -> {a}
    [] n.op = "ADD"  -> {a + b}
    [] n.op = "SUB"  -> {a - b}
    [] n.op = "MUL"  -> {a * b}
    [] n.op = "DIV"  -> IF b = 0 THEN {} ELSE Quotients(a, b, n.dir)
    [] n.op = "MOD"  -> IF b = 0 THEN {} ELSE {Remainder(a, b)}
    [] n.op = "SHL"  -> IF b < 0 THEN {} ELSE {ShiftLeft(a, b)}
    [] n.op = "SHR"  -> IF b < 0 THEN {} ELSE {ShiftRight(a, b)}
    [] OTHER         -> {Bitwise(n.op, a, b)}

(* A constant is the interval of the integers from lo to hi.               *)
Values(expr, pt) ==
  LET val[i \in DOMAIN expr] ==
        LET n == expr[i]
        IN CASE n.op = "CST" -> n.ints
             [] n.op = "DIM" -> {pt[n.dim]}
             [] n.op \in {"NEG", "CAST"} -> UNION {Apply(n, a, a) : a \in val[n.a]}
             [] OTHER -> UNION {Apply(n, a, b) : a \in val[n.a], b \in val[n.b]}
  IN val[Len(expr)]

Satisfies(v, typ) ==
  CASE typ = "EQ"    -> v = 0
    [] typ = "DISEQ" -> v # 0
    [] typ = "SUPEQ" -> v >= 0
    [] typ = "SUP"   -> v > 0
    [] typ = "INFEQ" -> v <= 0
    [] typ = "INF"   -> v < 0

Holds(c, pt) == \E v \in Values(c.expr, pt) : Satisfies(v, c.typ)

-----------------------------------------------------------------------------
Inside(S) == {pt \in S : \A x \in DOMAIN pt : pt[x] \in Window}

(* The points that an operation leads to from the points of S.             *)
Assigned(S, targets, exprs) ==
  UNION {{[x \in DOMAIN pt |-> IF \E k \in DOMAIN targets : targets[k] = x
                               THEN v[CHOOSE k \in DOMAIN targets : targets[k] = x] ELSE pt[x]] :
            v \in {w \in [DOMAIN targets -> Window] : \A k \in DOMAIN targets : w[k] \in Values(exprs[k], pt)}} :
          pt \in S}

Filtered(S, cons) == {pt \in S : \A k \in DOMAIN cons : Holds(cons[k], pt)}

(* Each variable in xs takes any value.                                    *)
Forgotten(S, xs) ==
  UNION {{[x \in DOMAIN pt |-> IF x \in xs THEN f[x] ELSE pt[x]] : f \in [xs -> Window]} : pt \in S}

(* The variable x of the new points is from[x] of the old ones, or free.   *)
Renamed(S, from, free) ==
  UNION {{[x \in DOMAIN from |-> IF from[x] \in DOMAIN pt THEN pt[from[x]] ELSE f[x]] :
            f \in [{x \in DOMAIN from : from[x] \notin DOMAIN pt} -> free]} : pt \in S}

(* New variables repeat old ones, each with a value of its own that goes   *)
(* with the other variables.                                               *)
Expanded(S, all, copies) ==
  {q \in [all -> Window] :
     \A x \in DOMAIN copies :
       LET pt == [y \in all \ DOMAIN copies |-> q[y]]
       IN pt \in S /\ [pt EXCEPT ![copies[x]] = q[x]] \in S}

(* The first variable of xs takes the value of one of them.                *)
Folded(S, xs, from) ==
  UNION {Renamed({[pt EXCEPT ![xs[1]] = pt[xs[k]]] : k \in DOMAIN xs}, from, {}) : pt \in S}

(* Along a ray coordinates grow without end, along a line both ways.       *)
Along(S, ray, line) ==
  UNION {{q \in [DOMAIN pt -> Window] :
            \E t \in Window :
              /\ line \/ t >= 0
              /\ \A x \in DOMAIN pt : q[x] = pt[x] + (IF x \in DOMAIN ray THEN t * ray[x] ELSE 0)} : pt \in S}

Reached(op) ==
  CASE op.do = "assign" -> Assigned(now, op.targets, op.exprs)
    [] op.do = "meet_tcons" -> Filtered(now, op.cons)
    [] op.do = "forget" -> Forgotten(now, op.dims)
    [] op.do = "rename" -> Forgotten(Assigned(now, op.targets, op.exprs), op.dims)
    [] op.do = "project" -> Renamed(now, [x \in op.all |-> IF x \in op.dims THEN -1 ELSE x], {0})
    [] op.do \in {"add", "remove", "permute"} -> Renamed(now, op.from, op.fresh)
    [] op.do = "expand" -> Expanded(now, op.all, op.copies)
    [] op.do = "fold" -> Folded(now, op.targets, op.from)
    [] op.do = "add_ray" -> Along(now, op.ray, op.line)
    [] op.do \in {"join", "widening"} -> now \union kept
    [] op.do \in {"meet", "narrowing"} -> now \intersect kept
    [] op.do = "threshold" -> now \union Filtered(kept, op.cons)

Init == last = [do |-> "init"]

Do(op) ==
  /\ last' = op
  /\ Inside(Reached(op)) \subseteq now'
  /\ kept' = kept

Keep == last' = [do |-> "keep"] /\ kept' = now /\ now' = now

Next == Keep \/ \E op \in Ops : Do(op)

Spec == Init /\ [][Next]_vars
=============================================================================
