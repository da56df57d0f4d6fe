----------------------------- MODULE MCApronBox -----------------------------
(***************************************************************************)
(* Boxes of two dimensions, both integer or one of them real, and the      *)
(* calls made on them.                                                     *)
(***************************************************************************)
EXTENDS ApronBoxOps

Arith(op, a, b) == Node(op, a, b, "INT", "NEAREST")
X == Dim(0)
Y == Dim(1)

Exprs ==
  {<<Cst(-1, 2)>>,
   <<X, Cst(1, 1), Arith("ADD", 1, 2)>>,
   <<X, Y, Arith("SUB", 1, 2)>>,
   <<X, Y, Arith("MUL", 1, 2)>>,
   <<X, Y, Arith("DIV", 1, 2)>>,
   <<Y, X, Arith("MOD", 1, 2)>>,
   <<X, Cst(2, 2), Arith("MUL", 1, 2), Y, Cst(-1, 1), Arith("MUL", 4, 5), Arith("SUB", 3, 6)>>,
   <<X, Cst(2, 2), Node("DIV", 1, 2, "INT", "ZERO"), Arith("NEG", 3, 3)>>}

Tcons(typ, expr) == [typ |-> typ, expr |-> expr]
Constraints ==
  {<<Tcons("SUPEQ", <<X, Y, Arith("SUB", 1, 2)>>)>>,
   <<Tcons("SUP", <<X, Arith("NEG", 1, 1), Cst(1, 1), Arith("ADD", 2, 3)>>)>>,
   <<Tcons("EQ", <<X, Cst(2, 2), Arith("MUL", 1, 2), Y, Arith("SUB", 3, 4), Cst(1, 1), Arith("ADD", 5, 6)>>)>>,
   <<Tcons("DISEQ", <<X>>), Tcons("SUPEQ", <<Y, Cst(2, 2), Arith("SUB", 1, 2)>>)>>,
   <<Tcons("SUP", <<X, Y, Arith("MUL", 1, 2)>>)>>,
   <<Tcons("SUPEQ", <<Cst(1, 2), X, Arith("MUL", 1, 2), Y, Arith("ADD", 3, 4), Cst(-3, -3), Arith("ADD", 5, 6)>>),
     Tcons("SUPEQ", <<Cst(0, 0), X, Arith("SUB", 1, 2)>>)>>,
   <<Tcons("EQ", <<X, Cst(2, 2), Arith("MOD", 1, 2)>>)>>,
   <<Tcons("EQ", <<X, Cst(2, 2), Arith("MUL", 1, 2), Cst(-3, -3), Arith("ADD", 3, 4)>>)>>}

Both == {0, 1}
Lower(c) == Lincons("SUPEQ", Lin(ItvInt(c), TRUE, [d \in {0} |-> ItvInt(1)]))
Upper(c) == Lincons("SUPEQ", Lin(ItvInt(c), TRUE, [d \in {0} |-> ItvInt(-1)]))

Calls ==
  {[do |-> "assign", uses |-> Both, targets |-> <<0>>, exprs |-> <<e>>] : e \in Exprs}
    \union {[do |-> "assign", uses |-> Both, targets |-> <<0, 1>>, exprs |-> <<<<Y>>, <<X>>>>]}
    \union {[do |-> "meet_tcons", uses |-> Both, cons |-> c] : c \in Constraints}
    \union {[do |-> "forget", uses |-> Both, dims |-> {d}] : d \in Both}
    \union {[do |-> "project", int |-> 2, real |-> 0, all |-> Both, dims |-> {1}],
            [do |-> "add", int |-> 2, real |-> 0, change |-> <<1>>, ints |-> 1, project |-> FALSE,
             from |-> 0 :> 0 @@ 1 :> -1 @@ 2 :> 1, fresh |-> Window],
            [do |-> "add", int |-> 1, real |-> 1, change |-> <<0, 2>>, ints |-> 1, project |-> TRUE,
             from |-> 0 :> -1 @@ 1 :> 0 @@ 2 :> 1 @@ 3 :> -1, fresh |-> {0}],
            [do |-> "remove", int |-> 2, real |-> 0, change |-> <<0>>, ints |-> 1,
             from |-> 0 :> 1, fresh |-> {}],
            [do |-> "remove", int |-> 3, real |-> 0, change |-> <<0, 2>>, ints |-> 2,
             from |-> 0 :> 1, fresh |-> {}],
            [do |-> "permute", int |-> 3, real |-> 0, perm |-> 0 :> 1 @@ 1 :> 2 @@ 2 :> 0,
             from |-> 0 :> 2 @@ 1 :> 0 @@ 2 :> 1, fresh |-> {}],
            [do |-> "expand", int |-> 2, real |-> 0, dim |-> 0, n |-> 1,
             all |-> 0 .. 2, copies |-> 2 :> 0],
            [do |-> "fold", int |-> 2, real |-> 0, targets |-> <<0, 1>>, from |-> 0 :> 0],
            [do |-> "add_ray", int |-> 2, real |-> 0, ray |-> 0 :> 1 @@ 1 :> -1, line |-> FALSE],
            [do |-> "add_ray", int |-> 2, real |-> 0, ray |-> 1 :> 1, line |-> TRUE],
            [do |-> "join"], [do |-> "meet"], [do |-> "widening"],
            [do |-> "threshold", uses |-> Both, cons |-> <<Tcons("SUPEQ", <<X>>)>>, lincons |-> <<Lower(0)>>],
            [do |-> "threshold", uses |-> Both,
             cons |-> <<Tcons("SUPEQ", <<Cst(2, 2), X, Arith("SUB", 1, 2)>>)>>, lincons |-> <<Upper(2)>>]}

Half(lo) == Itv(IntBound(-lo), PlusOo)
Finite(lo, hi) == Itv(IntBound(-lo), IntBound(hi))
Sides == {Finite(-2, 1), Finite(0, 2), ItvInt(1), ItvTop, Itv(PlusOo, IntBound(0)), Half(1)}

Mixed == {Box(1, 1, 0 :> ItvInt(1) @@ 1 :> ItvTop), Box(1, 1, 0 :> Half(1) @@ 1 :> Itv(<<1, 2>>, <<3, 2>>))}
Starts == {Box(2, 0, 0 :> a @@ 1 :> b) : a, b \in Sides} \union Mixed
Copies == {Box(2, 0, 0 :> Finite(0, 2) @@ 1 :> Half(-1)), Box(2, 0, 0 :> Finite(-2, 1) @@ 1 :> Finite(0, 1)), BoxBottom(2, 0)} \union Mixed

Start == Init(Starts, Copies)
Reach == -2 .. 3
Spec == Start /\ [][Next]_vars
=============================================================================
