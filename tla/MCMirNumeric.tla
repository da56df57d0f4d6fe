---------------------------- MODULE MCMirNumeric ----------------------------
(***************************************************************************)
(* Values over three paths, numbered in and out of the order of their      *)
(* names, and the statements and joins made on them.                       *)
(***************************************************************************)
EXTENDS MirNumeric

Names == <<"a", "b", "c">>
Reach == -1 .. 3

Arith(op, i, j) == Node(op, i, j, "INT", "NEAREST")
A == Dim("a")
B == Dim("b")
P == Dim("c")
Const(n) == Cst(n, n)

Set(x, expr, bits) == [do |-> "assign", bits |-> bits, targets |-> <<x>>, exprs |-> <<expr>>, dims |-> {}]

Assigns ==
  {Set("a", <<Const(1)>>, FALSE), Set("c", <<B>>, FALSE),
   Set("b", <<A, P, Arith("ADD", 1, 2)>>, FALSE),
   Set("a", <<Const(2), A, Arith("SUB", 1, 2)>>, FALSE),
   Set("c", <<A, Const(2), Arith("DIV", 1, 2)>>, FALSE),
   Set("b", <<P, Const(2), Arith("MOD", 1, 2)>>, FALSE),
   Set("c", <<A, Arith("NEG", 1, 1)>>, FALSE),
   Set("b", <<B, Const(-1), Arith("AND", 1, 2)>>, TRUE),
   Set("a", <<A, P, Arith("AND", 1, 2)>>, TRUE),
   Set("b", <<A, B, Arith("OR", 1, 2)>>, TRUE),
   Set("c", <<A, Const(3), Arith("XOR", 1, 2)>>, TRUE),
   Set("c", <<Const(1), A, Arith("SHL", 1, 2)>>, TRUE),
   Set("a", <<B, Const(1), Arith("SHR", 1, 2)>>, TRUE)}

(* A constraint as the code has it, and what it says of the paths.         *)
Says(kind, cst, terms) == [kind |-> kind, linear |-> Linear(cst, terms)]
Means(typ, expr) == [typ |-> typ, expr |-> expr]
Assume(conds, cons) == [do |-> "meet_tcons", conds |-> conds, cons |-> cons]

Assumes ==
  {Assume(<<Says("LessEq", -1, "a" :> 1)>>, <<Means("INFEQ", <<A, Const(1), Arith("SUB", 1, 2)>>)>>),
   Assume(<<Says("LessThan", 0, "c" :> 1 @@ "a" :> -1)>>, <<Means("INF", <<P, A, Arith("SUB", 1, 2)>>)>>),
   Assume(<<Says("Equality", -1, "b" :> 2 @@ "a" :> -1)>>,
          <<Means("EQ", <<B, Const(2), Arith("MUL", 1, 2), A, Arith("SUB", 3, 4), Const(1), Arith("SUB", 5, 6)>>)>>),
   Assume(<<Says("Inequality", 0, "b" :> 1), Says("LessEq", 0, "b" :> -1)>>,
          <<Means("DISEQ", <<B>>), Means("SUPEQ", <<B>>)>>),
   Assume(<<Says("LessThan", 0, << >>)>>, <<Means("INF", <<Const(0)>>)>>)}

Calls ==
  Assigns \union Assumes
    \union {[do |-> "forget", targets |-> << >>, dims |-> {v}] : v \in {"a", "b"}}
    \union {[do |-> "rename", targets |-> <<y[2]>>, exprs |-> <<<<Dim(y[1])>>>>, dims |-> {y[1]}] :
              y \in {<<"a", "c">>, <<"b", "a">>}}
    \union {[do |-> "join"], [do |-> "meet"], [do |-> "narrowing"], [do |-> "widening"]}

Finite(lo, hi) == Itv(IntBound(-lo), IntBound(hi))
From(lo) == Itv(IntBound(-lo), PlusOo)
UpTo(hi) == Itv(PlusOo, IntBound(hi))

InOrder(S, f) ==
  Value([v \in ToSet(S) |-> (CHOOSE k \in DOMAIN S : S[k] = v) - 1],
        Box(Len(S), 0, [d \in 0 .. (Len(S) - 1) |-> f[d]]))

Some  == 0 :> Finite(0, 2) @@ 1 :> From(1) @@ 2 :> UpTo(0)
Other == 0 :> ItvInt(1) @@ 1 :> Finite(-1, 1) @@ 2 :> ItvTop

Starts ==
  {Top, InOrder(<<"a">>, Some), InOrder(<<"b", "a">>, Other), InOrder(<<"b", "a">>, Some),
   InOrder(<<"a", "c">>, Some), InOrder(<<"c", "b", "a">>, Other), InOrder(<<"b", "c", "a">>, Some)}
Copies ==
  {Top, Bottom, InOrder(<<"b", "a">>, Some), InOrder(<<"b", "c">>, Other),
   InOrder(<<"a", "b", "c">>, Some), InOrder(<<"c", "a", "b">>, Other)}

Start == Init(Starts, Copies)
Spec == Start /\ [][Next]_vars
=============================================================================
