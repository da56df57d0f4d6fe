---------------------------- MODULE MCMirFixpoint ----------------------------
(***************************************************************************)
(* The functions mirchecker's iterator is checked on.                      *)
(***************************************************************************)
EXTENDS MirFixpoint, MirWto, FiniteSetsExt

Low == 0 .. 2
Block(does, cases, next) == [does |-> does, cases |-> cases, next |-> next]

(* The branches of a block: none, one, or two behind a switch on x < 3.    *)
Branches(Targets) ==
  {[cases |-> << >>, next |-> << >>]}
    \union {[cases |-> << >>, next |-> <<t>>] : t \in Targets}
    \union {[cases |-> <<Low>>, next |-> <<t, u>>] : t, u \in Targets}

With(does, branch) == Block(does, branch.cases, branch.next)

(* All graphs of four blocks that can be reached, the first one without    *)
(* predecessors; 1 and 3 do the same, so the first branch avoids 3.        *)
AllReached(g) ==
  LET one == Leads(g, 0)
      two == one \union UNION {Leads(g, b) : b \in one}
  IN UNION {Leads(g, b) : b \in two} \union two = 1 .. 3

Graphs ==
  LET B == Branches(1 .. 3)
  IN {g \in {0 :> With("keep", w) @@ 1 :> With("inc", x) @@ 2 :> With("keep", y) @@ 3 :> With("inc", z) :
               w \in {w \in B : w.next # << >> /\ w.next[1] # 3}, x, y, z \in B} : AllReached(g)}

(* A loop in a loop: 1 is the outer head, 3 the inner one, each with a     *)
(* latch, and a switch of three branches before them.                      *)
Effects == {"keep", "inc", "zero"}
Nested ==
  {0 :> Block("keep", << >>, <<1>>) @@ 1 :> Block(a, <<Low>>, <<2, 6>>) @@
   2 :> Block(b, << >>, <<3>>) @@ 3 :> Block(c, <<0 .. k>>, <<4, 5>>) @@
   4 :> Block(d, << >>, <<3>>) @@ 5 :> Block(e, << >>, <<1>>) @@
   6 :> Block("keep", << >>, << >>)
     : a, b, c, d, e \in Effects, k \in {1, 4}}

(* A match of three arms in a loop, the last arm leaves it.                *)
Matches ==
  {0 :> Block(a, << >>, <<1>>) @@ 1 :> Block("keep", <<{0}, {1}>>, <<2, 3, 4>>) @@
   2 :> Block(b, << >>, <<1>>) @@ 3 :> Block(c, << >>, <<1>>) @@ 4 :> Block("keep", << >>, << >>)
     : a, b, c \in Effects}

(* All graphs of three blocks that may lead back to the first one.         *)
EntryLoops ==
  LET B == Branches(0 .. 2)
  IN {0 :> With("keep", w) @@ 1 :> With("inc", x) @@ 2 :> With("keep", y) :
        w \in {w \in B : w.next # << >>}, x, y \in B}

All == Graphs \union EntryLoops \union Nested \union Matches

Start == {0, 1}
=============================================================================
