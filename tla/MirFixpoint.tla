----------------------------- MODULE MirFixpoint -----------------------------
(***************************************************************************)
(* The fixed-point iterator of mirchecker: WtoFixPointIterator in          *)
(* src/tools/mirchecker/src/analysis/mir_visitor/body_visitor.rs, with the *)
(* switch of block_visitor.rs and the interval domain of                   *)
(* numerical/apron_domain.rs.                                              *)
(*                                                                         *)
(* A function has one integer variable.  A block changes it and then goes  *)
(* on, or switches on it.  The iterator walks the weak topological order,  *)
(* given by Schedule: a block outside the circles is analysed once, a      *)
(* circle until the state before its head grows no more, and then some     *)
(* times more to narrow that state.                                        *)
(***************************************************************************)
EXTENDS Integers, Sequences, FiniteSets

CONSTANTS
  Large,               \* the integers are 0 .. Large, where Large stands for all from it on
  Functions,           \* the functions to analyse
  InitVals,            \* the values the variable may have at the start
  WideningDelay, NarrowingIteration,   \* AnalysisOption
  Schedule(_)          \* the flat order of a graph (see MirWto)

Value == 0 .. Large

(* The blocks of a function, the first of them 0.  A switch has a branch   *)
(* for each of its cases, and one for otherwise.                           *)
FunctionOK(f) ==
  /\ IsFiniteSet(DOMAIN f) /\ 0 \in DOMAIN f
  /\ \A b \in DOMAIN f :
       /\ f[b].does \in {"inc", "zero", "keep"}
       /\ f[b].cases \in Seq(SUBSET Value) /\ f[b].next \in Seq(DOMAIN f)
       /\ f[b].cases # << >> => Len(f[b].next) = Len(f[b].cases) + 1

Leads(f, b) == {f[b].next[i] : i \in DOMAIN f[b].next}

ASSUME MirFixpointAssumption ==
  /\ Large \in Nat /\ WideningDelay \in Nat /\ NarrowingIteration \in Nat
  /\ InitVals # {} /\ InitVals \subseteq Value
  /\ \A f \in Functions : FunctionOK(f)

VARIABLES
  code,      \* the function: what each block does, and its branch
  order,     \* its weak topological order
  pos,       \* the place in the order that is to be visited
  active,    \* the circles being iterated, the innermost last
  iter,      \* WtoCircle::num_iter of each circle, up to IterCap
  post       \* the post conditions known so far

walkVars == <<code, order, pos, active, iter, post>>

Blocks == DOMAIN code
Succ(b) == Leads(code, b)

-----------------------------------------------------------------------------
(* The interval domain.                                                    *)

Least(S) == CHOOSE v \in S : \A w \in S : v <= w
Most(S) == CHOOSE v \in S : \A w \in S : w <= v
Hull(S) == IF S = {} THEN {} ELSE Least(S) .. Most(S)

(* Widening: a bound that moved is given up.                               *)
Widened(a, b) ==
  IF a = {} \/ b = {} THEN a \union b
  ELSE (IF Least(b) < Least(a) THEN 0 ELSE Least(a)) ..
         (IF Most(b) > Most(a) THEN Large ELSE Most(a))

NoExits == [b \in {} |-> {}]

(* The state of the analysis: an interval, and for some blocks the         *)
(* condition under which they are next.  Every operation on two states     *)
(* forgets the conditions.                                                 *)
Plain(S) == [val |-> S, exits |-> NoExits]
Join(s, t) == Plain(Hull(s.val \union t.val))
Meet(s, t) == Plain(s.val \intersect t.val)
WideningWith(s, t) == Plain(Widened(s.val, t.val))
NarrowingWith(s, t) == Meet(s, t)
IsBottom(s) == s.val = {}

(* Slip for Leq: only equal states are a fixed point.                      *)
LeqSame(s, t) == s.val = t.val

Leq(s, t) == s.val \subseteq t.val

-----------------------------------------------------------------------------
(* Blocks.                                                                 *)

Changed(does, v) ==
  CASE does = "inc" -> IF v = Large THEN Large ELSE v + 1
    [] does = "zero" -> 0
    [] does = "keep" -> v

Image(b, S) == {Changed(code[b].does, v) : v \in S}

(* The values that take the i-th branch out of b; the last one is the      *)
(* otherwise of the switch, or the only one of a goto.                     *)
Taken(b, i) ==
  LET cases == code[b].cases
  IN IF i <= Len(cases) THEN cases[i] \ UNION {cases[j] : j \in 1 .. i - 1}
     ELSE Value \ UNION {cases[j] : j \in DOMAIN cases}

(* visit_switch_int: each target gets its condition, a later branch to the *)
(* same block replaces the one before it, and what the state came with for *)
(* other blocks stays.                                                     *)
Inserted(b, t) ==
  IF \E i \in DOMAIN code[b].next : code[b].next[i] = t
  THEN LET i == Most({j \in DOMAIN code[b].next : code[b].next[j] = t})
       IN IF i <= Len(code[b].cases) THEN code[b].cases[i] ELSE Taken(b, i)
  ELSE {}

SwitchInt(b, exits) ==
  IF code[b].cases = << >> THEN exits
  ELSE [t \in DOMAIN exits \union Succ(b) |->
          IF t \in Succ(b) THEN Inserted(b, t) ELSE exits[t]]

(* analyze_basic_block.                                                    *)
PostOf(b, pre) ==
  IF IsBottom(pre) THEN pre
  ELSE [val |-> Hull(Image(b, pre.val)), exits |-> SwitchInt(b, pre.exits)]

AnalyzeBasicBlock(b, pre) ==
  [c \in DOMAIN post \union {b} |-> IF c = b THEN PostOf(b, pre) ELSE post[c]]

(* What the post condition of a block says of its successor b.             *)
Refined(s, b) ==
  IF b \in DOMAIN s.exits THEN [s EXCEPT !.val = Hull(@ \intersect s.exits[b])] ELSE s

(* The edges into b from blocks that have a post condition; a block that   *)
(* branches to b twice is two predecessors.                                *)
EdgesInto(b) ==
  UNION {{<<u, i>> : i \in {i \in DOMAIN code[u].next : code[u].next[i] = b}} : u \in DOMAIN post}

(* get_state_from_predecessors: a state that comes from one edge keeps its *)
(* exit conditions.                                                        *)
FromPredecessors(b) ==
  LET states == {Refined(post[e[1]], b) : e \in EdgesInto(b)}
  IN IF \E e \in EdgesInto(b) : EdgesInto(b) = {e} THEN CHOOSE s \in states : TRUE
     ELSE Plain(Hull(UNION {s.val : s \in states}))

PreOf(b) == IF b = 0 THEN Plain(Hull(InitVals)) ELSE FromPredecessors(b)

-----------------------------------------------------------------------------
(* The walk over the order.                                                *)

IterCap == (IF WideningDelay < 2 THEN 2 ELSE WideningDelay) + 1
RoundCap == WideningDelay + NarrowingIteration + 6
UpTo(cap, n) == IF n > cap THEN cap ELSE n

Circle == active[Len(active)]
Outer == SubSeq(active, 1, Len(active) - 1)
HeadBlock == order[Circle.at].block
InCircle == active # << >> /\ pos <= Circle.at + order[Circle.at].size
CircleEnds == active # << >> /\ ~ InCircle
Visiting == ~ CircleEnds /\ pos <= Len(order)
Done == active = << >> /\ pos > Len(order)

WalkInit ==
  /\ code \in Functions
  /\ order = Schedule([b \in Blocks |-> code[b].next])
  /\ pos = 1
  /\ active = << >>
  /\ iter = [i \in {i \in DOMAIN order : order[i].loop} |-> 0]
  /\ post = [b \in {} |-> Plain({})]

(* visit_vertex.                                                           *)
VisitVertex ==
  /\ Visiting /\ ~ order[pos].loop
  /\ \E pre \in {PreOf(order[pos].block)} : post' = AnalyzeBasicBlock(order[pos].block, pre)
  /\ pos' = pos + 1
  /\ UNCHANGED <<code, order, active, iter>>

(* visit_circle, up to the end of the first analysis of the head.          *)
VisitCircle ==
  /\ Visiting /\ order[pos].loop
  /\ \E pre \in {PreOf(order[pos].block)} :
        /\ active' = Append(active, [at |-> pos, pre |-> pre, narrowing |-> FALSE, round |-> 1])
        /\ post' = AnalyzeBasicBlock(order[pos].block, pre)
  /\ iter' = [iter EXCEPT ![pos] = UpTo(IterCap, @ + 1)]
  /\ pos' = pos + 1
  /\ UNCHANGED <<code, order>>

NewPre == FromPredecessors(HeadBlock)

(* The head is analysed again with pre, and the body is to follow.         *)
Again(pre, narrowing, round) ==
  /\ active' = Append(Outer, [at |-> Circle.at, pre |-> pre, narrowing |-> narrowing,
                              round |-> UpTo(RoundCap, round)])
  /\ post' = AnalyzeBasicBlock(HeadBlock, pre)
  /\ pos' = Circle.at + 1
  /\ UNCHANGED <<code, order>>

LeaveCircle ==
  /\ active' = Outer
  /\ UNCHANGED <<code, order, pos, iter, post>>

Extrapolate(i, before, after) ==
  IF iter[i] <= WideningDelay THEN Join(before, after) ELSE WideningWith(before, after)

Refine(i, before, after) ==
  IF iter[i] = 1 THEN Meet(before, after) ELSE NarrowingWith(before, after)

(* No fixed point yet.                                                     *)
Grow ==
  /\ CircleEnds /\ ~ Circle.narrowing /\ ~ Leq(NewPre, Circle.pre)
  /\ \E pre \in {Extrapolate(Circle.at, Circle.pre, NewPre)} : Again(pre, FALSE, Circle.round + 1)
  /\ iter' = [iter EXCEPT ![Circle.at] = UpTo(IterCap, @ + 1)]

(* Slip for Stabilise: the states are compared the other way around.       *)
StabiliseConverse ==
  /\ CircleEnds /\ ~ Circle.narrowing /\ Leq(Circle.pre, NewPre)
  /\ IF NarrowingIteration = 0 THEN LeaveCircle
     ELSE Again(Circle.pre, TRUE, 1) /\ UNCHANGED iter

(* A fixed point: narrowing begins, if there is to be any.                 *)
Stabilise ==
  /\ CircleEnds /\ ~ Circle.narrowing /\ Leq(NewPre, Circle.pre)
  /\ IF NarrowingIteration = 0 THEN LeaveCircle
     ELSE Again(Circle.pre, TRUE, 1) /\ UNCHANGED iter

(* The state before the head can be refined, and there is a round left.    *)
Narrow ==
  /\ CircleEnds /\ Circle.narrowing /\ ~ Leq(Circle.pre, NewPre)
  /\ Circle.round < NarrowingIteration
  /\ \E pre \in {Refine(Circle.at, Circle.pre, NewPre)} : Again(pre, TRUE, Circle.round + 1)
  /\ UNCHANGED iter

(* Narrowing ends: nothing is left to refine, or no round.                 *)
EndNarrowing ==
  /\ CircleEnds /\ Circle.narrowing
  /\ Leq(Circle.pre, NewPre) \/ Circle.round = NarrowingIteration
  /\ LeaveCircle

WalkNext ==
  \/ VisitVertex \/ VisitCircle
  \/ Grow \/ Stabilise \/ Narrow \/ EndNarrowing

WalkSpec == WalkInit /\ [][WalkNext]_walkVars /\ WF_walkVars(WalkNext)

-----------------------------------------------------------------------------
(* Types, and the shape of the active circles: each lies within the one    *)
(* around it, and the place in the order lies within the innermost.        *)
WalkTypeOK ==
  /\ \A b \in DOMAIN post :
       /\ b \in Blocks /\ post[b].val \subseteq Value
       /\ post[b].val = Hull(post[b].val)
       /\ DOMAIN post[b].exits \subseteq Blocks
  /\ \A i \in DOMAIN active :
       /\ order[active[i].at].loop
       /\ active[i].at < pos /\ pos <= active[i].at + order[active[i].at].size + 1
       /\ i > 1 => LET outer == active[i - 1].at
                   IN outer < active[i].at /\ active[i].at <= outer + order[outer].size
  /\ iter \in [DOMAIN iter -> 0 .. IterCap]

(* The blocks of M that the blocks of S lead to inside M, S included.      *)
From(f, S, M) ==
  {b \in M : \A R \in SUBSET M :
     S \intersect M \subseteq R /\ (\A c \in R : Leads(f, c) \intersect M \subseteq R) => b \in R}

(* The places of the circle at place i, and its blocks.                    *)
Within(o, i) == i .. i + o[i].size
Members(o, i) == {o[j].block : j \in Within(o, i)}

Edge(f, o, i, j) == o[j].block \in Leads(f, o[i].block)

(* The order has every block that can be reached, once, the first block    *)
(* first and any other behind a block that leads to it.  Circles are       *)
(* nested.  An edge that leads back in the order leads to the head of a    *)
(* circle its source is in, and all blocks of a circle lead to its head,   *)
(* so it really is a loop.                                                 *)
WeakOrder(f, o) ==
  LET places == DOMAIN o
  IN /\ o \in Seq([block : DOMAIN f, loop : BOOLEAN, size : Nat])
     /\ {o[i].block : i \in places} = From(f, {0}, DOMAIN f)
     /\ \A i, j \in places : o[i].block = o[j].block => i = j
     /\ \A j \in places : IF j = 1 THEN o[j].block = 0 ELSE \E i \in 1 .. j - 1 : Edge(f, o, i, j)
     /\ \A i \in places : i + o[i].size <= Len(o) /\ (o[i].loop \/ o[i].size = 0)
     /\ \A i, j \in places : j \in Within(o, i) => j + o[j].size <= i + o[i].size
     /\ \A i, j \in places : Edge(f, o, i, j) /\ j <= i => o[j].loop /\ i <= j + o[j].size
     /\ \A i \in places : o[i].loop =>
          \A b \in Members(o, i) : o[i].block \in From(f, Leads(f, b), Members(o, i))

(* Wto::new finds a weak topological order by visiting the body of each    *)
(* circle a second time, and the iterator relies on it: a state that comes *)
(* around is seen again only at the head of a circle.                      *)
OrderIsWeak == pos = 1 => WeakOrder(code, order)

(* A block other than the first is only visited when a predecessor has a   *)
(* post condition: get_state_from_predecessors panics on none (fold1 ...   *)
(* expect).                                                                *)
AlwaysAPredecessor ==
  /\ Visiting /\ order[pos].block # 0 => EdgesInto(order[pos].block) # {}
  /\ CircleEnds => EdgesInto(HeadBlock) # {}

(* The circle grows a bounded number of times on each visit, whatever the  *)
(* integers: the delay, and then each bound is given up at most once, and  *)
(* once the state ceases to be bottom, which a join does as well.          *)
RoundsAreBounded ==
  \A i \in DOMAIN active : ~ active[i].narrowing =>
    active[i].round <= (IF WideningDelay = 0 THEN 1 ELSE WideningDelay) + 3

(* The iteration follows a weak topological order, never visits a block    *)
(* that nothing leads to, and stays within its rounds, in circles inside   *)
(* circles too.                                                            *)
IterationOK ==
  /\ WalkTypeOK
  /\ OrderIsWeak
  /\ AlwaysAPredecessor
  /\ RoundsAreBounded

-----------------------------------------------------------------------------
(* What the function really does: the blocks it can be in, each with the   *)
(* values it can be entered with.                                          *)
StepsFrom(p) ==
  LET v == Changed(code[p[1]].does, p[2])
  IN {<<code[p[1]].next[i], v>> : i \in {i \in DOMAIN code[p[1]].next : v \in Taken(p[1], i)}}

MoreOf(R) == R \union UNION {StepsFrom(p) : p \in R}

Closure[R \in SUBSET (Blocks \X Value)] ==
  IF MoreOf(R) = R THEN R ELSE Closure[MoreOf(R)]

Reachable == Closure[{0} \X InitVals]

(* No state carries the condition of a switch past its own targets: a      *)
(* switch has different targets, and who else leads to one of them cannot  *)
(* be reached from the switch.  The first block has no predecessor.        *)
NoStrayCondition ==
  /\ \A b \in Blocks : 0 \notin Succ(b)
  /\ \A b \in {b \in Blocks : code[b].cases # << >>} :
       /\ \A i, j \in DOMAIN code[b].next : code[b].next[i] = code[b].next[j] => i = j
       /\ \A u \in From(code, Succ(b), Blocks) \ {b} : Succ(u) \intersect Succ(b) = {}

(* When the analysis is over, the post condition of each block allows all  *)
(* the values it can be left with: through widening, the rounds of         *)
(* narrowing, and the circles inside circles that keep the post conditions *)
(* and the iteration count of their last visit.                            *)
Sound ==
  Done /\ NoStrayCondition =>
    LET R == Reachable
    IN \A p \in R : Changed(code[p[1]].does, p[2]) \in post[p[1]].val

(* The analysis of every function ends.                                    *)
WalkEnds == <>Done
=============================================================================
