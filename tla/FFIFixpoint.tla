---------------------------- MODULE FFIFixpoint ----------------------------
(***************************************************************************)
(* FFIChecker's analysis of one function: the work list of                 *)
(* FuncAnalysis::iterate_to_fixpoint                                       *)
(* (src/tools/FFIChecker/src/analysis/taint_analysis.rs).                  *)
(*                                                                         *)
(* A block is analysed from the states its predecessors left behind, and   *)
(* its result overwrites the previous one.  Only then the loop looks at    *)
(* the predecessors again, and when their join is not below the one it     *)
(* remembers it queues the successors.  The loop also gives up after a     *)
(* fixed number of steps.                                                  *)
(*                                                                         *)
(* The state of a block is a set of facts, joined by union and compared    *)
(* by inclusion: FFIDomain shows that the five memory states are such      *)
(* sets, and FFIBlock what the aliases between variables change.           *)
(***************************************************************************)
EXTENDS Naturals, Sequences, FiniteSets

CONSTANTS
  NumBlocks,     \* basic blocks of the function, the first is its entry
  Fact,          \* what can be known of a variable
  Transfer,      \* effects that a block can have on a state
  MaxIteration,  \* MAX_ITERATION, 200 in the code
  None           \* no state is stored for a block

State == SUBSET Fact
Block == 0 .. NumBlocks - 1

ASSUME FFIFixpointAssumption ==
  /\ NumBlocks \in Nat
  /\ MaxIteration \in Nat
  /\ IsFiniteSet(Fact)
  /\ Transfer \subseteq [State -> State]
  /\ \A s \in State : s # None

VARIABLES
  succ,       \* control-flow graph, fixed by the function
  effect,     \* what analysing a block does to a state, fixed by its code
  init,       \* init_state, what the caller knows of the arguments
  worklist,
  post,       \* taint_domain, a block that is not in it holds no fact
  old,        \* old_state
  ret,        \* ret_state, read off the state of the returning block
  iteration,
  done        \* the loop was left

vars == <<succ, effect, init, worklist, post, old, ret, iteration, done>>
function == <<succ, effect, init>>

(* get_state_from_predecessors over the stored states d.                   *)
FromPredecessors(d, b) == UNION {d[p] : p \in {q \in Block : b \in succ[q]}}

(* The condition analyze_basic_block starts from: the entry block has the  *)
(* state of the call.                                                      *)
PreCondition(d, b) == IF b = 0 THEN init ELSE FromPredecessors(d, b)

(* A block without successors ends in a return; the others (unreachable,   *)
(* resume) leave ret_state alone and are left out.                         *)
Returns(b) == succ[b] = {}

(* The orders in which the blocks of S may be appended to the work list.   *)
Orders(S) ==
  {q \in [1 .. Cardinality(S) -> S] : \A x \in S : \E i \in DOMAIN q : q[i] = x}

TypeOK ==
  /\ succ \in [Block -> SUBSET (Block \ {0})]
  /\ effect \in [Block -> Transfer]
  /\ init \in State
  /\ worklist \in Seq(Block)
  /\ post \in [Block -> State]
  /\ old \in [Block -> {None} \union State]
  /\ ret \in State
  /\ iteration \in 0 .. MaxIteration + 1
  /\ done \in BOOLEAN

-----------------------------------------------------------------------------
(* In LLVM the entry block has no predecessor.                             *)
Init ==
  /\ succ \in [Block -> SUBSET (Block \ {0})]
  /\ effect \in [Block -> Transfer]
  /\ init \in State
  /\ worklist = [i \in 1 .. NumBlocks |-> i - 1]
  /\ post = [b \in Block |-> {}]
  /\ old = [b \in Block |-> None]
  /\ ret = {}
  /\ iteration = 0
  /\ done = FALSE

(* Slip: the pre-condition is gathered along the edges backwards.          *)
AnalysedFromSuccessors(b) ==
  [post EXCEPT ![b] = effect[b][IF b = 0 THEN init ELSE UNION {post[q] : q \in succ[b]}]]

(* Stored states after an analysis of block b.                             *)
Analysed(b) == [post EXCEPT ![b] = effect[b][PreCondition(post, b)]]

(* Slip: a block is settled once something is remembered for it.           *)
CoveredOnce(b) == old[b] # None

(* Slip: the join has to be strictly smaller than the remembered one.      *)
CoveredStrictly(b) ==
  old[b] # None /\ FromPredecessors(Analysed(b), b) \in SUBSET old[b] \ {old[b]}

(* The predecessors, looked at after the analysis, brought nothing new.    *)
Covered(b) == old[b] # None /\ FromPredecessors(Analysed(b), b) \subseteq old[b]

(* Slip: only the steps that change nothing are counted.                   *)
AnalyseUncounted(b) ==
  /\ post' = Analysed(b)
  /\ ret' = IF Returns(b) THEN post'[b] ELSE ret
  /\ iteration' = IF Covered(b) THEN iteration + 1 ELSE iteration
  /\ done' = (iteration' > MaxIteration)
  /\ UNCHANGED function

(* What every step of the loop does for the block it popped.               *)
Analyse(b) ==
  /\ post' = Analysed(b)
  /\ ret' = IF Returns(b) THEN post'[b] ELSE ret
  /\ iteration' = iteration + 1
  /\ done' = (iteration' > MaxIteration)
  /\ UNCHANGED function

(***************************************************************************)
(* One step of the loop.                                                   *)
(***************************************************************************)
(* The join of the predecessors grew: remember it, queue the successors.   *)
Grow ==
  /\ ~ done
  /\ worklist # << >>
  /\ LET b == Head(worklist) IN
       /\ ~ Covered(b)
       /\ Analyse(b)
       /\ old' = [old EXCEPT ![b] = FromPredecessors(post', b)]
       /\ \E q \in Orders(succ[b]) : worklist' = Tail(worklist) \o q

(* Nothing new came in: the result is stored, nobody is told.              *)
Settle ==
  /\ ~ done
  /\ worklist # << >>
  /\ LET b == Head(worklist) IN
       /\ Covered(b)
       /\ Analyse(b)
       /\ worklist' = Tail(worklist)
       /\ UNCHANGED old

Drained ==
  /\ ~ done
  /\ worklist = << >>
  /\ done' = TRUE
  /\ UNCHANGED <<function, worklist, post, old, ret, iteration>>

Next == Grow \/ Settle \/ Drained

Spec == Init /\ [][Next]_vars /\ WF_vars(Next)

(* get_state_after_call: the join of what the returning blocks hold.       *)
StateAfterCall == UNION {post[b] : b \in {r \in Block : Returns(r)}}

-----------------------------------------------------------------------------
(***************************************************************************)
(* Properties.                                                             *)
(***************************************************************************)
Queued(b) == \E i \in 1 .. Len(worklist) : worklist[i] = b

(* Effects that keep the order of the states.                              *)
MonotoneEffects ==
  \A b \in Block : \A s, t \in State : s \subseteq t => effect[b][s] \subseteq effect[b][t]

NoSelfLoops == \A b \in Block : b \notin succ[b]

(* The states that are consistent with every block and every edge.         *)
Solution(x) == \A b \in Block : effect[b][PreCondition(x, b)] \subseteq x[b]

(* A block that waits for no further analysis has seen everything its      *)
(* predecessors hold now, and its result is the effect of exactly that.    *)
NoChangeMissed ==
  MonotoneEffects /\ NoSelfLoops =>
    \A b \in Block : ~ Queued(b) =>
      /\ old[b] = FromPredecessors(post, b)
      /\ post[b] = effect[b][PreCondition(post, b)]

(* A loop that drains its work list leaves a solution behind.              *)
FixedPointReached ==
  MonotoneEffects /\ NoSelfLoops /\ done /\ worklist = << >> => Solution(post)

(* Nothing is stored that some solution could do without, whenever the     *)
(* loop is left and with loops of one block too: a report is never due to  *)
(* the order of the work list.                                             *)
NothingInvented ==
  MonotoneEffects => \A x \in [Block -> State] :
    Solution(x) => \A b \in Block : post[b] \subseteq x[b]

(* The number of steps a monotone function takes is bounded by what its    *)
(* blocks can learn: every block once, and the successors of a block each  *)
(* time its predecessors taught it one more fact.                          *)
Edges == {e \in Block \X Block : e[2] \in succ[e[1]]}
StepsAreBounded ==
  MonotoneEffects =>
    iteration <= NumBlocks + (Cardinality(Fact) + 1) * Cardinality(Edges)

(* The loop ends for every function, whatever its blocks do.               *)
Terminates == <>done
=============================================================================
