---------------------------- MODULE RudraTaint ----------------------------
(***************************************************************************)
(* Rudra's unsafe-dataflow check of one function body                      *)
(* (src/tools/Rudra/src/analysis/unsafe_dataflow.rs) and the taint         *)
(* propagation it runs on the control-flow graph                           *)
(* (src/tools/Rudra/src/graph.rs, TaintAnalyzer).                          *)
(*                                                                         *)
(* The checker first walks over the terminators of the body and marks the  *)
(* calls that bypass a lifetime as sources and the calls that may panic    *)
(* as sinks.  It then pushes the bypass kinds along the edges of the graph *)
(* with a FIFO work list, joins what arrived at the sinks, and reports the *)
(* join when it is severe enough.                                          *)
(***************************************************************************)
EXTENDS Naturals, Sequences, FiniteSets

CONSTANTS
  NumBlocks,  \* basic blocks of the body
  Flag,       \* kinds of lifetime bypass (BehaviorFlag has nine)
  High, Med,  \* kinds of rank Error and of rank Warning
  Sensitivity \* least rank that is reported: 2 high, 1 med, 0 low

ASSUME NumBlocksAssumption == NumBlocks \in Nat

ASSUME FlagAssumption ==
  /\ IsFiniteSet(Flag)
  /\ High \subseteq Flag
  /\ Med \subseteq Flag
  /\ \A f \in Flag : Flag # {f}
  /\ Sensitivity \in 0 .. 2

Node == 0 .. NumBlocks - 1

(***************************************************************************)
(* What the checker sees in a terminator.  A bypass is exempt when it      *)
(* copies a Copy type or is `vec.set_len(0)`.  Any other static call is    *)
(* classified by Instance::resolve, unless it is a listed generic          *)
(* function.                                                               *)
(***************************************************************************)
Terminator ==
  [call : {"bypass"}, flag : Flag, exempt : BOOLEAN] \union
  [call : {"generic", "unresolvable", "resolved", "resolve_error", "no_call"}]

IsSource(t) == t.call = "bypass" /\ ~ t.exempt
IsSink(t)   == t.call \in {"generic", "unresolvable"}

(* GraphTaint::is_empty of BehaviorFlag, which is written `self.is_all()`. *)
TaintIsEmpty(t) == t = Flag

(* BehaviorFlag::report_level: Error, Warning, Info.                       *)
ReportLevel(t) == IF t \intersect High # {} THEN 2
                  ELSE IF t \intersect Med # {} THEN 1 ELSE 0

Unreported == 3   \* no report was emitted

(* The orders in which the blocks of S may be appended to the work list.   *)
Orders(S) ==
  {q \in [1 .. Cardinality(S) -> S] : \A x \in S : \E i \in DOMAIN q : q[i] = x}

Ascending(S) == {q \in Orders(S) : \A i, j \in DOMAIN q : i < j => q[i] < q[j]}

VARIABLES
  succ,     \* Graph::next, fixed by the body
  term,     \* terminator of each block, fixed by the body
  id,       \* block the marking loop looks at
  sources,  \* TaintAnalyzer.sources
  sinks,    \* TaintAnalyzer.sinks
  taint,    \* taint_state of propagate()
  work,     \* work_list of propagate()
  flags,    \* status.behavior_flag, what propagate() returns
  report,   \* rank of the report emitted for the body
  pc

vars == <<succ, term, id, sources, sinks, taint, work, flags, report, pc>>
body == <<succ, term>>
marks == <<id, sources, sinks>>

TypeOK ==
  /\ succ \in [Node -> SUBSET Node]
  /\ term \in [Node -> Terminator]
  /\ id \in 0 .. NumBlocks
  /\ sources \in [Node -> SUBSET Flag]
  /\ sinks \in SUBSET Node
  /\ taint \in [Node -> SUBSET Flag]
  /\ work \in Seq(Node)
  /\ flags \in SUBSET Flag
  /\ report \in 0 .. Unreported
  /\ pc \in {"mark", "propagate", "collect", "report", "done"}

-----------------------------------------------------------------------------
Init ==
  /\ succ \in [Node -> SUBSET Node]
  /\ term \in [Node -> Terminator]
  /\ id = 0
  /\ sources = [n \in Node |-> {}]
  /\ sinks = {}
  /\ taint = [n \in Node |-> {}]
  /\ work = << >>
  /\ flags = {}
  /\ report = Unreported
  /\ pc = "mark"

(* Slip: the usual visited bit, a block that holds a taint is not queued.  *)
PopVisitedOnce ==
  /\ pc = "propagate"
  /\ work # << >>
  /\ LET current == Head(work)
         fresh   == {n \in succ[current] : taint[n] = {} /\ taint[current] # {}}
     IN /\ taint' = [n \in Node |-> IF n \in succ[current]
                                    THEN taint[n] \union taint[current]
                                    ELSE taint[n]]
        /\ \E q \in Orders(fresh) : work' = Tail(work) \o q
  /\ UNCHANGED <<body, marks, flags, report, pc>>

(* Slip: successors are queued again although they learned nothing.        *)
PopAlwaysQueues ==
  /\ pc = "propagate"
  /\ work # << >>
  /\ LET current == Head(work)
     IN /\ taint' = [n \in Node |-> IF n \in succ[current]
                                    THEN taint[n] \union taint[current]
                                    ELSE taint[n]]
        /\ \E q \in Orders(succ[current]) : work' = Tail(work) \o q
  /\ UNCHANGED <<body, marks, flags, report, pc>>

(* Slip: the taint of every block is joined, as if all were sinks.         *)
CollectEverywhere ==
  /\ pc = "collect"
  /\ flags' = UNION {taint[n] : n \in {m \in Node : ~ TaintIsEmpty(taint[m])}}
  /\ pc' = "report"
  /\ UNCHANGED <<body, marks, taint, work, report>>

-----------------------------------------------------------------------------
(* One iteration of the loop over `self.body.terminators()`.               *)
Mark ==
  /\ pc = "mark"
  /\ id < NumBlocks
  /\ sources' = IF IsSource(term[id])
                THEN [sources EXCEPT ![id] = @ \union {term[id].flag}]
                ELSE sources
  /\ sinks' = IF IsSink(term[id]) THEN sinks \union {id} ELSE sinks
  /\ id' = id + 1
  /\ UNCHANGED <<body, taint, work, flags, report, pc>>

(* propagate(): seed the taint of the blocks whose source is not "empty"   *)
(* and queue them in the order of their ids.                               *)
Seed ==
  /\ pc = "mark"
  /\ id = NumBlocks
  /\ LET seeds == {n \in Node : ~ TaintIsEmpty(sources[n])}
     IN /\ taint' = [n \in Node |-> IF n \in seeds THEN sources[n] ELSE {}]
        /\ work' \in Ascending(seeds)
  /\ pc' = "propagate"
  /\ UNCHANGED <<body, marks, flags, report>>

(* propagate(): pop a block and join its taint into its successors; those  *)
(* that learn something are queued, in the order of the successor list.    *)
Pop ==
  /\ pc = "propagate"
  /\ work # << >>
  /\ LET current == Head(work)
         learns  == {n \in succ[current] : ~ (taint[current] \subseteq taint[n])}
     IN /\ taint' = [n \in Node |-> IF n \in learns
                                    THEN taint[n] \union taint[current]
                                    ELSE taint[n]]
        /\ \E q \in Orders(learns) : work' = Tail(work) \o q
  /\ UNCHANGED <<body, marks, flags, report, pc>>

Drained ==
  /\ pc = "propagate"
  /\ work = << >>
  /\ pc' = "collect"
  /\ UNCHANGED <<body, marks, taint, work, flags, report>>

(* propagate(): join the taint of the sinks whose taint is not "empty".    *)
Collect ==
  /\ pc = "collect"
  /\ flags' = UNION {taint[n] : n \in {s \in sinks : ~ TaintIsEmpty(taint[s])}}
  /\ pc' = "report"
  /\ UNCHANGED <<body, marks, taint, work, report>>

(* UnsafeDataflowChecker::analyze: report a flow that is severe enough.    *)
(* The flow is skipped when no source span can be shown for it.            *)
Report ==
  /\ pc = "report"
  /\ report' \in IF flags # {} /\ ReportLevel(flags) >= Sensitivity
                 THEN {ReportLevel(flags), Unreported}
                 ELSE {Unreported}
  /\ pc' = "done"
  /\ UNCHANGED <<body, marks, taint, work, flags>>

Next == Mark \/ Seed \/ Pop \/ Drained \/ Collect \/ Report

Spec == Init /\ [][Next]_vars /\ WF_vars(Next)

-----------------------------------------------------------------------------
(***************************************************************************)
(* Reference definition of reachability: a block is reached by a bypass    *)
(* kind when it lies in every set of blocks that holds the sources of that *)
(* kind and is closed under the edges.                                     *)
(***************************************************************************)
Closed(S) == \A n \in S : succ[n] \subseteq S

Reaches(f) ==
  {n \in Node : \A S \in SUBSET Node :
      /\ {m \in Node : IsSource(term[m]) /\ term[m].flag = f} \subseteq S
      /\ Closed(S)
      => n \in S}

InWork(n) == \E i \in DOMAIN work : work[i] = n

Propagating == pc \notin {"mark"}
Propagated == pc \in {"collect", "report", "done"}

(* The marking loop has recorded, for every block it has passed, what the  *)
(* terminator of that block asks for, and nothing else.                    *)
MarksFollowBody ==
  /\ \A n \in Node : sources[n] =
       IF n < id /\ IsSource(term[n]) THEN {term[n].flag} ELSE {}
  /\ sinks = {n \in Node : n < id /\ IsSink(term[n])}
  /\ Propagating => id = NumBlocks

(* No taint is lost between two blocks: a block whose successor does not   *)
(* yet know everything it knows is waiting in the work list (the loop at   *)
(* graph.rs:90 may forget neither a successor nor a re-queued block).      *)
NoFlowForgotten ==
  Propagating =>
    \A n \in Node : \A m \in succ[n] : taint[n] \subseteq taint[m] \/ InWork(n)

(* Taint comes from somewhere: a block holds a bypass kind only if a path  *)
(* leads from a bypass of that kind to the block.                          *)
NoFlowInvented ==
  \A n \in Node : \A f \in taint[n] : n \in Reaches(f)

(* The work list computes reachability exactly, in whatever order the      *)
(* blocks were queued: after it drains a block holds the bypass kinds      *)
(* that reach it, no more and no less.                                     *)
PropagationExact ==
  Propagated => \A n \in Node : taint[n] = {f \in Flag : n \in Reaches(f)}

(* The propagation as a whole: while it runs no flow is forgotten and none *)
(* is invented, and when it has drained it is exact (graph.rs:66-101).     *)
TaintIsExact ==
  /\ NoFlowForgotten
  /\ NoFlowInvented
  /\ PropagationExact

(* Unless one sink is reached by every bypass kind at once, the flags of   *)
(* the body are the kinds that reach some sink, and a flow of rank Error   *)
(* into an unsaturated sink is never downgraded.                           *)
Saturated(n) == \A f \in Flag : n \in Reaches(f)

ResultExact ==
  /\ pc \in {"report", "done"} =>
       /\ \A f \in flags : \E s \in sinks : s \in Reaches(f)
       /\ \A s \in sinks : ~ Saturated(s) => {f \in Flag : s \in Reaches(f)} \subseteq flags
  /\ report # Unreported =>
       /\ report >= Sensitivity
       /\ (\E s \in sinks, f \in High : ~ Saturated(s) /\ s \in Reaches(f)) => report = 2

(* The propagation terminates on every graph, loops and self-loops         *)
(* included: a block is queued again only when its taint grew.             *)
Terminates == <>(pc = "done")
=============================================================================
