---------------------------- MODULE Rudra_proofs ----------------------------
(***************************************************************************)
(* Proofs about the two parts of Rudra that are modelled: the taint        *)
(* analysis of a body, and the campaigns of its crawler.                   *)
(***************************************************************************)
EXTENDS RudraTaint, RudraCampaign, FiniteSetTheorems, TLAPS

-----------------------------------------------------------------------------
(***************************************************************************)
(* The taint analysis, for bodies of any size and any set of bypass kinds. *)
(* The inductive invariant says that the marks describe the body, that the *)
(* seeds keep their taint, that every edge over which taint still has to   *)
(* flow starts at a queued block, and that no taint is invented.  When the *)
(* queue is empty the blocks that hold a kind are then closed under the    *)
(* edges, and so contain everything the kind reaches.                      *)
(***************************************************************************)

SeedsKept ==
  Propagating =>
    \A n \in Node : ~ TaintIsEmpty(sources[n]) => sources[n] \subseteq taint[n]

MarkingIsClean == pc = "mark" => taint = [n \in Node |-> {}]

QueueDrained == Propagated => work = << >>

ResultCollected ==
  /\ pc \in {"report", "done"} =>
       flags = UNION {taint[n] : n \in {s \in sinks : ~ TaintIsEmpty(taint[s])}}
  /\ report # Unreported =>
       pc = "done" /\ report = ReportLevel(flags) /\ report >= Sensitivity

IInv ==
  /\ TypeOK
  /\ MarksFollowBody
  /\ MarkingIsClean
  /\ SeedsKept
  /\ NoFlowForgotten
  /\ NoFlowInvented
  /\ QueueDrained
  /\ ResultCollected

-----------------------------------------------------------------------------
(* The blocks of a body are finitely many.                                 *)
LEMMA NodeFinite == IsFiniteSet(Node)
BY NumBlocksAssumption, FS_Interval DEF Node

(* An order of a set of blocks is a sequence that holds all of them.       *)
LEMMA OrdersAreSequences ==
  ASSUME NEW S \in SUBSET Node, NEW q \in Orders(S)
  PROVE  /\ q \in Seq(Node)
         /\ \A x \in S : \E i \in 1 .. Len(q) : q[i] = x
<1>1. Cardinality(S) \in Nat
  BY NodeFinite, FS_Subset, FS_CardinalityType
<1>2. q \in [1 .. Cardinality(S) -> S] /\ \A x \in S : \E i \in DOMAIN q : q[i] = x
  BY DEF Orders
<1>3. q \in Seq(Node) /\ Len(q) = Cardinality(S)
  BY <1>1, <1>2
<1> QED BY <1>2, <1>3

LEMMA AscendingAreOrders == \A S : Ascending(S) \subseteq Orders(S)
BY DEF Ascending

(* Popping a block keeps the others queued and queues the ones in q.       *)
LEMMA QueueAfterPop ==
  ASSUME NEW w \in Seq(Node), w # << >>, NEW q \in Seq(Node)
  PROVE  /\ Tail(w) \o q \in Seq(Node)
         /\ \A i \in 1 .. Len(w) : w[i] = Head(w) \/
              \E j \in 1 .. Len(Tail(w) \o q) : (Tail(w) \o q)[j] = w[i]
         /\ \A i \in 1 .. Len(q) :
              \E j \in 1 .. Len(Tail(w) \o q) : (Tail(w) \o q)[j] = q[i]
<1> DEFINE v == Tail(w) \o q
<1>1. Len(w) \in Nat /\ Len(w) > 0 /\ Tail(w) \in Seq(Node) /\ Len(Tail(w)) = Len(w) - 1
  OBVIOUS
<1>2. v \in Seq(Node) /\ Len(v) = Len(w) - 1 + Len(q)
  BY <1>1
<1>3. ASSUME NEW i \in 1 .. Len(w)
      PROVE  w[i] = Head(w) \/ \E j \in 1 .. Len(v) : v[j] = w[i]
  <2>1. CASE i = 1
    BY <2>1, <1>1
  <2>2. CASE i > 1
    <3>1. i - 1 \in 1 .. Len(Tail(w)) /\ Tail(w)[i - 1] = w[i]
      BY <1>1, <2>2
    <3>2. i - 1 \in 1 .. Len(v) /\ v[i - 1] = w[i]
      BY <1>1, <1>2, <3>1
    <3> QED BY <3>2
  <2>3. i = 1 \/ i > 1
    BY <1>1
  <2> QED BY <2>1, <2>2, <2>3
<1>4. ASSUME NEW i \in 1 .. Len(q)
      PROVE  \E j \in 1 .. Len(v) : v[j] = q[i]
  <2>1. /\ Len(Tail(w)) + i \in 1 .. Len(v)
        /\ v[Len(Tail(w)) + i] = q[i]
    BY <1>1, <1>2
  <2> QED BY <2>1
<1> QED BY <1>2, <1>3, <1>4

(* A source of a kind is reached by it, and so is every successor of a     *)
(* block that is.                                                          *)
LEMMA ReachesSteps ==
  ASSUME TypeOK, NEW f \in Flag
  PROVE  /\ \A n \in Node : IsSource(term[n]) /\ term[n].flag = f => n \in Reaches(f)
         /\ \A n \in Reaches(f) : \A m \in succ[n] : m \in Reaches(f)
<1>1. Reaches(f) \subseteq Node
  BY DEF Reaches
<1>2. \A n \in Node : IsSource(term[n]) /\ term[n].flag = f => n \in Reaches(f)
  BY DEF Reaches
<1>3. ASSUME NEW n \in Reaches(f), NEW m \in succ[n] PROVE m \in Reaches(f)
  <2>1. n \in Node /\ m \in Node
    BY <1>1, <1>3 DEF TypeOK
  <2>2. ASSUME NEW S \in SUBSET Node, Closed(S),
               {k \in Node : IsSource(term[k]) /\ term[k].flag = f} \subseteq S
        PROVE  m \in S
    <3>1. n \in S
      BY <2>2 DEF Reaches
    <3> QED BY <3>1, <2>2, <1>3 DEF Closed
  <2> QED BY <2>1, <2>2 DEF Reaches
<1> QED BY <1>2, <1>3

-----------------------------------------------------------------------------
(* The invariant holds in the initial states.                              *)
LEMMA InitIInv == Init => IInv
<1> SUFFICES ASSUME Init PROVE IInv
  OBVIOUS
<1>1. TypeOK
  BY NumBlocksAssumption DEF Init, TypeOK, Unreported, Node
<1>2. MarksFollowBody
  BY NumBlocksAssumption DEF Init, MarksFollowBody, Propagating, Node
<1>3. MarkingIsClean /\ SeedsKept /\ NoFlowForgotten /\ NoFlowInvented
  BY DEF Init, MarkingIsClean, SeedsKept, NoFlowForgotten, NoFlowInvented, Propagating
<1>4. QueueDrained /\ ResultCollected
  BY DEF Init, QueueDrained, ResultCollected, Propagated
<1> QED BY <1>1, <1>2, <1>3, <1>4 DEF IInv

(* A step that keeps the body keeps what reaches what.                     *)
LEMMA ReachesKept == UNCHANGED body => \A f : Reaches(f)' = Reaches(f)
BY DEF body, Reaches, Closed

LEMMA MarkIInv == IInv /\ Mark => IInv'
<1> SUFFICES ASSUME IInv, Mark PROVE IInv'
  OBVIOUS
<1> USE DEF IInv, Mark, body
<1>1. id \in Node /\ id' = id + 1 /\ id' \in 0 .. NumBlocks
  BY NumBlocksAssumption DEF TypeOK, Node
<1>2. /\ sources' \in [Node -> SUBSET Flag]
      /\ \A n \in Node : n # id => sources'[n] = sources[n]
      /\ sources'[id] = IF IsSource(term[id]) THEN {term[id].flag} ELSE {}
  <2>1. sources[id] = {} /\ sources \in [Node -> SUBSET Flag]
    BY <1>1 DEF MarksFollowBody, TypeOK, Node
  <2>2. IsSource(term[id]) => term[id].flag \in Flag
    <3>1. term[id] \in Terminator
      BY <1>1 DEF TypeOK
    <3> QED BY <3>1 DEF Terminator, IsSource
  <2>3. CASE IsSource(term[id])
    BY <2>1, <2>2, <2>3, <1>1
  <2>4. CASE ~ IsSource(term[id])
    BY <2>1, <2>4, <1>1
  <2> QED BY <2>3, <2>4
<1>3. MarksFollowBody'
  <2>1. ASSUME NEW n \in Node
        PROVE  sources'[n] = IF n < id' /\ IsSource(term[n]) THEN {term[n].flag} ELSE {}
    <3>1. CASE n = id
      BY <3>1, <1>1, <1>2 DEF Node
    <3>2. CASE n # id
      <4>1. n < id' <=> n < id
        BY <3>2, <1>1, NumBlocksAssumption DEF Node
      <4> QED BY <4>1, <3>2, <1>2 DEF MarksFollowBody
    <3> QED BY <3>1, <3>2
  <2>2. sinks' = {n \in Node : n < id' /\ IsSink(term[n])}
    <3>1. \A n \in Node : n < id' <=> n < id \/ n = id
      BY <1>1, NumBlocksAssumption DEF Node
    <3> QED BY <3>1, <1>1 DEF MarksFollowBody
  <2> QED BY <2>1, <2>2 DEF MarksFollowBody, Propagating, IsSource, IsSink
<1>6. TypeOK'
  BY <1>1, <1>2 DEF TypeOK
<1>4. NoFlowInvented'
  BY DEF MarkingIsClean, NoFlowInvented
<1>5. (MarkingIsClean /\ SeedsKept /\ NoFlowForgotten /\ QueueDrained /\ ResultCollected)'
  BY DEF MarkingIsClean, SeedsKept, NoFlowForgotten, QueueDrained, ResultCollected,
         Propagating, Propagated
<1> QED BY <1>3, <1>4, <1>5, <1>6

LEMMA SeedIInv == IInv /\ Seed => IInv'
<1> SUFFICES ASSUME IInv, Seed PROVE IInv'
  OBVIOUS
<1> DEFINE seeds == {n \in Node : ~ TaintIsEmpty(sources[n])}
<1> USE DEF IInv
<1>0. /\ work' \in Orders(seeds)
      /\ taint' = [n \in Node |-> IF n \in seeds THEN sources[n] ELSE {}]
      /\ UNCHANGED <<body, marks, flags, report>>
      /\ pc = "mark" /\ pc' = "propagate" /\ id = NumBlocks
  BY AscendingAreOrders DEF Seed
<1>1. work' \in Seq(Node) /\ \A x \in seeds : \E i \in 1 .. Len(work') : work'[i] = x
  BY <1>0, OrdersAreSequences, seeds \in SUBSET Node
<1>2. TypeOK'
  BY <1>0, <1>1 DEF TypeOK, body, marks
<1>3. MarksFollowBody'
  BY <1>0 DEF MarksFollowBody, Propagating, body, marks, IsSource, IsSink
<1>4. SeedsKept'
  BY <1>0 DEF SeedsKept, TaintIsEmpty, marks
<1>5. NoFlowForgotten'
  <2> SUFFICES ASSUME NEW n \in Node, NEW m \in succ'[n]
               PROVE  taint'[n] \subseteq taint'[m] \/ InWork(n)'
    BY DEF NoFlowForgotten
  <2>1. CASE n \in seeds
    BY <2>1, <1>1 DEF InWork
  <2>2. CASE n \notin seeds
    BY <2>2, <1>0
  <2> QED BY <2>1, <2>2
<1>6. NoFlowInvented'
  <2> SUFFICES ASSUME NEW n \in Node, NEW f \in taint'[n] PROVE n \in Reaches(f)'
    BY DEF NoFlowInvented
  <2>1. f \in sources[n]
    BY <1>0
  <2>2. IsSource(term[n]) /\ term[n].flag = f /\ f \in Flag
    BY <2>1 DEF MarksFollowBody, TypeOK
  <2> QED BY <2>2, <1>0, ReachesSteps, ReachesKept
<1>7. (MarkingIsClean /\ QueueDrained /\ ResultCollected)'
  BY <1>0 DEF MarkingIsClean, QueueDrained, ResultCollected, Propagated
<1> QED BY <1>2, <1>3, <1>4, <1>5, <1>6, <1>7

LEMMA PopIInv == IInv /\ Pop => IInv'
<1> SUFFICES ASSUME IInv, Pop PROVE IInv'
  OBVIOUS
<1> DEFINE current == Head(work)
           learns  == {n \in succ[current] : ~ (taint[current] \subseteq taint[n])}
<1> USE DEF IInv
<1>0. PICK q \in Orders(learns) :
        /\ work' = Tail(work) \o q
        /\ work # << >>
        /\ taint' = [n \in Node |-> IF n \in learns
                                    THEN taint[n] \union taint[current]
                                    ELSE taint[n]]
        /\ UNCHANGED <<body, marks, flags, report, pc>>
        /\ pc = "propagate"
  BY DEF Pop
<1>1. work \in Seq(Node) /\ current \in Node /\ learns \in SUBSET Node
  <2>1. work \in Seq(Node) /\ current \in Node
    BY <1>0 DEF TypeOK
  <2> QED BY <2>1 DEF TypeOK
<1>2. q \in Seq(Node) /\ \A x \in learns : \E i \in 1 .. Len(q) : q[i] = x
  BY <1>1, OrdersAreSequences
<1>3. /\ work' \in Seq(Node)
      /\ \A n \in Node : InWork(n) => n = current \/ InWork(n)'
      /\ \A n \in learns : InWork(n)'
  <2>1. /\ work' \in Seq(Node)
        /\ \A i \in 1 .. Len(work) : work[i] = current \/
             \E j \in 1 .. Len(work') : work'[j] = work[i]
        /\ \A i \in 1 .. Len(q) : \E j \in 1 .. Len(work') : work'[j] = q[i]
    BY <1>0, <1>1, <1>2, QueueAfterPop, ZenonT(30)
  <2>2. DOMAIN work = 1 .. Len(work) /\ DOMAIN work' = 1 .. Len(work')
    BY <1>1, <2>1
  <2>3. \A n \in Node : InWork(n) => n = current \/ InWork(n)'
    BY <2>1, <2>2 DEF InWork
  <2>4. \A n \in learns : InWork(n)'
    <3> TAKE n \in learns
    <3>1. PICK i \in 1 .. Len(q) : q[i] = n
      BY <1>2
    <3> QED BY <3>1, <2>1, <2>2 DEF InWork
  <2> QED BY <2>1, <2>3, <2>4
<1>4. TypeOK'
  BY <1>0, <1>1, <1>3 DEF TypeOK, body, marks
<1>5. MarksFollowBody'
  BY <1>0 DEF MarksFollowBody, Propagating, body, marks, IsSource, IsSink
<1>6. SeedsKept'
  BY <1>0 DEF SeedsKept, TaintIsEmpty, marks, Propagating
<1>7. NoFlowForgotten'
  <2> SUFFICES ASSUME NEW n \in Node, NEW m \in succ[n]
               PROVE  taint'[n] \subseteq taint'[m] \/ InWork(n)'
    BY <1>0 DEF NoFlowForgotten, body
  <2>0. m \in Node
    BY DEF TypeOK
  <2>1. CASE n \in learns
    BY <2>1, <1>3
  <2>2. CASE n \notin learns /\ taint[n] \subseteq taint[m]
    BY <2>0, <2>2, <1>0
  <2>3. CASE n \notin learns /\ ~ (taint[n] \subseteq taint[m])
    <3>1. InWork(n)
      BY <2>3, <1>0 DEF NoFlowForgotten, Propagating
    <3>2. CASE n = current
      BY <2>0, <2>3, <3>2, <1>0, <1>1
    <3> QED BY <3>1, <3>2, <1>3
  <2> QED BY <2>1, <2>2, <2>3
<1>8. NoFlowInvented'
  <2> SUFFICES ASSUME NEW n \in Node, NEW f \in taint'[n] PROVE n \in Reaches(f)'
    BY DEF NoFlowInvented
  <2>1. CASE f \in taint[n]
    BY <2>1, <1>0, ReachesKept DEF NoFlowInvented
  <2>2. CASE f \notin taint[n]
    <3>1. n \in learns /\ f \in taint[current]
      BY <2>2, <1>0
    <3>2. current \in Reaches(f) /\ f \in Flag
      BY <3>1, <1>1 DEF NoFlowInvented, TypeOK
    <3> QED BY <3>1, <3>2, <1>0, ReachesSteps, ReachesKept
  <2> QED BY <2>1, <2>2
<1>9. (MarkingIsClean /\ QueueDrained /\ ResultCollected)'
  BY <1>0 DEF MarkingIsClean, QueueDrained, ResultCollected, Propagated
<1> QED BY <1>4, <1>5, <1>6, <1>7, <1>8, <1>9
LEMMA DrainedIInv == IInv /\ Drained => IInv'
<1> SUFFICES ASSUME IInv, Drained PROVE IInv'
  OBVIOUS
<1> USE DEF IInv, Drained
<1>1. TypeOK' /\ MarksFollowBody'
  BY DEF TypeOK, MarksFollowBody, body, marks, Propagating, IsSource, IsSink
<1>2. NoFlowForgotten' /\ SeedsKept'
  BY DEF NoFlowForgotten, SeedsKept, InWork, Propagating, body, marks, TaintIsEmpty
<1>3. NoFlowInvented'
  BY ReachesKept DEF NoFlowInvented
<1>4. (MarkingIsClean /\ QueueDrained /\ ResultCollected)'
  BY DEF MarkingIsClean, QueueDrained, ResultCollected, Propagated
<1> QED BY <1>1, <1>2, <1>3, <1>4

LEMMA CollectIInv == IInv /\ Collect => IInv'
<1> SUFFICES ASSUME IInv, Collect PROVE IInv'
  OBVIOUS
<1> USE DEF IInv, Collect
<1>1. TypeOK'
  BY DEF TypeOK, body, marks
<1>2. MarksFollowBody'
  BY DEF MarksFollowBody, body, marks, Propagating, IsSource, IsSink
<1>3. NoFlowForgotten' /\ SeedsKept'
  BY DEF NoFlowForgotten, SeedsKept, InWork, Propagating, body, marks, TaintIsEmpty
<1>4. NoFlowInvented'
  BY ReachesKept DEF NoFlowInvented
<1>5. (MarkingIsClean /\ QueueDrained)'
  BY DEF MarkingIsClean, QueueDrained, Propagated
<1>6. ResultCollected'
  BY DEF ResultCollected, marks, TaintIsEmpty
<1> QED BY <1>1, <1>2, <1>3, <1>4, <1>5, <1>6

LEMMA ReportIInv == IInv /\ Report => IInv'
<1> SUFFICES ASSUME IInv, Report PROVE IInv'
  OBVIOUS
<1> USE DEF IInv, Report
<1>1. TypeOK'
  BY DEF TypeOK, body, marks, ReportLevel, Unreported
<1>2. MarksFollowBody'
  BY DEF MarksFollowBody, body, marks, Propagating, IsSource, IsSink
<1>3. NoFlowForgotten' /\ SeedsKept'
  BY DEF NoFlowForgotten, SeedsKept, InWork, Propagating, body, marks, TaintIsEmpty
<1>4. NoFlowInvented'
  BY ReachesKept DEF NoFlowInvented
<1>5. (MarkingIsClean /\ QueueDrained)'
  BY DEF MarkingIsClean, QueueDrained, Propagated
<1>6. ResultCollected'
  BY DEF ResultCollected, marks, TaintIsEmpty, ReportLevel
<1> QED BY <1>1, <1>2, <1>3, <1>4, <1>5, <1>6

LEMMA StutterIInv == IInv /\ UNCHANGED vars => IInv'
<1> SUFFICES ASSUME IInv, UNCHANGED vars PROVE IInv'
  OBVIOUS
<1> USE DEF IInv, vars
<1>1. TypeOK' /\ MarksFollowBody'
  BY DEF TypeOK, MarksFollowBody, Propagating, IsSource, IsSink
<1>2. NoFlowForgotten' /\ SeedsKept'
  BY DEF NoFlowForgotten, SeedsKept, InWork, Propagating, TaintIsEmpty
<1>3. NoFlowInvented'
  BY ReachesKept DEF NoFlowInvented, body
<1>4. (MarkingIsClean /\ QueueDrained /\ ResultCollected)'
  BY DEF MarkingIsClean, QueueDrained, ResultCollected, Propagated, TaintIsEmpty
<1> QED BY <1>1, <1>2, <1>3, <1>4

(* The invariant holds of every reachable state.                           *)
THEOREM Invariance == Spec => []IInv
<1>1. IInv /\ [Next]_vars => IInv'
  BY MarkIInv, SeedIInv, PopIInv, DrainedIInv, CollectIInv, ReportIInv, StutterIInv
     DEF Next
<1> QED BY InitIInv, <1>1, PTL DEF Spec

-----------------------------------------------------------------------------
(* When the queue has drained a block holds exactly the kinds that reach   *)
(* it: the holders of a kind contain its sources and are closed under the  *)
(* edges, so they contain all it reaches.                                  *)
LEMMA DrainedIsExact == IInv => PropagationExact
<1> SUFFICES ASSUME IInv, Propagated, NEW n \in Node
             PROVE  taint[n] = {f \in Flag : n \in Reaches(f)}
  BY DEF PropagationExact
<1> USE DEF IInv
<1>1. ASSUME NEW f \in taint[n] PROVE f \in Flag /\ n \in Reaches(f)
  BY DEF TypeOK, NoFlowInvented
<1>2. ASSUME NEW f \in Flag, n \in Reaches(f) PROVE f \in taint[n]
  <2> DEFINE S == {m \in Node : f \in taint[m]}
  <2>1. ASSUME NEW m \in Node, IsSource(term[m]), term[m].flag = f PROVE m \in S
    <3>1. id = NumBlocks /\ Propagating
      BY DEF MarksFollowBody, Propagated, Propagating
    <3>2. sources[m] = {f}
      <4>1. m < id
        BY <3>1, NumBlocksAssumption DEF Node
      <4>2. sources[m] = IF m < id /\ IsSource(term[m]) THEN {term[m].flag} ELSE {}
        BY DEF MarksFollowBody
      <4> QED BY <4>1, <4>2, <2>1
    <3>3. ~ TaintIsEmpty(sources[m])
      BY <3>2, FlagAssumption DEF TaintIsEmpty
    <3> QED BY <3>1, <3>2, <3>3 DEF SeedsKept
  <2>2. ASSUME NEW m \in S, NEW k \in succ[m] PROVE k \in S
    <3>1. ~ InWork(m)
      BY DEF InWork, QueueDrained
    <3>2. taint[m] \subseteq taint[k] /\ k \in Node
      BY <3>1 DEF NoFlowForgotten, Propagated, Propagating, TypeOK
    <3> QED BY <3>2
  <2>3. n \in S
    BY <1>2, <2>1, <2>2 DEF Reaches, Closed
  <2> QED BY <2>3
<1> QED BY <1>1, <1>2

(* What the body reports is what reaches its unsaturated sinks.            *)
LEMMA CollectedIsExact == IInv => ResultExact
<1> SUFFICES ASSUME IInv PROVE ResultExact
  OBVIOUS
<1> USE DEF IInv
<1>1. Propagated => \A n \in Node : taint[n] = {f \in Flag : n \in Reaches(f)}
  BY DrainedIsExact DEF PropagationExact
<1>2. sinks \subseteq Node
  BY DEF TypeOK
<1>3. ASSUME pc \in {"report", "done"}, NEW f \in flags
      PROVE  \E s \in sinks : s \in Reaches(f)
  BY <1>1, <1>2, <1>3 DEF ResultCollected, Propagated
<1>4. ASSUME pc \in {"report", "done"}, NEW s \in sinks, ~ Saturated(s)
      PROVE  {f \in Flag : s \in Reaches(f)} \subseteq flags
  <2>1. taint[s] = {f \in Flag : s \in Reaches(f)}
    BY <1>1, <1>2, <1>4 DEF Propagated
  <2>2. ~ TaintIsEmpty(taint[s])
    BY <2>1, <1>4 DEF TaintIsEmpty, Saturated
  <2> QED BY <2>1, <2>2, <1>4 DEF ResultCollected
<1>5. ASSUME report # Unreported, NEW s \in sinks, NEW f \in High,
             ~ Saturated(s), s \in Reaches(f)
      PROVE  report = 2
  <2>1. pc = "done" /\ report = ReportLevel(flags)
    BY <1>5 DEF ResultCollected
  <2>2. f \in flags
    BY <2>1, <1>4, <1>5, FlagAssumption
  <2> QED BY <2>1, <2>2 DEF ReportLevel
<1>6. report # Unreported => report >= Sensitivity
  BY DEF ResultCollected
<1> QED BY <1>3, <1>4, <1>5, <1>6 DEF ResultExact

-----------------------------------------------------------------------------
(* The state of the checker keeps its types.                               *)
THEOREM TypeCorrect == Spec => []TypeOK
<1>1. IInv => TypeOK
  BY DEF IInv
<1> QED BY Invariance, <1>1, PTL

(* The work list forgets no edge over which taint has to flow.             *)
THEOREM Complete == Spec => []NoFlowForgotten
<1>1. IInv => NoFlowForgotten
  BY DEF IInv
<1> QED BY Invariance, <1>1, PTL

(* Every taint of a block is the end of a path from a bypass.              *)
THEOREM Sound == Spec => []NoFlowInvented
<1>1. IInv => NoFlowInvented
  BY DEF IInv
<1> QED BY Invariance, <1>1, PTL

(* After propagation the taint of a block is exactly what reaches it.      *)
THEOREM Exact == Spec => []PropagationExact
BY Invariance, DrainedIsExact, PTL

(* At every moment the propagation has forgotten and invented no flow, and *)
(* when the work list is empty it is exact (graph.rs:66-101).              *)
THEOREM TaintExact == Spec => []TaintIsExact
<1>1. NoFlowForgotten /\ NoFlowInvented /\ PropagationExact => TaintIsExact
  BY DEF TaintIsExact
<1> QED BY Complete, Sound, Exact, <1>1, PTL

(* The report of a body is justified, and complete for unsaturated sinks.  *)
THEOREM ReportExact == Spec => []ResultExact
BY Invariance, CollectedIsExact, PTL

-----------------------------------------------------------------------------
(***************************************************************************)
(* The campaigns, for any number of crates, targets, threads and           *)
(* campaigns, whatever fails or stops.                                     *)
(***************************************************************************)
USE RudraCampaignAssumption

ReportOf == Crate \X (1 .. Len(Targets)) \X (0 .. MaxReports)

(* What the type invariant leaves out: the Rudra processes.                *)
ProcessesOK == orphans \subseteq ReportOf /\ ended \subseteq ReportOf

(* Only the thread that has the lock sleeps, long enough.                  *)
Sleeping ==
  /\ \A i \in Item : at[i] = "sleep" => holder = i /\ lastGrant + wait[i] >= REQUIRED_DELAY
  /\ since <= REQUIRED_DELAY => lastGrant >= since

(* The places of the items in each phase.                                  *)
Phases ==
  /\ phase = "idle" => \A i \in Item : at[i] = "idle"
  /\ phase # "idle" => campaign >= 1
  /\ phase = "index" => \A c \in Crate : at[c] = "idle" /\ cut[c] < campaign
  /\ phase \in {"fetch", "analyse"} => at[Index] = "done" /\ \A c \in Crate \ listed : at[c] = "done"

(* A campaign that fails on an item does not go on with it.                *)
CutIsPast   == \A i \in Item : cut[i] <= campaign
FailedIsOut == \A i \in Item : cut[i] # 0 /\ cut[i] = campaign => at[i] \in {"skipped", "done", "idle"}

(* What was unpacked in part was being unpacked when a campaign failed on  *)
(* it, and is used by later campaigns only.                                *)
PartIsCut   == \A i \in Item : content[i] = "part" => at[i] = "unpacking" \/ cut[i] # 0
CrateCutOld ==
  \A c \in Crate : at[c] \in {"fetched", "ready", "rudra", "clean"} /\ content[c] # "whole" =>
    cut[c] # 0 /\ cut[c] < campaign
IndexCutOld ==
  phase \in {"fetch", "analyse"} /\ listed # Crate => cut[Index] # 0 /\ cut[Index] < campaign

Cuts == CutIsPast /\ FailedIsOut /\ PartIsCut /\ CrateCutOld /\ IndexCutOld

(* The report file of a target is written once, by the only Rudra process  *)
(* that the target has in a campaign.                                      *)
NotYet     ==
  \A c \in Crate, t \in 1 .. Len(Targets) :
    (\A e \in ended : ~(e[1] = c /\ e[2] = t)) => reports[<<c, t>>] = 0
Apart      == \A e \in ended, o \in orphans : ~(e[1] = o[1] /\ e[2] = o[2])
OneOrphan  == \A o, p \in orphans : o[1] = p[1] /\ o[2] = p[2] => o = p
InOrder    ==
  phase # "idle" =>
    \A c \in Crate, e \in ended \union orphans : e[1] = c =>
      \/ at[c] = "rudra" /\ e[2] < target[c]
      \/ at[c] \in {"clean", "done"}

OneProcess == ReportsAreKept /\ NotYet /\ Apart /\ OneOrphan /\ InOrder

CampaignIInv == CampaignTypeOK /\ ProcessesOK /\ Sleeping /\ Phases /\ Cuts /\ OneProcess

-----------------------------------------------------------------------------
(* It holds when nothing was ever started...                               *)
LEMMA CampaignInitIInv == CampaignInit => CampaignIInv
BY DEF CampaignInit, CampaignIInv, CampaignTypeOK, ProcessesOK, Sleeping, Phases, Cuts, CutIsPast, FailedIsOut, PartIsCut,
       CrateCutOld, IndexCutOld, OneProcess, ReportsAreKept, NotYet, Apart, OneOrphan, InOrder,
       AtAll, NoReports, Item, Place

(* The disjuncts of a step, one by one.                                    *)
LEMMA Steps ==
  ASSUME CampaignNext
  PROVE  \/ Start \/ Tick \/ List \/ ListFails \/ Choose \/ Finish \/ Crash
         \/ \E i \in Item : \/ Check(i) \/ Lock(i) \/ Grant(i) \/ Create(i) \/ Send(i)
                            \/ SendFails(i) \/ Unpack(i) \/ Unpacked(i) \/ UnpackFails(i)
         \/ \E c \in Crate : StartRudra(c) \/ RudraEnds(c) \/ Timeout(c) \/ Clean(c) \/ Found(c)
         \/ \E o \in orphans : OrphanEnds(o) \/ OrphanDies(o)
BY DEF CampaignNext, Fetch, Analyse

(* The types, in four parts.                                               *)
WorkTypes ==
  /\ campaign \in 0 .. MaxCampaigns
  /\ phase \in {"idle", "index", "fetch", "analyse"}
  /\ file \in [Item -> {"none", "cut", "whole", "wrong"}]
  /\ content \in [Item -> {"none", "part", "whole"}]
  /\ listed \subseteq Crate
  /\ at \in [Item -> Place]

DelayTypes ==
  /\ holder \in Item \union {Nobody}
  /\ since \in 0 .. REQUIRED_DELAY + 1 /\ lastGrant \in 0 .. REQUIRED_DELAY
  /\ wait \in [Item -> 0 .. REQUIRED_DELAY]

RudraTypes ==
  /\ target \in [Crate -> 1 .. Len(Targets)] /\ found \in [Crate -> 0 .. MaxReports]
  /\ reports \in [Crate \X (1 .. Len(Targets)) -> 0 .. MaxReports]
  /\ ProcessesOK

CutType == cut \in [Item -> 0 .. MaxCampaigns]

(* A Rudra process that ends is the first one of its target to do so.      *)
LEMMA EndsOnce ==
  ASSUME CampaignTypeOK, ProcessesOK, OneProcess,
         NEW c \in Crate, NEW t \in 1 .. Len(Targets), NEW n \in 0 .. MaxReports,
         Flush(c, t, n), orphans' \subseteq orphans,
         \A e \in ended \union orphans' : ~(e[1] = c /\ e[2] = t)
  PROVE  ReportsAreKept' /\ NotYet' /\ Apart' /\ OneOrphan'
<1> DEFINE files == Crate \X (1 .. Len(Targets))
<1>1. reports[<<c, t>>] = 0
  BY DEF OneProcess, NotYet
<1>2. ended' = ended \union {<<c, t, n>>}
  BY DEF Flush
<1>3. \A p \in files : reports'[p] = IF p = <<c, t>> THEN n ELSE reports[p]
  <2>1. DOMAIN reports = files
    BY DEF CampaignTypeOK
  <2> QED BY <1>1, <2>1 DEF Flush, Path
<1>4. \A e \in ended : e[1] \in Crate /\ e[2] \in 1 .. Len(Targets) /\ <<e[1], e[2]>> \in files
  BY DEF ProcessesOK, ReportOf
<1>5. \A e \in ended : <<e[1], e[2]>> # <<c, t>>
  OBVIOUS
<1>6. \A e \in ended' : reports'[<<e[1], e[2]>>] = e[3]
  <2>1. \A e \in ended : reports[<<e[1], e[2]>>] = e[3]
    BY DEF OneProcess, ReportsAreKept
  <2>2. \A e \in ended : reports'[<<e[1], e[2]>>] = e[3]
    BY <1>3, <1>4, <1>5, <2>1
  <2>3. <<c, t>> \in files
    OBVIOUS
  <2>4. \A p \in files : p = <<c, t>> => reports'[p] = n
    BY <1>3
  <2>5. ASSUME NEW e, e = <<c, t, n>>
        PROVE  reports'[<<e[1], e[2]>>] = e[3]
    <3>1. e[1] = c /\ e[2] = t /\ e[3] = n
      BY <2>5
    <3>2. reports'[<<c, t>>] = n
      BY <2>3, <2>4
    <3> QED BY <3>1, <3>2
  <2> QED BY <1>2, <2>2, <2>5
<1>7. NotYet'
  <2> SUFFICES ASSUME NEW d \in Crate, NEW u \in 1 .. Len(Targets),
                      \A e \in ended' : ~(e[1] = d /\ e[2] = u)
               PROVE  reports'[<<d, u>>] = 0
    BY DEF NotYet
  <2>1. ~(c = d /\ t = u)
    <3>1. <<c, t, n>> \in ended'
      BY <1>2
    <3> QED BY <3>1
  <2>2. reports[<<d, u>>] = 0
    BY <1>2 DEF OneProcess, NotYet
  <2> QED BY <1>3, <2>1, <2>2
<1>8. Apart'
  BY <1>2 DEF OneProcess, Apart
<1>9. OneOrphan'
  BY DEF OneProcess, OneOrphan
<1> QED BY <1>6, <1>7, <1>8, <1>9 DEF ReportsAreKept

(* The target whose process runs now has had none before.                  *)
LEMMA NextTarget ==
  ASSUME CampaignTypeOK, ProcessesOK, Phases, OneProcess, NEW c \in Crate, at[c] = "rudra"
  PROVE  /\ phase # "idle"
         /\ target[c] \in 1 .. Len(Targets) /\ found[c] \in 0 .. MaxReports
         /\ \A e \in ended \union orphans : e[1] = c => e[2] \in Nat /\ e[2] < target[c]
         /\ \A e \in ended \union orphans : ~(e[1] = c /\ e[2] = target[c])
<1>1. phase # "idle"
  BY DEF Phases, Item
<1>2. target[c] \in 1 .. Len(Targets) /\ found[c] \in 0 .. MaxReports
  BY DEF CampaignTypeOK
<1>3. ASSUME NEW e \in ended \union orphans, e[1] = c
      PROVE  e[2] \in Nat /\ e[2] < target[c]
  <2>1. e[2] \in Nat
    BY DEF ProcessesOK, ReportOf
  <2>2. e[2] < target[c]
    BY <1>1, <1>3 DEF OneProcess, InOrder
  <2> QED BY <2>1, <2>2
<1> QED BY <1>1, <1>2, <1>3

(* Campaign, phase, files and places keep their types in every step.       *)
LEMMA WorkNext ==
  ASSUME CampaignIInv, CampaignNext
  PROVE  WorkTypes'
<1> USE DEF CampaignIInv, CampaignTypeOK, WorkTypes, Item, Place
<1>1. CASE Start
  BY <1>1 DEF Start, AtAll, NoReports, cache
<1>2. CASE Tick
  BY <1>2 DEF Tick, cache, analysis
<1>3. CASE List
  BY <1>3 DEF List, cache, delay, analysis
<1>4. CASE ListFails
  BY <1>4 DEF ListFails, End, AtAll, cache
<1>5. CASE Choose
  BY <1>5 DEF Choose, cache, delay, analysis
<1>6. CASE Finish
  BY <1>6 DEF Finish, End, AtAll, cache
<1>7. CASE Crash
  BY <1>7 DEF Crash, End, FirstCut, AtAll, cache
<1>8. ASSUME NEW i \in Item, Check(i) PROVE WorkTypes'
  BY <1>8 DEF Check, Go, cache, delay, analysis
<1>9. ASSUME NEW i \in Item, Lock(i) PROVE WorkTypes'
  BY <1>9 DEF Lock, Go, cache, analysis
<1>10. ASSUME NEW i \in Item, Grant(i) PROVE WorkTypes'
  BY <1>10 DEF Grant, Go, cache, analysis
<1>11. ASSUME NEW i \in Item, Create(i) PROVE WorkTypes'
  <2>1. file' \in [Item -> {"none", "cut", "whole", "wrong"}]
    BY <1>11 DEF Create
  <2>2. at' \in [Item -> Place]
    BY <1>11 DEF Create, Go
  <2> QED BY <1>11, <2>1, <2>2 DEF Create
<1>12. ASSUME NEW i \in Item, Send(i) PROVE WorkTypes'
  BY <1>12 DEF Send, Go, delay, analysis
<1>13. ASSUME NEW i \in Item, SendFails(i) PROVE WorkTypes'
  BY <1>13 DEF SendFails, Fail, FirstCut, End, Go, AtAll, delay, analysis, cache
<1>14. ASSUME NEW i \in Item, Unpack(i) PROVE WorkTypes'
  <2>1. content' \in [Item -> {"none", "part", "whole"}]
    BY <1>14 DEF Unpack
  <2>2. at' \in [Item -> Place]
    BY <1>14, SMTT(30) DEF Unpack, Go
  <2> QED BY <1>14, <2>1, <2>2 DEF Unpack
<1>15. ASSUME NEW i \in Item, Unpacked(i) PROVE WorkTypes'
  <2>1. content' \in [Item -> {"none", "part", "whole"}]
    BY <1>15 DEF Unpacked
  <2>2. at' \in [Item -> Place]
    BY <1>15 DEF Unpacked, Go
  <2> QED BY <1>15, <2>1, <2>2 DEF Unpacked
<1>16. ASSUME NEW i \in Item, UnpackFails(i) PROVE WorkTypes'
  BY <1>16 DEF UnpackFails, Fail, FirstCut, End, Go, AtAll, cache, delay, analysis
<1>17. ASSUME NEW c \in Crate, StartRudra(c) PROVE WorkTypes'
  BY <1>17 DEF StartRudra, Go, cache, delay
<1>18. ASSUME NEW c \in Crate, RudraEnds(c) PROVE WorkTypes'
  BY <1>18 DEF RudraEnds, Flush, Path, Go, cache, delay
<1>19. ASSUME NEW c \in Crate, Timeout(c) PROVE WorkTypes'
  BY <1>19 DEF Timeout, Go, cache, delay
<1>20. ASSUME NEW c \in Crate, Clean(c) PROVE WorkTypes'
  BY <1>20 DEF Clean, Go, cache, delay, analysis
<1>21. ASSUME NEW c \in Crate, Found(c) PROVE WorkTypes'
  BY <1>21 DEF Found, cache, delay
<1>22. ASSUME NEW o \in orphans, OrphanEnds(o) PROVE WorkTypes'
  BY <1>22 DEF OrphanEnds, Flush, Path, cache, delay
<1>23. ASSUME NEW o \in orphans, OrphanDies(o) PROVE WorkTypes'
  BY <1>23 DEF OrphanDies, cache, delay
<1> QED BY Steps, <1>1, <1>2, <1>3, <1>4, <1>5, <1>6, <1>7, <1>8, <1>9, <1>10,
           <1>11, <1>12, <1>13, <1>14, <1>15, <1>16, <1>17, <1>18, <1>19, <1>20, <1>21, <1>22, <1>23

(* The lock, the clocks and the sleeps keep their types: only download and *)
(* the passing of time touch them.                                         *)
LEMMA DelayNext ==
  ASSUME CampaignIInv, CampaignNext
  PROVE  DelayTypes'
<1> USE DEF CampaignIInv, CampaignTypeOK, DelayTypes
<1>1. CASE Start
  BY <1>1 DEF Start, AtAll, NoReports, cache
<1>2. CASE Tick
  BY <1>2 DEF Tick, cache, analysis
<1>3. CASE List
  BY <1>3 DEF List, cache, delay, analysis
<1>4. CASE ListFails
  BY <1>4 DEF ListFails, End, AtAll, cache
<1>5. CASE Choose
  BY <1>5 DEF Choose, cache, delay, analysis
<1>6. CASE Finish
  BY <1>6 DEF Finish, End, AtAll, cache
<1>7. CASE Crash
  BY <1>7 DEF Crash, End, FirstCut, AtAll, cache
<1>8. ASSUME NEW i \in Item, Check(i) PROVE DelayTypes'
  BY <1>8 DEF Check, Go, cache, delay, analysis
<1>9. ASSUME NEW i \in Item, Lock(i) PROVE DelayTypes'
  BY <1>9 DEF Lock, Go, cache, analysis
<1>10. ASSUME NEW i \in Item, Grant(i) PROVE DelayTypes'
  BY <1>10 DEF Grant, Go, cache, analysis
<1>11. ASSUME NEW i \in Item, Create(i) PROVE DelayTypes'
  BY <1>11 DEF Create, Go, delay, analysis
<1>12. ASSUME NEW i \in Item, Send(i) PROVE DelayTypes'
  BY <1>12 DEF Send, Go, delay, analysis
<1>13. ASSUME NEW i \in Item, SendFails(i) PROVE DelayTypes'
  BY <1>13, SMTT(30) DEF SendFails, Fail, FirstCut, End, Go, AtAll, delay, analysis, cache
<1>14. ASSUME NEW i \in Item, Unpack(i) PROVE DelayTypes'
  BY <1>14 DEF Unpack, Go, delay, analysis
<1>15. ASSUME NEW i \in Item, Unpacked(i) PROVE DelayTypes'
  BY <1>15 DEF Unpacked, Go, delay, analysis
<1>16. ASSUME NEW i \in Item, UnpackFails(i) PROVE DelayTypes'
  BY <1>16, SMTT(30) DEF UnpackFails, Fail, FirstCut, End, Go, AtAll, cache, delay, analysis
<1>17. ASSUME NEW c \in Crate, StartRudra(c) PROVE DelayTypes'
  BY <1>17 DEF StartRudra, Go, cache, delay
<1>18. ASSUME NEW c \in Crate, RudraEnds(c) PROVE DelayTypes'
  BY <1>18 DEF RudraEnds, Flush, Path, Go, cache, delay
<1>19. ASSUME NEW c \in Crate, Timeout(c) PROVE DelayTypes'
  BY <1>19 DEF Timeout, Go, cache, delay
<1>20. ASSUME NEW c \in Crate, Clean(c) PROVE DelayTypes'
  BY <1>20 DEF Clean, Go, cache, delay, analysis
<1>21. ASSUME NEW c \in Crate, Found(c) PROVE DelayTypes'
  BY <1>21 DEF Found, cache, delay
<1>22. ASSUME NEW o \in orphans, OrphanEnds(o) PROVE DelayTypes'
  BY <1>22 DEF OrphanEnds, Flush, Path, cache, delay
<1>23. ASSUME NEW o \in orphans, OrphanDies(o) PROVE DelayTypes'
  BY <1>23 DEF OrphanDies, cache, delay
<1> QED BY Steps, <1>1, <1>2, <1>3, <1>4, <1>5, <1>6, <1>7, <1>8, <1>9, <1>10,
           <1>11, <1>12, <1>13, <1>14, <1>15, <1>16, <1>17, <1>18, <1>19, <1>20, <1>21, <1>22, <1>23

(* The Rudra processes and their report files keep their types, whoever is *)
(* alive and whoever only survives its cargo.                              *)
LEMMA RudraNext ==
  ASSUME CampaignIInv, CampaignNext
  PROVE  RudraTypes'
<1> USE DEF CampaignIInv, CampaignTypeOK, RudraTypes, ProcessesOK, ReportOf
<1>1. CASE Start
  BY <1>1 DEF Start, AtAll, NoReports, cache
<1>2. CASE Tick
  BY <1>2 DEF Tick, cache, analysis
<1>3. CASE List
  BY <1>3 DEF List, cache, delay, analysis
<1>4. CASE ListFails
  BY <1>4 DEF ListFails, End, AtAll, cache
<1>5. CASE Choose
  BY <1>5 DEF Choose, cache, delay, analysis
<1>6. CASE Finish
  BY <1>6 DEF Finish, End, AtAll, cache
<1>7. CASE Crash
  BY <1>7 DEF Crash, End, FirstCut, AtAll, cache
<1>8. ASSUME NEW i \in Item, Check(i) PROVE RudraTypes'
  BY <1>8 DEF Check, Go, cache, delay, analysis
<1>9. ASSUME NEW i \in Item, Lock(i) PROVE RudraTypes'
  BY <1>9 DEF Lock, Go, cache, analysis
<1>10. ASSUME NEW i \in Item, Grant(i) PROVE RudraTypes'
  BY <1>10 DEF Grant, Go, cache, analysis
<1>11. ASSUME NEW i \in Item, Create(i) PROVE RudraTypes'
  BY <1>11 DEF Create, Go, delay, analysis
<1>12. ASSUME NEW i \in Item, Send(i) PROVE RudraTypes'
  BY <1>12 DEF Send, Go, delay, analysis
<1>13. ASSUME NEW i \in Item, SendFails(i) PROVE RudraTypes'
  BY <1>13 DEF SendFails, Fail, FirstCut, End, Go, AtAll, delay, analysis, cache
<1>14. ASSUME NEW i \in Item, Unpack(i) PROVE RudraTypes'
  BY <1>14 DEF Unpack, Go, delay, analysis
<1>15. ASSUME NEW i \in Item, Unpacked(i) PROVE RudraTypes'
  BY <1>15 DEF Unpacked, Go, delay, analysis
<1>16. ASSUME NEW i \in Item, UnpackFails(i) PROVE RudraTypes'
  BY <1>16 DEF UnpackFails, Fail, FirstCut, End, Go, AtAll, cache, delay, analysis
<1>17. ASSUME NEW c \in Crate, StartRudra(c) PROVE RudraTypes'
  BY <1>17, SMTT(30) DEF StartRudra, Go, cache, delay
<1>18. ASSUME NEW c \in Crate, RudraEnds(c) PROVE RudraTypes'
  <2>1. target[c] \in 1 .. Len(Targets) /\ found[c] \in 0 .. MaxReports
    OBVIOUS
  <2>2. found' \in [Crate -> 0 .. MaxReports]
    BY <1>18 DEF RudraEnds
  <2>3. target' \in [Crate -> 1 .. Len(Targets)]
    <3>1. CASE UNCHANGED target
      BY <3>1
    <3>2. CASE target[c] < Len(Targets) /\ target' = [target EXCEPT ![c] = @ + 1]
      <4>1. target[c] + 1 \in 1 .. Len(Targets)
        BY <2>1, <3>2
      <4> QED BY <3>2, <4>1
    <3> QED BY <1>18, <3>1, <3>2 DEF RudraEnds
  <2>4. reports' \in [Crate \X (1 .. Len(Targets)) -> 0 .. MaxReports]
    BY <1>18, <2>1 DEF RudraEnds, Flush, Path
  <2>5. ended' \subseteq ReportOf /\ orphans' \subseteq ReportOf
    BY <1>18, <2>1 DEF RudraEnds, Flush
  <2> QED BY <2>2, <2>3, <2>4, <2>5
<1>19. ASSUME NEW c \in Crate, Timeout(c) PROVE RudraTypes'
  <2>1. <<c, target[c], found[c]>> \in ReportOf
    OBVIOUS
  <2> QED BY <1>19, <2>1 DEF Timeout, analysis
<1>20. ASSUME NEW c \in Crate, Clean(c) PROVE RudraTypes'
  BY <1>20 DEF Clean, Go, cache, delay, analysis
<1>21. ASSUME NEW c \in Crate, Found(c) PROVE RudraTypes'
  <2>1. found' \in [Crate -> 0 .. MaxReports]
    BY <1>21 DEF Found
  <2> QED BY <1>21, <2>1 DEF Found
<1>22. ASSUME NEW o \in orphans, OrphanEnds(o) PROVE RudraTypes'
  BY <1>22, SMTT(30) DEF OrphanEnds, Flush, Path, cache, delay
<1>23. ASSUME NEW o \in orphans, OrphanDies(o) PROVE RudraTypes'
  BY <1>23 DEF OrphanDies, cache, delay
<1> QED BY Steps, <1>1, <1>2, <1>3, <1>4, <1>5, <1>6, <1>7, <1>8, <1>9, <1>10,
           <1>11, <1>12, <1>13, <1>14, <1>15, <1>16, <1>17, <1>18, <1>19, <1>20, <1>21, <1>22, <1>23

(* Failures are dated with the campaign they happened in.                  *)
LEMMA CutNext ==
  ASSUME CampaignIInv, CampaignNext
  PROVE  CutType'
<1> USE DEF CampaignIInv, CampaignTypeOK, CutType
<1>1. CASE Start
  BY <1>1 DEF Start, AtAll, NoReports, cache
<1>2. CASE Tick
  BY <1>2 DEF Tick, cache, analysis
<1>3. CASE List
  BY <1>3 DEF List, cache, delay, analysis
<1>4. CASE ListFails
  BY <1>4 DEF ListFails, End, AtAll, cache
<1>5. CASE Choose
  BY <1>5 DEF Choose, cache, delay, analysis
<1>6. CASE Finish
  BY <1>6 DEF Finish, End, AtAll, cache
<1>7. CASE Crash
  BY <1>7 DEF Crash, End, FirstCut, AtAll, cache
<1>8. ASSUME NEW i \in Item, Check(i) PROVE CutType'
  BY <1>8 DEF Check, Go, cache, delay, analysis
<1>9. ASSUME NEW i \in Item, Lock(i) PROVE CutType'
  BY <1>9 DEF Lock, Go, cache, analysis
<1>10. ASSUME NEW i \in Item, Grant(i) PROVE CutType'
  BY <1>10 DEF Grant, Go, cache, analysis
<1>11. ASSUME NEW i \in Item, Create(i) PROVE CutType'
  BY <1>11 DEF Create, Go, delay, analysis
<1>12. ASSUME NEW i \in Item, Send(i) PROVE CutType'
  BY <1>12 DEF Send, Go, delay, analysis
<1>13. ASSUME NEW i \in Item, SendFails(i) PROVE CutType'
  BY <1>13 DEF SendFails, Fail, FirstCut, End, Go, AtAll, delay, analysis, cache
<1>14. ASSUME NEW i \in Item, Unpack(i) PROVE CutType'
  BY <1>14 DEF Unpack, Go, delay, analysis
<1>15. ASSUME NEW i \in Item, Unpacked(i) PROVE CutType'
  BY <1>15 DEF Unpacked, Go, delay, analysis
<1>16. ASSUME NEW i \in Item, UnpackFails(i) PROVE CutType'
  BY <1>16 DEF UnpackFails, Fail, FirstCut, End, Go, AtAll, cache, delay, analysis
<1>17. ASSUME NEW c \in Crate, StartRudra(c) PROVE CutType'
  BY <1>17 DEF StartRudra, Go, cache, delay
<1>18. ASSUME NEW c \in Crate, RudraEnds(c) PROVE CutType'
  BY <1>18 DEF RudraEnds, Flush, Path, Go, cache, delay
<1>19. ASSUME NEW c \in Crate, Timeout(c) PROVE CutType'
  BY <1>19 DEF Timeout, Go, cache, delay
<1>20. ASSUME NEW c \in Crate, Clean(c) PROVE CutType'
  BY <1>20 DEF Clean, Go, cache, delay, analysis
<1>21. ASSUME NEW c \in Crate, Found(c) PROVE CutType'
  BY <1>21 DEF Found, cache, delay
<1>22. ASSUME NEW o \in orphans, OrphanEnds(o) PROVE CutType'
  BY <1>22 DEF OrphanEnds, Flush, Path, cache, delay
<1>23. ASSUME NEW o \in orphans, OrphanDies(o) PROVE CutType'
  BY <1>23 DEF OrphanDies, cache, delay
<1> QED BY Steps, <1>1, <1>2, <1>3, <1>4, <1>5, <1>6, <1>7, <1>8, <1>9, <1>10,
           <1>11, <1>12, <1>13, <1>14, <1>15, <1>16, <1>17, <1>18, <1>19, <1>20, <1>21, <1>22, <1>23

(* A thread sleeps with the lock, for as long as is missing since the last *)
(* download.                                                               *)
LEMMA SleepNext ==
  ASSUME CampaignIInv, CampaignNext
  PROVE  Sleeping'
<1> USE DEF CampaignIInv, CampaignTypeOK, Sleeping, Phases, Item
<1>1. CASE Start
  BY <1>1 DEF Start, AtAll, NoReports, cache
<1>2. CASE Tick
  BY <1>2, SMTT(30) DEF Tick, cache, analysis
<1>3. CASE List
  BY <1>3 DEF List, cache, delay, analysis
<1>4. CASE ListFails
  BY <1>4 DEF ListFails, End, AtAll, cache
<1>5. CASE Choose
  BY <1>5 DEF Choose, cache, delay, analysis
<1>6. CASE Finish
  BY <1>6 DEF Finish, End, AtAll, cache
<1>7. CASE Crash
  BY <1>7 DEF Crash, End, FirstCut, AtAll, cache
<1>8. ASSUME NEW i \in Item, Check(i) PROVE Sleeping'
  BY <1>8 DEF Check, Go, cache, delay, analysis
<1>9. ASSUME NEW i \in Item, Lock(i) PROVE Sleeping'
  BY <1>9 DEF Lock, Go, cache, analysis
<1>10. ASSUME NEW i \in Item, Grant(i) PROVE Sleeping'
  BY <1>10 DEF Grant, Go, cache, analysis
<1>11. ASSUME NEW i \in Item, Create(i) PROVE Sleeping'
  BY <1>11 DEF Create, Go, delay, analysis
<1>12. ASSUME NEW i \in Item, Send(i) PROVE Sleeping'
  BY <1>12 DEF Send, Go, delay, analysis
<1>13. ASSUME NEW i \in Item, SendFails(i) PROVE Sleeping'
  BY <1>13, SMTT(30) DEF SendFails, Fail, FirstCut, End, Go, AtAll, delay, analysis, cache
<1>14. ASSUME NEW i \in Item, Unpack(i) PROVE Sleeping'
  BY <1>14 DEF Unpack, Go, delay, analysis
<1>15. ASSUME NEW i \in Item, Unpacked(i) PROVE Sleeping'
  BY <1>15 DEF Unpacked, Go, delay, analysis
<1>16. ASSUME NEW i \in Item, UnpackFails(i) PROVE Sleeping'
  BY <1>16 DEF UnpackFails, Fail, FirstCut, End, Go, AtAll, cache, delay, analysis
<1>17. ASSUME NEW c \in Crate, StartRudra(c) PROVE Sleeping'
  BY <1>17 DEF StartRudra, Go, cache, delay
<1>18. ASSUME NEW c \in Crate, RudraEnds(c) PROVE Sleeping'
  BY <1>18 DEF RudraEnds, Flush, Path, Go, cache, delay
<1>19. ASSUME NEW c \in Crate, Timeout(c) PROVE Sleeping'
  BY <1>19 DEF Timeout, Go, cache, delay
<1>20. ASSUME NEW c \in Crate, Clean(c) PROVE Sleeping'
  BY <1>20 DEF Clean, Go, cache, delay, analysis
<1>21. ASSUME NEW c \in Crate, Found(c) PROVE Sleeping'
  BY <1>21 DEF Found, cache, delay
<1>22. ASSUME NEW o \in orphans, OrphanEnds(o) PROVE Sleeping'
  BY <1>22 DEF OrphanEnds, Flush, Path, cache, delay
<1>23. ASSUME NEW o \in orphans, OrphanDies(o) PROVE Sleeping'
  BY <1>23 DEF OrphanDies, cache, delay
<1> QED BY Steps, <1>1, <1>2, <1>3, <1>4, <1>5, <1>6, <1>7, <1>8, <1>9, <1>10,
           <1>11, <1>12, <1>13, <1>14, <1>15, <1>16, <1>17, <1>18, <1>19, <1>20, <1>21, <1>22, <1>23

(* The index comes first, then the crates in it, and nothing runs when the *)
(* program does not.                                                       *)
LEMMA PhasesNext ==
  ASSUME CampaignIInv, CampaignNext
  PROVE  Phases'
<1> USE DEF CampaignIInv, CampaignTypeOK, Phases, Cuts, CutIsPast, FailedIsOut, Item
<1>1. CASE Start
  <2>1. phase' = "index" /\ campaign' = campaign + 1 /\ campaign \in Nat /\ UNCHANGED cut
    BY <1>1 DEF Start
  <2>2. \A c \in Crate : at'[c] = "idle"
    BY <1>1 DEF Start, AtAll
  <2>3. \A c \in Crate : cut[c] \in Nat /\ cut[c] <= campaign
    OBVIOUS
  <2>4. \A c \in Crate : cut'[c] < campaign'
    BY <2>1, <2>3
  <2> QED BY <2>1, <2>2, <2>4, SMTT(30)
<1>2. CASE Tick
  BY <1>2 DEF Tick, cache, analysis
<1>3. CASE List
  BY <1>3 DEF List, cache, delay, analysis
<1>4. CASE ListFails
  BY <1>4 DEF ListFails, End, AtAll, cache
<1>5. CASE Choose
  BY <1>5 DEF Choose, cache, delay, analysis
<1>6. CASE Finish
  BY <1>6 DEF Finish, End, AtAll, cache
<1>7. CASE Crash
  BY <1>7 DEF Crash, End, FirstCut, AtAll, cache
<1>8. ASSUME NEW i \in Item, Check(i) PROVE Phases'
  BY <1>8 DEF Check, Go, cache, delay, analysis
<1>9. ASSUME NEW i \in Item, Lock(i) PROVE Phases'
  BY <1>9 DEF Lock, Go, cache, analysis
<1>10. ASSUME NEW i \in Item, Grant(i) PROVE Phases'
  BY <1>10 DEF Grant, Go, cache, analysis
<1>11. ASSUME NEW i \in Item, Create(i) PROVE Phases'
  BY <1>11 DEF Create, Go, delay, analysis
<1>12. ASSUME NEW i \in Item, Send(i) PROVE Phases'
  BY <1>12 DEF Send, Go, delay, analysis
<1>13. ASSUME NEW i \in Item, SendFails(i) PROVE Phases'
  BY <1>13 DEF SendFails, Fail, FirstCut, End, Go, AtAll, delay, analysis, cache
<1>14. ASSUME NEW i \in Item, Unpack(i) PROVE Phases'
  BY <1>14 DEF Unpack, Go, delay, analysis
<1>15. ASSUME NEW i \in Item, Unpacked(i) PROVE Phases'
  BY <1>15 DEF Unpacked, Go, delay, analysis
<1>16. ASSUME NEW i \in Item, UnpackFails(i) PROVE Phases'
  BY <1>16 DEF UnpackFails, Fail, FirstCut, End, Go, AtAll, cache, delay, analysis
<1>17. ASSUME NEW c \in Crate, StartRudra(c) PROVE Phases'
  BY <1>17 DEF StartRudra, Go, cache, delay
<1>18. ASSUME NEW c \in Crate, RudraEnds(c) PROVE Phases'
  BY <1>18 DEF RudraEnds, Flush, Path, Go, cache, delay
<1>19. ASSUME NEW c \in Crate, Timeout(c) PROVE Phases'
  BY <1>19 DEF Timeout, Go, cache, delay
<1>20. ASSUME NEW c \in Crate, Clean(c) PROVE Phases'
  BY <1>20 DEF Clean, Go, cache, delay, analysis
<1>21. ASSUME NEW c \in Crate, Found(c) PROVE Phases'
  BY <1>21 DEF Found, cache, delay
<1>22. ASSUME NEW o \in orphans, OrphanEnds(o) PROVE Phases'
  BY <1>22 DEF OrphanEnds, Flush, Path, cache, delay
<1>23. ASSUME NEW o \in orphans, OrphanDies(o) PROVE Phases'
  BY <1>23 DEF OrphanDies, cache, delay
<1> QED BY Steps, <1>1, <1>2, <1>3, <1>4, <1>5, <1>6, <1>7, <1>8, <1>9, <1>10,
           <1>11, <1>12, <1>13, <1>14, <1>15, <1>16, <1>17, <1>18, <1>19, <1>20, <1>21, <1>22, <1>23

(* A partial download is never used in the campaign that it failed in;     *)
(* only a campaign after it finds the file or directory and takes it for   *)
(* complete.                                                               *)
LEMMA CutsNext ==
  ASSUME CampaignIInv, CampaignNext
  PROVE  Cuts'
<1> USE DEF CampaignIInv, CampaignTypeOK, Phases, Cuts, CutIsPast, FailedIsOut, PartIsCut, CrateCutOld, IndexCutOld, Item
<1>1. CASE Start
  BY <1>1, SMTT(30) DEF Start, AtAll, NoReports, cache
<1>2. CASE Tick
  BY <1>2 DEF Tick, cache, analysis
<1>3. CASE List
  <2>1. phase' = "fetch" /\ (listed' # Crate => content[Index] = "part")
        /\ UNCHANGED <<campaign, content, cut>>
    BY <1>3 DEF List, cache
  <2>2. \A i \in Item : at'[i] = "done" \/ (at'[i] = "check" /\ i \in Crate)
    <3>1. listed' \subseteq Crate
      BY <1>3 DEF List
    <3> QED BY <1>3, <3>1 DEF List
  <2>3. phase = "index" /\ at[Index] = "list" /\ Index \in Item
    BY <1>3 DEF List
  <2>4. content[Index] = "part" => cut[Index] # 0
    BY <2>3
  <2>5. cut[Index] # campaign \/ cut[Index] = 0
    BY <2>3
  <2>6. cut[Index] <= campaign /\ cut[Index] \in Nat /\ campaign \in Nat
    BY <2>3
  <2>7. \A i \in Item : content[i] = "part" => cut[i] # 0
    BY <2>3
  <2>8. CutIsPast' /\ FailedIsOut'
    <3>1. \A c \in Crate : cut[c] # campaign
      BY <2>3
    <3> QED BY <2>1, <2>2, <3>1
  <2>9. PartIsCut' /\ CrateCutOld'
    BY <2>1, <2>2, <2>7
  <2>10. IndexCutOld'
    BY <2>1, <2>4, <2>5, <2>6
  <2> QED BY <2>8, <2>9, <2>10
<1>4. CASE ListFails
  BY <1>4 DEF ListFails, End, AtAll, cache
<1>5. CASE Choose
  BY <1>5 DEF Choose, cache, delay, analysis
<1>6. CASE Finish
  BY <1>6 DEF Finish, End, AtAll, cache
<1>7. CASE Crash
  BY <1>7 DEF Crash, End, FirstCut, AtAll, cache
<1>8. ASSUME NEW i \in Item, Check(i) PROVE Cuts'
  BY <1>8 DEF Check, Go, cache, delay, analysis
<1>9. ASSUME NEW i \in Item, Lock(i) PROVE Cuts'
  BY <1>9 DEF Lock, Go, cache, analysis
<1>10. ASSUME NEW i \in Item, Grant(i) PROVE Cuts'
  BY <1>10 DEF Grant, Go, cache, analysis
<1>11. ASSUME NEW i \in Item, Create(i) PROVE Cuts'
  BY <1>11 DEF Create, Go, delay, analysis
<1>12. ASSUME NEW i \in Item, Send(i) PROVE Cuts'
  BY <1>12 DEF Send, Go, delay, analysis
<1>13. ASSUME NEW i \in Item, SendFails(i) PROVE Cuts'
  <2>1. content' = content /\ campaign' = campaign /\ at[i] = "send"
    BY <1>13 DEF SendFails, Fail, FirstCut, End, Go, AtAll, delay, analysis, cache
  <2>2. cut' = [j \in Item |-> IF j = i /\ cut[j] = 0 THEN campaign ELSE cut[j]]
    BY <1>13 DEF SendFails, Fail, FirstCut
  <2>3. campaign >= 1 /\ campaign \in Nat /\ \A j \in Item : cut[j] \in Nat
    BY <2>1
  <2>4. CutIsPast'
    BY <2>1, <2>2, <2>3
  <2>5. CASE i = Index
    <3>1. phase' = "idle" /\ \A j \in Item : at'[j] = "idle"
      BY <1>13, <2>5 DEF SendFails, Fail, End, AtAll
    <3>2. \A j \in Item : at[j] # "unpacking"
      BY <2>1, <2>5
    <3>3. PartIsCut'
      BY <2>1, <2>2, <2>3, <3>2
    <3> QED BY <2>4, <3>1, <3>3
  <2>6. CASE i # Index
    <3>1. i \in Crate /\ UNCHANGED <<phase, listed>> /\ at' = [at EXCEPT ![i] = "skipped"]
      BY <1>13, <2>6 DEF SendFails, Fail, Go
    <3>2. \A j \in Item : j # i => at'[j] = at[j] /\ cut'[j] = cut[j]
      BY <2>2, <3>1
    <3>3. at'[i] = "skipped" /\ cut'[i] # 0
      BY <2>2, <2>3, <3>1
    <3>4. FailedIsOut'
      <4>1. \A j \in Item : cut[j] # 0 /\ cut[j] = campaign => at[j] \in {"skipped", "done", "idle"}
        OBVIOUS
      <4> QED BY <2>1, <3>2, <3>3, <4>1
    <3>5. PartIsCut'
      <4>1. \A j \in Item : content[j] = "part" => at[j] = "unpacking" \/ cut[j] # 0
        OBVIOUS
      <4> QED BY <2>1, <3>2, <3>3, <4>1
    <3>6. CrateCutOld'
      <4>1. \A c \in Crate : c # i =>
              at'[c] = at[c] /\ content'[c] = content[c] /\ cut'[c] = cut[c] /\ campaign' = campaign
        BY <2>1, <3>2
      <4>2. CrateCutOld
        OBVIOUS
      <4> HIDE DEF Phases, CampaignIInv, CampaignTypeOK, CutIsPast, FailedIsOut, PartIsCut, IndexCutOld, Cuts
      <4> QED BY <3>3, <4>1, <4>2
    <3>7. IndexCutOld'
      BY <2>1, <2>6, <3>1, <3>2
    <3> QED BY <2>4, <3>4, <3>5, <3>6, <3>7
  <2> QED BY <2>5, <2>6
<1>14. ASSUME NEW i \in Item, Unpack(i) PROVE Cuts'
  <2>1. UNCHANGED <<phase, listed, campaign, cut>> /\ at[i] = "unpack"
    BY <1>14 DEF Unpack
  <2>2. \A j \in Item : j # i => at'[j] = at[j] /\ content'[j] = content[j]
    BY <1>14 DEF Unpack, Go
  <2>3. CutIsPast' /\ IndexCutOld'
    BY <2>1
  <2>4. cut[i] # campaign \/ cut[i] = 0
    BY <2>1
  <2>5. at'[i] = "unpacking" \/ (at'[i] = "fetched" /\ content' = content /\ content[i] # "none")
    BY <1>14 DEF Unpack, Go
  <2>6. FailedIsOut'
    BY <2>1, <2>2, <2>4
  <2>7. PartIsCut'
    BY <2>1, <2>2, <2>5
  <2>8. CrateCutOld'
    <3>1. at'[i] = "fetched" /\ content'[i] # "whole" => cut[i] # 0 /\ cut[i] < campaign
      <4>1. content[i] # "none" /\ content[i] # "whole" => content[i] = "part"
        OBVIOUS
      <4>2. content[i] = "part" => cut[i] # 0
        BY <2>1
      <4>3. cut[i] <= campaign /\ cut[i] \in Nat /\ campaign \in Nat
        BY <2>1
      <4> QED BY <2>4, <2>5, <4>1, <4>2, <4>3
    <3> QED BY <2>1, <2>2, <2>5, <3>1
  <2> QED BY <2>3, <2>6, <2>7, <2>8
<1>15. ASSUME NEW i \in Item, Unpacked(i) PROVE Cuts'
  BY <1>15 DEF Unpacked, Go, delay, analysis
<1>16. ASSUME NEW i \in Item, UnpackFails(i) PROVE Cuts'
  <2>1. content' = content /\ campaign' = campaign /\ at[i] = "unpacking"
    BY <1>16 DEF UnpackFails, Fail, FirstCut, End, Go, AtAll, cache, delay, analysis
  <2>2. cut' = [j \in Item |-> IF j = i /\ cut[j] = 0 THEN campaign ELSE cut[j]]
    BY <1>16 DEF UnpackFails, Fail, FirstCut
  <2>3. campaign >= 1 /\ campaign \in Nat /\ \A j \in Item : cut[j] \in Nat
    BY <2>1
  <2>4. CutIsPast'
    BY <2>1, <2>2, <2>3
  <2>5. CASE i = Index
    <3>1. phase' = "idle" /\ \A j \in Item : at'[j] = "idle"
      BY <1>16, <2>5 DEF UnpackFails, Fail, End, AtAll
    <3>2. \A j \in Item : at[j] = "unpacking" => j = i
      BY <2>1, <2>5
    <3>3. PartIsCut'
      BY <2>1, <2>2, <2>3, <3>2
    <3> QED BY <2>4, <3>1, <3>3
  <2>6. CASE i # Index
    <3>1. i \in Crate /\ UNCHANGED <<phase, listed>> /\ at' = [at EXCEPT ![i] = "skipped"]
      BY <1>16, <2>6 DEF UnpackFails, Fail, Go
    <3>2. \A j \in Item : j # i => at'[j] = at[j] /\ cut'[j] = cut[j]
      BY <2>2, <3>1
    <3>3. at'[i] = "skipped" /\ cut'[i] # 0
      BY <2>2, <2>3, <3>1
    <3>4. FailedIsOut'
      <4>1. \A j \in Item : cut[j] # 0 /\ cut[j] = campaign => at[j] \in {"skipped", "done", "idle"}
        OBVIOUS
      <4> QED BY <2>1, <3>2, <3>3, <4>1
    <3>5. PartIsCut'
      <4>1. \A j \in Item : content[j] = "part" => at[j] = "unpacking" \/ cut[j] # 0
        OBVIOUS
      <4> QED BY <2>1, <3>2, <3>3, <4>1
    <3>6. CrateCutOld'
      <4>1. \A c \in Crate : c # i =>
              at'[c] = at[c] /\ content'[c] = content[c] /\ cut'[c] = cut[c] /\ campaign' = campaign
        BY <2>1, <3>2
      <4>2. CrateCutOld
        OBVIOUS
      <4> HIDE DEF Phases, CampaignIInv, CampaignTypeOK, CutIsPast, FailedIsOut, PartIsCut, IndexCutOld, Cuts
      <4> QED BY <3>3, <4>1, <4>2
    <3>7. IndexCutOld'
      BY <2>1, <2>6, <3>1, <3>2
    <3> QED BY <2>4, <3>4, <3>5, <3>6, <3>7
  <2> QED BY <2>5, <2>6
<1>17. ASSUME NEW c \in Crate, StartRudra(c) PROVE Cuts'
  BY <1>17 DEF StartRudra, Go, cache, delay
<1>18. ASSUME NEW c \in Crate, RudraEnds(c) PROVE Cuts'
  BY <1>18 DEF RudraEnds, Flush, Path, Go, cache, delay
<1>19. ASSUME NEW c \in Crate, Timeout(c) PROVE Cuts'
  BY <1>19 DEF Timeout, Go, cache, delay
<1>20. ASSUME NEW c \in Crate, Clean(c) PROVE Cuts'
  BY <1>20 DEF Clean, Go, cache, delay, analysis
<1>21. ASSUME NEW c \in Crate, Found(c) PROVE Cuts'
  BY <1>21 DEF Found, cache, delay
<1>22. ASSUME NEW o \in orphans, OrphanEnds(o) PROVE Cuts'
  BY <1>22 DEF OrphanEnds, Flush, Path, cache, delay
<1>23. ASSUME NEW o \in orphans, OrphanDies(o) PROVE Cuts'
  BY <1>23 DEF OrphanDies, cache, delay
<1> QED BY Steps, <1>1, <1>2, <1>3, <1>4, <1>5, <1>6, <1>7, <1>8, <1>9, <1>10,
           <1>11, <1>12, <1>13, <1>14, <1>15, <1>16, <1>17, <1>18, <1>19, <1>20, <1>21, <1>22, <1>23

(* Nothing happens to the Rudra processes.                                 *)
LEMMA Unmoved ==
  ASSUME OneProcess, UNCHANGED <<ended, orphans, reports>>, InOrder'
  PROVE  OneProcess'
BY DEF OneProcess, ReportsAreKept, NotYet, Apart, OneOrphan

(* A target has one Rudra process in a campaign, so that its report file   *)
(* has one writer, also when the process outlives its cargo.               *)
LEMMA ProcNext ==
  ASSUME CampaignIInv, CampaignNext
  PROVE  OneProcess'
<1> USE DEF CampaignIInv, CampaignTypeOK, ProcessesOK, Phases, OneProcess, ReportsAreKept, NotYet, Apart,
            OneOrphan, InOrder, Item, ReportOf
<1>1. CASE Start
  BY <1>1 DEF Start, AtAll, NoReports, cache
<1>2. CASE Tick
  BY <1>2 DEF Tick, cache, analysis
<1>3. CASE List
  <2>1. phase = "index" /\ UNCHANGED <<ended, orphans, reports, target>>
    BY <1>3 DEF List, analysis
  <2>2. \A c \in Crate : at[c] = "idle"
    BY <2>1
  <2>3. ended \union orphans = {}
    <3>1. \A e \in ended \union orphans : e[1] \in Crate
      OBVIOUS
    <3> QED BY <2>1, <2>2, <3>1
  <2>4. InOrder'
    BY <2>1, <2>3
  <2> HIDE DEF CampaignTypeOK, Phases, OneProcess, ReportsAreKept, NotYet, Apart, OneOrphan, InOrder
  <2> QED BY <2>1, <2>4, Unmoved
<1>4. CASE ListFails
  BY <1>4 DEF ListFails, End, AtAll, cache
<1>5. CASE Choose
  <2>1. phase = "fetch" /\ UNCHANGED <<ended, orphans, reports, target>>
    BY <1>5 DEF Choose, analysis
  <2>2. \A c \in Crate : at[c] \in {"fetched", "skipped", "done"}
    BY <1>5, <2>1 DEF Choose
  <2>3. \A c \in Crate : at'[c] # "done" => at[c] = "fetched"
    BY <1>5 DEF Choose
  <2>4. InOrder'
    BY <2>1, <2>2, <2>3
  <2> HIDE DEF CampaignTypeOK, Phases, OneProcess, ReportsAreKept, NotYet, Apart, OneOrphan, InOrder
  <2> QED BY <2>1, <2>4, Unmoved
<1>6. CASE Finish
  BY <1>6 DEF Finish, End, AtAll, cache
<1>7. CASE Crash
  BY <1>7 DEF Crash, End, FirstCut, AtAll, cache
<1>8. ASSUME NEW i \in Item, Check(i) PROVE OneProcess'
  BY <1>8 DEF Check, Go, cache, delay, analysis
<1>9. ASSUME NEW i \in Item, Lock(i) PROVE OneProcess'
  BY <1>9 DEF Lock, Go, cache, analysis
<1>10. ASSUME NEW i \in Item, Grant(i) PROVE OneProcess'
  BY <1>10 DEF Grant, Go, cache, analysis
<1>11. ASSUME NEW i \in Item, Create(i) PROVE OneProcess'
  BY <1>11, SMTT(30) DEF Create, Go, delay, analysis
<1>12. ASSUME NEW i \in Item, Send(i) PROVE OneProcess'
  BY <1>12 DEF Send, Go, delay, analysis
<1>13. ASSUME NEW i \in Item, SendFails(i) PROVE OneProcess'
  <2>1. at[i] = "send" /\ UNCHANGED <<ended, orphans, reports, target>>
    BY <1>13 DEF SendFails, Fail, FirstCut, End, Go, AtAll, delay, analysis, cache
  <2>2. phase' = "idle" \/ (phase' = phase /\ \A c \in Crate : c # i => at'[c] = at[c])
    BY <1>13 DEF SendFails, Fail, End, Go
  <2>3. InOrder'
    BY <2>1, <2>2
  <2> HIDE DEF CampaignTypeOK, Phases, OneProcess, ReportsAreKept, NotYet, Apart, OneOrphan, InOrder
  <2> QED BY <2>1, <2>3, Unmoved
<1>14. ASSUME NEW i \in Item, Unpack(i) PROVE OneProcess'
  <2>1. at[i] = "unpack" /\ UNCHANGED <<phase, ended, orphans, reports, target>>
    BY <1>14 DEF Unpack, Go, delay, analysis
  <2>2. \A c \in Crate : c # i => at'[c] = at[c]
    BY <1>14 DEF Unpack, Go
  <2>3. InOrder'
    BY <2>1, <2>2
  <2> HIDE DEF CampaignTypeOK, Phases, OneProcess, ReportsAreKept, NotYet, Apart, OneOrphan, InOrder
  <2> QED BY <2>1, <2>3, Unmoved
<1>15. ASSUME NEW i \in Item, Unpacked(i) PROVE OneProcess'
  BY <1>15 DEF Unpacked, Go, delay, analysis
<1>16. ASSUME NEW i \in Item, UnpackFails(i) PROVE OneProcess'
  <2>1. at[i] = "unpacking" /\ UNCHANGED <<ended, orphans, reports, target>>
    BY <1>16 DEF UnpackFails, Fail, FirstCut, End, Go, AtAll, cache, delay, analysis
  <2>2. phase' = "idle" \/ (phase' = phase /\ \A c \in Crate : c # i => at'[c] = at[c])
    BY <1>16 DEF UnpackFails, Fail, End, Go
  <2>3. InOrder'
    BY <2>1, <2>2
  <2> HIDE DEF CampaignTypeOK, Phases, OneProcess, ReportsAreKept, NotYet, Apart, OneOrphan, InOrder
  <2> QED BY <2>1, <2>3, SMTT(30), Unmoved
<1>17. ASSUME NEW c \in Crate, StartRudra(c) PROVE OneProcess'
  BY <1>17, SMTT(30) DEF StartRudra, Go, cache, delay
<1>18. ASSUME NEW c \in Crate, RudraEnds(c) PROVE OneProcess'
  <2> HIDE DEF Phases, ReportsAreKept, NotYet, Apart, OneOrphan, ReportOf
  <2> HIDE DEF OneProcess, CampaignTypeOK, ProcessesOK
  <2>1. at[c] = "rudra" /\ UNCHANGED <<phase, orphans>>
    BY <1>18 DEF RudraEnds
  <2>2. phase # "idle" /\ target[c] \in 1 .. Len(Targets) /\ found[c] \in 0 .. MaxReports
    BY NextTarget, <2>1
  <2>3. /\ \A e \in ended \union orphans : e[1] = c => e[2] \in Nat /\ e[2] < target[c]
        /\ \A e \in ended \union orphans : ~(e[1] = c /\ e[2] = target[c])
    BY NextTarget, <2>1
  <2>4. Flush(c, target[c], found[c])
    BY <1>18 DEF RudraEnds
  <2>5. ReportsAreKept' /\ NotYet' /\ Apart' /\ OneOrphan'
    <3>1. orphans' \subseteq orphans /\ \A e \in ended \union orphans' : ~(e[1] = c /\ e[2] = target[c])
      BY <2>1, <2>3
    <3> QED BY EndsOnce, <2>2, <2>4, <3>1
  <2>6. ended' = ended \union {<<c, target[c], found[c]>>}
    BY <2>4 DEF Flush
  <2>7. InOrder'
    <3>1. \A d \in Crate : d # c => at'[d] = at[d] /\ target'[d] = target[d]
      BY <1>18 DEF RudraEnds, Go, CampaignTypeOK, Item
    <3>2. at'[c] = "clean" \/ (at'[c] = "rudra" /\ target'[c] = target[c] + 1)
      BY <1>18, <2>1 DEF RudraEnds, Go, CampaignTypeOK
    <3>3. ASSUME NEW d \in Crate, NEW e \in ended \union orphans, e[1] = d
          PROVE  (at'[d] = "rudra" /\ e[2] < target'[d]) \/ at'[d] \in {"clean", "done"}
      <4>1. CASE d = c
        BY <2>2, <2>3, <3>2, <3>3, <4>1
      <4>2. CASE d # c
        BY <2>2, <3>1, <3>3, <4>2 DEF OneProcess
      <4> QED BY <4>1, <4>2
    <3>4. (at'[c] = "rudra" /\ target[c] < target'[c]) \/ at'[c] \in {"clean", "done"}
      BY <2>2, <3>2
    <3>5. \A e \in ended' \union orphans' : e \in ended \union orphans \/ e = <<c, target[c], found[c]>>
      BY <2>1, <2>6
    <3>6. ASSUME NEW d \in Crate, NEW e \in ended' \union orphans', e[1] = d
          PROVE  (at'[d] = "rudra" /\ e[2] < target'[d]) \/ at'[d] \in {"clean", "done"}
      <4>1. CASE e \in ended \union orphans
        BY <3>3, <3>6, <4>1
      <4>2. CASE e = <<c, target[c], found[c]>>
        <5>1. d = c /\ e[2] = target[c]
          BY <3>6, <4>2
        <5> QED BY <3>4, <5>1
      <4> QED BY <3>5, <4>1, <4>2
    <3> QED BY <3>6
  <2> QED BY <2>5, <2>7 DEF OneProcess
<1>19. ASSUME NEW c \in Crate, Timeout(c) PROVE OneProcess'
  <2> HIDE DEF Phases, ReportsAreKept, NotYet, Apart, OneOrphan, ReportOf
  <2>1. at[c] = "rudra"
    BY <1>19 DEF Timeout
  <2> HIDE DEF OneProcess, CampaignTypeOK, ProcessesOK
  <2>2. phase # "idle" /\ target[c] \in 1 .. Len(Targets)
    BY NextTarget, <2>1
  <2>3. \A e \in ended \union orphans : ~(e[1] = c /\ e[2] = target[c])
    BY NextTarget, <2>1
  <2>4. /\ orphans' = orphans \union {<<c, target[c], found[c]>>}
        /\ UNCHANGED <<phase, ended, reports, target>>
    BY <1>19 DEF Timeout
  <2>5. ReportsAreKept' /\ NotYet'
    BY <2>4 DEF OneProcess, ReportsAreKept, NotYet
  <2>6. Apart'
    BY <2>3, <2>4 DEF OneProcess, Apart
  <2>7. OneOrphan'
    <3>1. \A p \in orphans : p[1] = c /\ p[2] = target[c] => FALSE
      BY <2>3
    <3>2. \A p \in orphans' : p \in orphans \/ p = <<c, target[c], found[c]>>
      BY <2>4
    <3> QED BY <3>1, <3>2 DEF OneProcess, OneOrphan
  <2>8. at'[c] = "clean" /\ \A d \in Crate : d # c => at'[d] = at[d]
    BY <1>19 DEF Timeout, Go, CampaignTypeOK, Item
  <2>9. InOrder'
    <3>1. \A e \in ended' \union orphans' : e \in ended \union orphans \/ e = <<c, target[c], found[c]>>
      BY <2>4
    <3>2. ASSUME NEW d \in Crate, NEW e \in ended' \union orphans', e[1] = d
          PROVE  (at'[d] = "rudra" /\ e[2] < target'[d]) \/ at'[d] \in {"clean", "done"}
      <4>1. CASE d = c
        BY <2>8, <4>1
      <4>2. CASE d # c
        <5>1. e \in ended \union orphans
          BY <3>1, <3>2, <4>2
        <5> QED BY <2>2, <2>4, <2>8, <3>2, <4>2, <5>1 DEF OneProcess
      <4> QED BY <4>1, <4>2
    <3> QED BY <3>2
  <2> QED BY <2>5, <2>6, <2>7, <2>9 DEF OneProcess
<1>20. ASSUME NEW c \in Crate, Clean(c) PROVE OneProcess'
  BY <1>20 DEF Clean, Go, cache, delay, analysis
<1>21. ASSUME NEW c \in Crate, Found(c) PROVE OneProcess'
  BY <1>21 DEF Found, cache, delay
<1>22. ASSUME NEW o \in orphans, OrphanEnds(o) PROVE OneProcess'
  <2> HIDE DEF Phases, ReportsAreKept, NotYet, Apart, OneOrphan, InOrder, ReportOf, CampaignTypeOK
  <2>1. /\ o[1] \in Crate /\ o[2] \in 1 .. Len(Targets) /\ o[3] \in 0 .. MaxReports
        /\ o = <<o[1], o[2], o[3]>>
    <3>1. o \in Crate \X (1 .. Len(Targets)) \X (0 .. MaxReports)
      BY DEF ReportOf
    <3> HIDE DEF CampaignIInv, OneProcess, ProcessesOK
    <3> QED BY <3>1
  <2>2. /\ Flush(o[1], o[2], o[3])
        /\ orphans' = orphans \ {o} /\ UNCHANGED <<phase, at, target>>
    BY <1>22 DEF OrphanEnds
  <2>3. \A e \in ended : ~(e[1] = o[1] /\ e[2] = o[2])
    BY DEF Apart
  <2>4. \A p \in orphans' : ~(p[1] = o[1] /\ p[2] = o[2])
    BY <2>2 DEF OneOrphan
  <2>5. ReportsAreKept' /\ NotYet' /\ Apart' /\ OneOrphan'
    <3>1. orphans' \subseteq orphans /\ \A e \in ended \union orphans' : ~(e[1] = o[1] /\ e[2] = o[2])
      BY <2>2, <2>3, <2>4
    <3> HIDE DEF OneProcess, ProcessesOK
    <3> QED BY EndsOnce, <2>1, <2>2, <3>1
  <2>6. ended' \union orphans' \subseteq ended \union orphans
    BY <2>1, <2>2 DEF Flush
  <2>7. InOrder'
    BY <2>2, <2>6 DEF InOrder
  <2> QED BY <2>5, <2>7
<1>23. ASSUME NEW o \in orphans, OrphanDies(o) PROVE OneProcess'
  <2> HIDE DEF Phases, ReportsAreKept, NotYet, Apart, OneOrphan, InOrder, ReportOf
  <2>1. orphans' \subseteq orphans /\ UNCHANGED <<phase, at, target, ended, reports>>
    BY <1>23 DEF OrphanDies
  <2>2. ReportsAreKept' /\ NotYet'
    BY <2>1 DEF ReportsAreKept, NotYet
  <2>3. Apart' /\ OneOrphan'
    BY <2>1 DEF Apart, OneOrphan
  <2>4. InOrder'
    BY <2>1 DEF InOrder
  <2> QED BY <2>2, <2>3, <2>4
<1> QED BY Steps, <1>1, <1>2, <1>3, <1>4, <1>5, <1>6, <1>7, <1>8, <1>9, <1>10,
           <1>11, <1>12, <1>13, <1>14, <1>15, <1>16, <1>17, <1>18, <1>19, <1>20, <1>21, <1>22, <1>23

LetThrough ==
  \A i \in Item : at[i] = "sleep" /\ at'[i] = "create" => lastGrant >= REQUIRED_DELAY

(* In every step that lets a thread through the last one is REQUIRED_DELAY *)
(* ago.                                                                    *)
LEMMA SpacedNext ==
  ASSUME CampaignIInv, CampaignNext
  PROVE  LetThrough
<1> USE DEF CampaignIInv, CampaignTypeOK, Sleeping, Item, LetThrough
<1>1. CASE Start
  BY <1>1 DEF Start, AtAll, NoReports, cache
<1>2. CASE Tick
  BY <1>2 DEF Tick, cache, analysis
<1>3. CASE List
  BY <1>3 DEF List, cache, delay, analysis
<1>4. CASE ListFails
  BY <1>4 DEF ListFails, End, AtAll, cache
<1>5. CASE Choose
  BY <1>5 DEF Choose, cache, delay, analysis
<1>6. CASE Finish
  BY <1>6 DEF Finish, End, AtAll, cache
<1>7. CASE Crash
  BY <1>7 DEF Crash, End, FirstCut, AtAll, cache
<1>8. ASSUME NEW i \in Item, Check(i) PROVE LetThrough
  BY <1>8 DEF Check, Go, cache, delay, analysis
<1>9. ASSUME NEW i \in Item, Lock(i) PROVE LetThrough
  BY <1>9 DEF Lock, Go, cache, analysis
<1>10. ASSUME NEW i \in Item, Grant(i) PROVE LetThrough
  BY <1>10 DEF Grant, Go, cache, analysis
<1>11. ASSUME NEW i \in Item, Create(i) PROVE LetThrough
  BY <1>11 DEF Create, Go, delay, analysis
<1>12. ASSUME NEW i \in Item, Send(i) PROVE LetThrough
  BY <1>12 DEF Send, Go, delay, analysis
<1>13. ASSUME NEW i \in Item, SendFails(i) PROVE LetThrough
  BY <1>13 DEF SendFails, Fail, FirstCut, End, Go, AtAll, delay, analysis, cache
<1>14. ASSUME NEW i \in Item, Unpack(i) PROVE LetThrough
  BY <1>14 DEF Unpack, Go, delay, analysis
<1>15. ASSUME NEW i \in Item, Unpacked(i) PROVE LetThrough
  BY <1>15 DEF Unpacked, Go, delay, analysis
<1>16. ASSUME NEW i \in Item, UnpackFails(i) PROVE LetThrough
  BY <1>16 DEF UnpackFails, Fail, FirstCut, End, Go, AtAll, cache, delay, analysis
<1>17. ASSUME NEW c \in Crate, StartRudra(c) PROVE LetThrough
  BY <1>17 DEF StartRudra, Go, cache, delay
<1>18. ASSUME NEW c \in Crate, RudraEnds(c) PROVE LetThrough
  BY <1>18 DEF RudraEnds, Flush, Path, Go, cache, delay
<1>19. ASSUME NEW c \in Crate, Timeout(c) PROVE LetThrough
  BY <1>19 DEF Timeout, Go, cache, delay
<1>20. ASSUME NEW c \in Crate, Clean(c) PROVE LetThrough
  BY <1>20 DEF Clean, Go, cache, delay, analysis
<1>21. ASSUME NEW c \in Crate, Found(c) PROVE LetThrough
  BY <1>21 DEF Found, cache, delay
<1>22. ASSUME NEW o \in orphans, OrphanEnds(o) PROVE LetThrough
  BY <1>22 DEF OrphanEnds, Flush, Path, cache, delay
<1>23. ASSUME NEW o \in orphans, OrphanDies(o) PROVE LetThrough
  BY <1>23 DEF OrphanDies, cache, delay
<1> QED BY Steps, <1>1, <1>2, <1>3, <1>4, <1>5, <1>6, <1>7, <1>8, <1>9, <1>10,
           <1>11, <1>12, <1>13, <1>14, <1>15, <1>16, <1>17, <1>18, <1>19, <1>20, <1>21, <1>22, <1>23

-----------------------------------------------------------------------------
(* ... and every step keeps it.                                            *)
LEMMA NextIInv ==
  ASSUME CampaignIInv, [CampaignNext]_campaignVars
  PROVE  CampaignIInv'
<1>1. CASE CampaignNext
  <2>1. WorkTypes' /\ DelayTypes' /\ RudraTypes' /\ CutType'
    BY <1>1, WorkNext, DelayNext, RudraNext, CutNext
  <2>2. CampaignTypeOK' /\ ProcessesOK'
    BY <2>1 DEF CampaignTypeOK, WorkTypes, DelayTypes, RudraTypes, CutType
  <2> QED BY <1>1, <2>2, SleepNext, PhasesNext, CutsNext, ProcNext DEF CampaignIInv
<1>2. CASE UNCHANGED campaignVars
  BY <1>2 DEF CampaignIInv, CampaignTypeOK, ProcessesOK, Sleeping, Phases, Cuts, CutIsPast, FailedIsOut, PartIsCut,
       CrateCutOld, IndexCutOld, OneProcess, ReportsAreKept, NotYet, Apart, OneOrphan, InOrder,
       campaignVars
<1> QED BY <1>1, <1>2

(* The inductive invariant: the types, what a sleeping thread waits for,   *)
(* the places of a phase, the dates of failures, and who writes a report.  *)
THEOREM CampaignInvariance == CampaignSpec => []CampaignIInv
<1>1. CampaignInit => CampaignIInv
  BY CampaignInitIInv
<1>2. CampaignIInv /\ [CampaignNext]_campaignVars => CampaignIInv'
  BY NextIInv
<1> QED BY <1>1, <1>2, PTL DEF CampaignSpec

(* Campaigns keep their types.                                             *)
THEOREM CampaignTypeCorrect == CampaignSpec => []CampaignTypeOK
<1>1. CampaignIInv => CampaignTypeOK
  BY DEF CampaignIInv
<1> QED BY CampaignInvariance, <1>1, PTL

(* A crate or an index that is there in part was cut off or failed in an   *)
(* earlier campaign, whatever fails in this one (lib.rs:142-224).          *)
THEOREM OnlyAfterCut == CampaignSpec => []PartialOnlyAfterCut
<1>1. CampaignIInv => PartialOnlyAfterCut
  <2>1. ASSUME CampaignIInv, NEW i \in Item, cut[i] # 0, cut[i] < campaign
        PROVE  cut[i] \in 1 .. campaign - 1
    <3>1. cut[i] \in Nat /\ campaign \in Nat
      BY <2>1 DEF CampaignIInv, CampaignTypeOK
    <3> QED BY <2>1, <3>1
  <2> QED BY <2>1 DEF CampaignIInv, Cuts, CrateCutOld, IndexCutOld, PartialOnlyAfterCut, Item
<1> QED BY CampaignInvariance, <1>1, PTL

(* No report of a Rudra process that ended is lost or overwritten, however *)
(* late it ends (report.rs:24-51).                                         *)
THEOREM Kept == CampaignSpec => []ReportsAreKept
<1>1. CampaignIInv => ReportsAreKept
  BY DEF CampaignIInv, OneProcess
<1> QED BY CampaignInvariance, <1>1, PTL

(* Two downloads are let through REQUIRED_DELAY apart, however many        *)
(* threads download (lib.rs:46-62).                                        *)
THEOREM Spaced == CampaignSpec => DownloadsAreSpaced
<1>1. CampaignIInv /\ [CampaignNext]_campaignVars => [LetThrough]_campaignVars
  <2>1. ASSUME CampaignIInv, CampaignNext PROVE LetThrough
    BY <2>1, SpacedNext
  <2> QED BY <2>1
<1>2. CampaignSpec => [][CampaignNext]_campaignVars
  BY PTL DEF CampaignSpec
<1>3. CampaignSpec => [][LetThrough]_campaignVars
  BY CampaignInvariance, <1>1, <1>2, PTL
<1> QED BY <1>3, PTL DEF DownloadsAreSpaced, LetThrough
=============================================================================
