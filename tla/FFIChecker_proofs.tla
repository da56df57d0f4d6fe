------------------------- MODULE FFIChecker_proofs -------------------------
(***************************************************************************)
(* Proofs about FFIChecker.                                                *)
(*                                                                         *)
(* The abstract domain (FFIDomain, FFIBlock): the memory states are the    *)
(* sets FFIFixpoint takes them for, along a path no variable ever belongs  *)
(* to two allocations, and the join of two paths has what the paths have,  *)
(* for any number of variables, as long as no name extends another one.    *)
(*                                                                         *)
(* The analysis of functions, of any size and with any limit: the work     *)
(* list of one function (FFIFixpoint), and then the summaries of the       *)
(* functions it calls (FFISummary).                                        *)
(*                                                                         *)
(* The runs of a case (FFIEntry): what the analyzer reads is of the code   *)
(* the run began with, for any case, whatever was edited, failed or        *)
(* stopped before.                                                         *)
(***************************************************************************)
EXTENDS FFIBlock, FFIFixpoint, FFISummary, FFIEntry, FiniteSetTheorems, SequenceTheorems, TLAPS

(* Induction up to n, over a set.                                          *)
LEMMA UpTo ==
  ASSUME NEW n \in Nat, NEW S, 0 \in S, \A i \in 1 .. n : i - 1 \in S => i \in S
  PROVE  \A i \in 0 .. n : i \in S
<1> DEFINE T == {i \in 0 .. n : i \notin S}
<1> SUFFICES ASSUME T # {} PROVE FALSE
  OBVIOUS
<1>1. PICK i \in T : \A j \in T : ~ (<<j, i>> \in OpToRel(<, Nat))
  <2>1. T \subseteq Nat
    OBVIOUS
  <2> HIDE DEF T
  <2> QED BY <2>1, WFMin, NatLessThanWellFounded
<1>2. i \in 1 .. n /\ i - 1 \in 0 .. n /\ i - 1 < i
  OBVIOUS
<1>3. <<i - 1, i>> \in OpToRel(<, Nat)
  BY <1>2 DEF OpToRel
<1>4. i - 1 \notin T
  <2> HIDE DEF T
  <2> QED BY <1>1, <1>3
<1> QED BY <1>1, <1>2, <1>4

-----------------------------------------------------------------------------
(***************************************************************************)
(* The abstract domain.                                                    *)
(***************************************************************************)
(* The order of the memory states is inclusion of what they say.           *)
THEOREM OrderIsInclusion ==
  ASSUME NEW a \in MemoryState, NEW b \in MemoryState
  PROVE  AtMost(a, b) <=> Says(a) \subseteq Says(b)
BY DEF MemoryState, AtMost, PartialCmp, Says

(* The join of two memory states says what either of them says.            *)
THEOREM UnionIsUnion ==
  ASSUME NEW a \in MemoryState, NEW b \in MemoryState
  PROVE  Union(a, b) \in MemoryState /\ Says(Union(a, b)) = Says(a) \union Says(b)
BY DEF MemoryState, Union, AtMost, PartialCmp, Says

(* So the join is the least upper bound, whatever the order of the         *)
(* operands and of several joins.                                          *)
COROLLARY UnionIsLeastUpperBound ==
  ASSUME NEW a \in MemoryState, NEW b \in MemoryState, NEW c \in MemoryState
  PROVE  /\ AtMost(a, Union(a, b)) /\ AtMost(b, Union(a, b))
         /\ AtMost(a, c) /\ AtMost(b, c) => AtMost(Union(a, b), c)
BY OrderIsInclusion, UnionIsUnion

-----------------------------------------------------------------------------
(* Block states whose allocations are disjoint sets of variables.          *)
Proper(s) ==
  /\ s = [a \in DOMAIN s |-> s[a]]
  /\ \A a \in DOMAIN s : a \in SUBSET Name
  /\ Disjoint(s)

BlockIInv == state = [p \in Path |-> state[p]] /\ \A p \in Path : Proper(state[p])

(* Leaving out entries keeps a state proper.                               *)
LEMMA WithoutIsProper ==
  ASSUME NEW s, Proper(s), NEW A
  PROVE  Proper(Without(s, A)) /\ DOMAIN Without(s, A) = DOMAIN s \ A
BY DEF Proper, Disjoint, Without

(* An entry that meets no other one can be added.                          *)
LEMMA WithIsProper ==
  ASSUME NEW s, Proper(s), NEW a \in SUBSET Name, NEW m,
         \A b \in DOMAIN s : a # b => a \intersect b = {}
  PROVE  Proper(With(s, a, m))
<1>1. DOMAIN With(s, a, m) = DOMAIN s \union {a}
  BY DEF With
<1>2. With(s, a, m) = [x \in DOMAIN With(s, a, m) |-> With(s, a, m)[x]]
  BY DEF With
<1>3. Disjoint(With(s, a, m))
  BY <1>1 DEF Disjoint, Proper
<1> QED BY <1>1, <1>2, <1>3 DEF Proper

(* What get_allocation may answer: the only entry of the variable, or none *)
(* when there is none.                                                     *)
LEMMA HeldIsTheEntry ==
  ASSUME NEW s, Proper(s), NEW v, NEW a \in Held(s, v)
  PROVE  /\ a \in SUBSET Name
         /\ a = {} \/ a \in DOMAIN s
         /\ \A b \in DOMAIN s : b # a => v \notin b
         /\ \A b \in DOMAIN s : b # a => a \intersect b = {}
<1> DEFINE found == {x \in DOMAIN s : v \in x}
<1>1. CASE found = {}
  <2>1. a = {}
    BY <1>1 DEF Held
  <2> QED BY <1>1, <2>1
<1>2. CASE found # {}
  <2>1. a \in DOMAIN s /\ v \in a
    BY <1>2 DEF Held
  <2> QED BY <2>1 DEF Proper, Disjoint
<1> QED BY <1>1, <1>2

LEMMA SetTaintedIsProper ==
  ASSUME Dotted = {}, NEW s, Proper(s), NEW v \in Name, NEW m, NEW r \in SetTainted(s, v, m)
  PROVE  Proper(r)
<1>1. WithPrefixes(v) = {v}
  BY DEF WithPrefixes
<1>2. PICK a \in Held(s, v) :
        r = IF m = "Untainted" THEN Without(s, {a}) ELSE With(Without(s, {a}), a \union {v}, m)
  BY <1>1 DEF SetTainted
<1>3. Proper(Without(s, {a})) /\ DOMAIN Without(s, {a}) = DOMAIN s \ {a}
  BY WithoutIsProper
<1>4. a \union {v} \in SUBSET Name
  BY HeldIsTheEntry
<1>5. \A b \in DOMAIN Without(s, {a}) : (a \union {v}) \intersect b = {}
  BY <1>3, HeldIsTheEntry
<1>6. Proper(With(Without(s, {a}), a \union {v}, m))
  BY <1>3, <1>4, <1>5, WithIsProper
<1> QED BY <1>2, <1>3, <1>6

LEMMA PropagateIsProper ==
  ASSUME NEW s, Proper(s), NEW from \in Name, NEW to \in Name,
         NEW r \in PropagateTaint(s, from, to)
  PROVE  Proper(r)
<1>1. PICK fa \in Held(s, from), ta \in Held(s, to) :
        r = IF fa = {} THEN Detached(s, ta, to) ELSE Merged(s, fa, ta, to)
  BY DEF PropagateTaint
<1>2. /\ fa \in SUBSET Name /\ ta \in SUBSET Name
      /\ \A b \in DOMAIN s : b # fa => fa \intersect b = {}
      /\ \A b \in DOMAIN s : b # ta => ta \intersect b = {} /\ to \notin b
  BY HeldIsTheEntry
<1>3. Proper(Detached(s, ta, to))
  <2>1. Proper(Without(s, {ta})) /\ DOMAIN Without(s, {ta}) = DOMAIN s \ {ta}
    BY WithoutIsProper
  <2>2. \A b \in DOMAIN Without(s, {ta}) : (ta \ {to}) \intersect b = {}
    BY <1>2, <2>1
  <2>3. ta \ {to} \in SUBSET Name
    BY <1>2
  <2>4. Proper(With(Without(s, {ta}), ta \ {to}, s[ta]))
    BY <2>1, <2>2, <2>3, WithIsProper
  <2> QED BY <2>1, <2>4 DEF Detached
<1>4. Proper(Merged(s, fa, ta, to))
  <2>1. /\ Proper(Without(s, {fa, ta}))
        /\ DOMAIN Without(s, {fa, ta}) = DOMAIN s \ {fa, ta}
    BY WithoutIsProper
  <2>2. \A b \in DOMAIN Without(s, {fa, ta}) : (fa \union ta \union {to}) \intersect b = {}
    BY <1>2, <2>1
  <2>3. fa \union ta \union {to} \in SUBSET Name
    BY <1>2
  <2> QED BY <2>1, <2>2, <2>3, WithIsProper DEF Merged
<1> QED BY <1>1, <1>3, <1>4

(* The walk over an instruction ends in a proper state.                    *)
LEMMA BecomesKeepsIInv ==
  ASSUME BlockIInv, NEW p \in Path, NEW S, \A s \in S : Proper(s), Becomes(p, S)
  PROVE  BlockIInv'
<1>1. PICK s \in S : state' = [state EXCEPT ![p] = s]
  BY DEF Becomes
<1>2. \A q \in Path : Proper(state'[q])
  BY <1>1 DEF BlockIInv
<1>3. state' = [q \in Path |-> state'[q]]
  BY <1>1 DEF BlockIInv
<1> QED BY <1>2, <1>3 DEF BlockIInv

LEMMA RaisedIsProper ==
  ASSUME Dotted = {}, NEW s, Proper(s), NEW v \in Name, NEW m, NEW r \in Raised(s, v, m)
  PROVE  Proper(r)
BY SetTaintedIsProper DEF Raised

LEMMA BlockNextKeepsIInv == Dotted = {} /\ BlockIInv /\ [BlockNext]_blockVars => BlockIInv'
<1> SUFFICES ASSUME Dotted = {}, BlockIInv, [BlockNext]_blockVars PROVE BlockIInv'
  OBVIOUS
<1> USE SetTaintedIsProper, PropagateIsProper
<1>0. \A p \in Path : Proper(state[p])
  BY DEF BlockIInv
<1>1. ASSUME NEW p \in Path, NEW v \in Name, Source(p, v) PROVE BlockIInv'
  <2>1. \A s \in SetTainted(state[p], v, "Tainted") : Proper(s)
    BY <1>0
  <2> QED BY <1>1, <2>1, BecomesKeepsIInv DEF Source
<1>2. ASSUME NEW p \in Path, NEW from \in Name, NEW to \in Name, Flow(p, from, to) PROVE BlockIInv'
  <2>1. \A s \in PropagateTaint(state[p], from, to) : Proper(s)
    BY <1>0
  <2> QED BY <1>2, <2>1, BecomesKeepsIInv DEF Flow
<1>3. ASSUME NEW p \in Path, NEW from \in Name, NEW to \in Name, Insert(p, from, to) PROVE BlockIInv'
  <2> DEFINE S == UNION {SetTainted(state[p], to, m) : m \in MemoryStates(state[p], from)}
  <2>1. \A s \in S : Proper(s)
    BY <1>0
  <2> QED BY <1>3, <2>1, BecomesKeepsIInv DEF Insert
<1>4. ASSUME NEW p \in Path, NEW x \in Name, NEW y \in Name, NEW to \in Name,
             Shuffle(p, x, y, to)
      PROVE  BlockIInv'
  <2> DEFINE S == UNION {SetTainted(state[p], to, Union(m, n)) :
                           m \in MemoryStates(state[p], x), n \in MemoryStates(state[p], y)}
  <2>1. \A s \in S : Proper(s)
    BY <1>0
  <2> QED BY <1>4, <2>1, BecomesKeepsIInv DEF Shuffle
<1>5. ASSUME NEW p \in Path, NEW v \in Name, NEW to \in Name, NEW m
      PROVE  \A s \in Lent(state[p], v, m, to) : Proper(s)
  BY <1>0, RaisedIsProper DEF Lent
<1>6. ASSUME NEW p \in Path, NEW v \in Name, NEW to \in Name, Borrow(p, v, to) PROVE BlockIInv'
  BY <1>5, <1>6, BecomesKeepsIInv DEF Borrow
<1>7. ASSUME NEW p \in Path, NEW v \in Name, NEW to \in Name, Forget(p, v, to) PROVE BlockIInv'
  BY <1>5, <1>7, BecomesKeepsIInv DEF Forget
<1>8. ASSUME NEW p \in Path, NEW v \in Name, ForgetInPlace(p, v) PROVE BlockIInv'
  <2>1. \A s \in Raised(state[p], v, "Forgotten") : Proper(s)
    BY <1>0, RaisedIsProper
  <2> QED BY <1>8, <2>1, BecomesKeepsIInv DEF ForgetInPlace
<1>9. ASSUME NEW p \in Path, NEW v \in Name, NEW to \in Name, Adopt(p, v, to) PROVE BlockIInv'
  <2> DEFINE S == UNION {PropagateTaint(r, v, to) : r \in Adopted(state[p], v)}
  <2>1. \A r \in Adopted(state[p], v) : Proper(r)
    BY <1>0 DEF Adopted
  <2>2. \A s \in S : Proper(s)
    BY <2>1
  <2> QED BY <1>9, <2>2, BecomesKeepsIInv DEF Adopt
<1>10. ASSUME NEW p \in Path, NEW arg \in Name, NEW dest \in Name,
              NEW end \in MemoryState, NEW back \in MemoryState,
              Call(p, arg, end, dest, back)
       PROVE  BlockIInv'
  <2> DEFINE S == UNION {SetTainted(r, arg, end) : r \in SetTainted(state[p], dest, back)}
  <2>1. \A s \in S : Proper(s)
    BY <1>0
  <2> QED BY <1>10, <2>1, BecomesKeepsIInv DEF Call
<1>11. ASSUME NEW p \in Path, NEW from \in Name, NEW to \in Name, Phi(p, from, to) PROVE BlockIInv'
  <2>1. \A r \in PhiTakes(state[p], from, to) : Proper(r)
    BY <1>0 DEF PhiTakes
  <2>2. \A s \in PhiOf(state[p], from, to) : Proper(s)
    BY <2>1 DEF PhiOf
  <2> QED BY <1>11, <2>2, BecomesKeepsIInv DEF Phi
<1>12. CASE Meet \/ UNCHANGED blockVars
  BY <1>12 DEF Meet, blockVars, BlockIInv
<1> QED BY <1>1, <1>2, <1>3, <1>4, <1>6, <1>7, <1>8, <1>9, <1>10, <1>11, <1>12 DEF BlockNext

LEMMA BlockInitIInv == BlockInit => BlockIInv
BY DEF BlockInit, BlockIInv, Proper, Disjoint, EmptyState

(* When no name extends another one, the instructions of a path keep every *)
(* variable in at most one allocation.                                     *)
THEOREM AllocationsStayApart ==
  ASSUME Dotted = {}
  PROVE  BlockSpec => []OneAllocationPerVariable
<1>1. BlockIInv => OneAllocationPerVariable
  BY DEF BlockIInv, Proper, OneAllocationPerVariable
<1>2. BlockIInv /\ [BlockNext]_blockVars => BlockIInv'
  BY BlockNextKeepsIInv
<1> QED BY <1>1, <1>2, BlockInitIInv, PTL DEF BlockSpec

-----------------------------------------------------------------------------
(***************************************************************************)
(* The join of two paths.                                                  *)
(***************************************************************************)
(* A block state by its domain and its values.                             *)
LEMMA BlockStates ==
  ASSUME NEW s
  PROVE  s \in BlockState <=>
           /\ s = [a \in DOMAIN s |-> s[a]]
           /\ \A a \in DOMAIN s : /\ a \in SUBSET Name /\ a # {}
                                  /\ s[a] \in MemoryState /\ s[a] # "Untainted"
<1>1. ASSUME s \in BlockState
      PROVE  /\ s = [a \in DOMAIN s |-> s[a]]
             /\ \A a \in DOMAIN s : /\ a \in SUBSET Name /\ a # {}
                                    /\ s[a] \in MemoryState /\ s[a] # "Untainted"
  <2>1. PICK A \in SUBSET Allocation : s \in [A -> MemoryState \ {"Untainted"}]
    BY <1>1 DEF BlockState
  <2> QED BY <2>1 DEF Allocation
<1>2. ASSUME s = [a \in DOMAIN s |-> s[a]],
             \A a \in DOMAIN s : /\ a \in SUBSET Name /\ a # {}
                                 /\ s[a] \in MemoryState /\ s[a] # "Untainted"
      PROVE  s \in BlockState
  <2>1. DOMAIN s \in SUBSET Allocation
    BY <1>2 DEF Allocation
  <2>2. s \in [DOMAIN s -> MemoryState \ {"Untainted"}]
    BY <1>2
  <2> QED BY <2>1, <2>2 DEF BlockState
<1> QED BY <1>1, <1>2

LEMMA WithoutIsState ==
  ASSUME NEW s \in BlockState, NEW A
  PROVE  Without(s, A) \in BlockState
<1> DEFINE r == Without(s, A)
<1>1. DOMAIN r = DOMAIN s \ A /\ \A a \in DOMAIN s \ A : r[a] = s[a]
  BY DEF Without
<1>2. r = [a \in DOMAIN r |-> r[a]]
  BY DEF Without
<1> HIDE DEF r
<1>3. r \in BlockState
  BY <1>1, <1>2, BlockStates
<1> QED BY <1>3 DEF r

LEMMA WithIsState ==
  ASSUME NEW s \in BlockState, NEW a \in SUBSET Name, a # {},
         NEW m \in MemoryState \ {"Untainted"}
  PROVE  With(s, a, m) \in BlockState
<1> DEFINE r == With(s, a, m)
<1>1. /\ DOMAIN r = DOMAIN s \union {a}
      /\ \A x \in DOMAIN r : r[x] = IF x = a THEN m ELSE s[x]
  BY DEF With
<1>2. r = [x \in DOMAIN r |-> r[x]]
  BY DEF With
<1> HIDE DEF r
<1>3. r \in BlockState
  BY <1>1, <1>2, BlockStates
<1> QED BY <1>3 DEF r

LEMMA HeldInState ==
  ASSUME NEW s \in BlockState, NEW v, NEW a \in Held(s, v)
  PROVE  /\ a \in SUBSET Name
         /\ a # {} <=> a \in DOMAIN s
         /\ a # {} => v \in a
         /\ (\E b \in DOMAIN s : v \in b) => a # {}
         /\ StateOf(s, a) \in MemoryState
         /\ a # {} => StateOf(s, a) = s[a] /\ s[a] # "Untainted"
<1> DEFINE found == {x \in DOMAIN s : v \in x}
<1>1. CASE found = {}
  <2>1. a = {}
    BY <1>1 DEF Held
  <2>2. {} \notin DOMAIN s
    BY BlockStates
  <2> QED BY <1>1, <2>1, <2>2 DEF StateOf, MemoryState
<1>2. CASE found # {}
  <2>1. a \in DOMAIN s /\ v \in a
    BY <1>2 DEF Held
  <2> QED BY <2>1, BlockStates DEF StateOf
<1> QED BY <1>1, <1>2

LEMMA MemoryStatesType ==
  ASSUME NEW s \in BlockState, NEW v
  PROVE  MemoryStates(s, v) \subseteq MemoryState
BY HeldInState DEF MemoryStates

(* When allocations are disjoint, a variable has one state.                *)
LEMMA OneState ==
  ASSUME NEW s \in BlockState, Disjoint(s), NEW v, NEW a \in Held(s, v)
  PROVE  /\ MemoryStates(s, v) = {StateOf(s, a)}
         /\ \A b \in DOMAIN s : v \in b => b = a
<1>1. \A b \in Held(s, v) : b = a
  BY HeldInState DEF Held, Disjoint
<1>2. \A b \in DOMAIN s : v \in b => b \in Held(s, v)
  BY DEF Held
<1> QED BY <1>1, <1>2 DEF MemoryStates

-----------------------------------------------------------------------------
(* The instructions keep block states.                                     *)
LEMMA SetTaintedIsState ==
  ASSUME NEW s \in BlockState, NEW v \in Name, NEW m \in MemoryState,
         NEW r \in SetTainted(s, v, m)
  PROVE  r \in BlockState
<1>1. PICK a \in Held(s, v) :
        r = IF m = "Untainted" THEN Without(s, {a})
            ELSE With(Without(s, {a}), a \union WithPrefixes(v), m)
  BY DEF SetTainted
<1>2. Without(s, {a}) \in BlockState
  BY WithoutIsState
<1>3. a \union WithPrefixes(v) \in SUBSET Name /\ a \union WithPrefixes(v) # {}
  BY HeldInState DEF WithPrefixes
<1>4. m # "Untainted" => With(Without(s, {a}), a \union WithPrefixes(v), m) \in BlockState
  BY <1>2, <1>3, WithIsState
<1> QED BY <1>1, <1>2, <1>4

LEMMA PropagateIsState ==
  ASSUME NEW s \in BlockState, NEW from \in Name, NEW to \in Name,
         NEW r \in PropagateTaint(s, from, to)
  PROVE  r \in BlockState
<1>1. PICK fa \in Held(s, from), ta \in Held(s, to) :
        r = IF fa = {} THEN Detached(s, ta, to) ELSE Merged(s, fa, ta, to)
  BY DEF PropagateTaint
<1>2. /\ fa \in SUBSET Name /\ ta \in SUBSET Name
      /\ fa # {} => s[fa] \in MemoryState \ {"Untainted"}
      /\ ta # {} => s[ta] \in MemoryState \ {"Untainted"}
  BY HeldInState
<1>3. Detached(s, ta, to) \in BlockState
  <2>1. Without(s, {ta}) \in BlockState
    BY WithoutIsState
  <2>2. CASE ta \ {to} = {}
    BY <2>1, <2>2 DEF Detached
  <2>3. CASE ta \ {to} # {}
    <3>1. ta \ {to} \in SUBSET Name /\ s[ta] \in MemoryState \ {"Untainted"}
      BY <1>2, <2>3
    <3>2. With(Without(s, {ta}), ta \ {to}, s[ta]) \in BlockState
      BY <2>1, <2>3, <3>1, WithIsState
    <3> QED BY <2>3, <3>2 DEF Detached
  <2> QED BY <2>2, <2>3
<1>4. fa # {} => Merged(s, fa, ta, to) \in BlockState
  <2>1. Without(s, {fa, ta}) \in BlockState
    BY WithoutIsState
  <2>2. fa \union ta \union {to} \in SUBSET Name /\ fa \union ta \union {to} # {}
    BY <1>2
  <2> QED BY <1>2, <2>1, <2>2, WithIsState DEF Merged
<1> QED BY <1>1, <1>3, <1>4

-----------------------------------------------------------------------------
(* A walk over the variables of a map comes to all of them, and to no      *)
(* others.                                                                 *)
Tracked(s) == {v \in Name : \E a \in DOMAIN s : v \in a}

LEMMA MentionsFinite ==
  ASSUME NEW s \in BlockState
  PROVE  IsFiniteSet(Mentions(s))
<1>1. IsFiniteSet(Name)
  BY FFIDomainAssumption, FS_Interval DEF Name
<1>2. IsFiniteSet(SUBSET Name)
  BY <1>1, FS_SUBSET
<1>3. IsFiniteSet(DOMAIN s)
  <2>1. DOMAIN s \in SUBSET SUBSET Name
    BY BlockStates
  <2> QED BY <1>2, <2>1, FS_Subset
<1>4. IsFiniteSet((DOMAIN s) \X Name)
  BY <1>1, <1>3, FS_Product
<1>5. Mentions(s) \in SUBSET ((DOMAIN s) \X Name)
  BY DEF Mentions
<1> QED BY <1>4, <1>5, FS_Subset

(* A sequence of all elements of a set, each of them once, has them all.   *)
LEMMA OrderIsComplete ==
  ASSUME NEW S, IsFiniteSet(S), NEW q \in SetToSeqs(S), NEW x \in S
  PROVE  \E i \in 1 .. Cardinality(S) : q[i] = x
<1> DEFINE n == Cardinality(S)
<1>1. n \in Nat
  BY FS_CardinalityType
<1>2. q \in [1 .. n -> S] /\ \A i, j \in 1 .. n : i # j => q[i] # q[j]
  BY DEF SetToSeqs
<1> HIDE DEF n
<1>3. SUFFICES ASSUME \A i \in 1 .. n : q[i] # x PROVE FALSE
  BY DEF n
<1>4. q \in [1 .. n -> S \ {x}]
  BY <1>2, <1>3
<1>5. IsFiniteSet(S \ {x}) /\ Cardinality(S \ {x}) = n - 1
  BY FS_RemoveElement DEF n
<1>6. IsFiniteSet(1 .. n) /\ Cardinality(1 .. n) = n
  BY <1>1, FS_Interval
<1>7. \E i, j \in 1 .. n : i # j /\ q[i] = q[j]
  <2>1. Cardinality(S \ {x}) < Cardinality(1 .. n)
    BY <1>1, <1>5, <1>6
  <2> QED BY <1>4, <1>5, <1>6, <2>1, FS_PigeonHole
<1> QED BY <1>2, <1>7

LEMMA WalkIsComplete ==
  ASSUME NEW s \in BlockState, NEW w \in Walks(s)
  PROVE  /\ w \in Seq(Tracked(s))
         /\ \A v \in Tracked(s) : \E i \in 1 .. Len(w) : w[i] = v
<1> DEFINE M == Mentions(s)
           n == Cardinality(M)
<1>1. PICK q \in MentionOrders(s) : w = [i \in DOMAIN q |-> q[i][2]]
  BY DEF Walks
<1>2. q \in SetToSeqs(M)
  BY <1>1 DEF MentionOrders
<1>3. n \in Nat
  BY MentionsFinite, FS_CardinalityType
<1>4. q \in [1 .. n -> M]
  BY <1>2 DEF SetToSeqs
<1>5. \A m \in M : m[2] \in Tracked(s)
  BY DEF Mentions, Tracked
<1>6. \A v \in Tracked(s) : \E m \in M : m[2] = v
  <2> SUFFICES ASSUME NEW v \in Tracked(s) PROVE \E m \in M : m[2] = v
    OBVIOUS
  <2>1. PICK a \in DOMAIN s : v \in a
    BY DEF Tracked
  <2>2. <<a, v>> \in M
    BY <2>1 DEF Tracked, Mentions
  <2> QED BY <2>2
<1>7. \A m \in M : \E i \in 1 .. n : q[i] = m
  BY <1>2, MentionsFinite, OrderIsComplete
<1> HIDE DEF M, n
<1>8. w = [i \in 1 .. n |-> q[i][2]]
  BY <1>1, <1>4
<1>9. \A i \in 1 .. n : q[i][2] \in Tracked(s)
  BY <1>4, <1>5
<1>10. w \in [1 .. n -> Tracked(s)]
  BY <1>8, <1>9
<1>11. w \in Seq(Tracked(s)) /\ Len(w) = n
  BY <1>3, <1>10
<1>12. ASSUME NEW v \in Tracked(s) PROVE \E i \in 1 .. n : w[i] = v
  <2>1. PICK m \in M : m[2] = v
    BY <1>6
  <2>2. PICK i \in 1 .. n : q[i] = m
    BY <1>7
  <2> QED BY <1>8, <2>1, <2>2
<1> QED BY <1>11, <1>12

-----------------------------------------------------------------------------
(* The results of the first steps of a walk.                               *)
Results(f, a, b, w) ==
  /\ f[0] = {EmptyState}
  /\ \A n \in 1 .. Len(w) : f[n] = UNION {UnionStep(r, a, b, w[n]) : r \in f[n - 1]}

LEMMA ResultsExist ==
  ASSUME NEW a, NEW b, NEW S, NEW w \in Seq(S)
  PROVE  \E f : f = [n \in 0 .. Len(w) |-> f[n]] /\ Results(f, a, b, w)
<1> DEFINE G(n, R) == UNION {UnionStep(r, a, b, w[n]) : r \in R}
           P(n, f) == /\ f = [i \in 0 .. n |-> f[i]]
                      /\ f[0] = {EmptyState}
                      /\ \A i \in 1 .. n : f[i] = G(i, f[i - 1])
           L == {n \in 0 .. Len(w) : \E f : P(n, f)}
<1>0. Len(w) \in Nat
  OBVIOUS
<1>1. 0 \in L
  <2> DEFINE f == [i \in 0 .. 0 |-> {EmptyState}]
  <2>1. f = [i \in 0 .. 0 |-> f[i]] /\ f[0] = {EmptyState}
    OBVIOUS
  <2> HIDE DEF f
  <2>2. P(0, f)
    BY <2>1
  <2> HIDE DEF P
  <2> QED BY <1>0, <2>2
<1>2. ASSUME NEW n \in 1 .. Len(w), n - 1 \in L
      PROVE  n \in L
  <2>1. PICK f : P(n - 1, f)
    BY <1>2
  <2> DEFINE g == [i \in 0 .. n |-> IF i = n THEN G(n, f[n - 1]) ELSE f[i]]
  <2> HIDE DEF G
  <2>2. g = [i \in 0 .. n |-> g[i]] /\ g[0] = {EmptyState} /\ n \in 0 .. Len(w)
    <3>1. n \in Nat /\ 0 \in 0 .. n /\ n # 0 /\ n \in 0 .. Len(w)
      BY <1>0
    <3>2. f[0] = {EmptyState}
      BY <2>1
    <3>3. g[0] = f[0]
      BY <3>1
    <3>4. g = [i \in 0 .. n |-> g[i]]
      OBVIOUS
    <3> QED BY <3>1, <3>2, <3>3, <3>4
  <2>3. ASSUME NEW i \in 1 .. n PROVE g[i] = G(i, g[i - 1])
    <3>1. CASE i = n
      BY <3>1
    <3>2. CASE i # n
      <4>1. i \in 1 .. n - 1 /\ i - 1 \in 0 .. n - 1
        BY <1>0, <3>2
      <4>2. g[i] = f[i] /\ g[i - 1] = f[i - 1]
        BY <1>0, <3>2, <4>1
      <4> QED BY <2>1, <4>1, <4>2
    <3> QED BY <3>1, <3>2
  <2> HIDE DEF g
  <2>4. P(n, g)
    BY <2>2, <2>3
  <2> HIDE DEF P
  <2> QED BY <2>2, <2>4
<1>3. Len(w) \in L
  <2> HIDE DEF L
  <2>1. \A i \in 0 .. Len(w) : i \in L
    BY <1>0, <1>1, <1>2, UpTo
  <2>2. Len(w) \in 0 .. Len(w)
    BY <1>0, <1>1, <1>2
  <2> QED BY <2>1, <2>2
<1> QED BY <1>3 DEF Results

LEMMA UnionUnfolds ==
  ASSUME NEW a, NEW b, NEW S, NEW w \in Seq(S)
  PROVE  \E f : Results(f, a, b, w) /\ UnionAlong(a, b, w) = f[Len(w)]
<1> DEFINE F(f) == [n \in 0 .. Len(w) |->
                      IF n = 0 THEN {EmptyState}
                      ELSE UNION {UnionStep(r, a, b, w[n]) : r \in f[n - 1]}]
           results == CHOOSE f : f = F(f)
<1>0. Len(w) \in Nat
  OBVIOUS
<1>1. UnionAlong(a, b, w) = results[Len(w)]
  BY DEF UnionAlong
<1>2. results = F(results)
  <2>1. PICK f : f = [n \in 0 .. Len(w) |-> f[n]] /\ Results(f, a, b, w)
    BY ResultsExist
  <2>2. f = F(f)
    BY <1>0, <2>1 DEF Results
  <2> QED BY <2>2
<1> HIDE DEF results
<1>3. Results(results, a, b, w)
  <2>1. \A n \in 0 .. Len(w) :
          results[n] = IF n = 0 THEN {EmptyState}
                       ELSE UNION {UnionStep(r, a, b, w[n]) : r \in results[n - 1]}
    BY <1>2
  <2>2. 0 \in 0 .. Len(w) /\ \A n \in 1 .. Len(w) : n \in 0 .. Len(w) /\ n # 0
    BY <1>0
  <2>3. results[0] = {EmptyState}
    BY <2>1, <2>2
  <2>4. ASSUME NEW n \in 1 .. Len(w)
        PROVE  results[n] = UNION {UnionStep(r, a, b, w[n]) : r \in results[n - 1]}
    BY <2>1, <2>2
  <2> QED BY <2>3, <2>4 DEF Results
<1> QED BY <1>1, <1>3

-----------------------------------------------------------------------------
(* A result of the walk so far says only what it may say.                  *)
Faithful(r, a, b) ==
  /\ r \in BlockState
  /\ \A e \in DOMAIN r :
       /\ \E v \in e : \E l \in Held(a, v), m \in Held(b, v) : e = l \union m
       /\ Says(r[e]) \subseteq Heard(a, e) \union Heard(b, e)

(* It has everything there is to say of v.                                 *)
Has(r, a, b, v) ==
  \E e \in DOMAIN r :
    v \in e /\ \A m \in MemoryStates(a, v) \union MemoryStates(b, v) : AtMost(m, r[e])

(* One step of the walk, to a variable that is tracked on a path.          *)
LEMMA StepIsFaithful ==
  ASSUME NEW a \in BlockState, NEW b \in BlockState, Disjoint(a), Disjoint(b),
         NEW v \in Tracked(a) \union Tracked(b),
         NEW r, Faithful(r, a, b), NEW t \in UnionStep(r, a, b, v)
  PROVE  /\ Faithful(t, a, b)
         /\ Has(t, a, b, v)
         /\ \A u : Has(r, a, b, u) => Has(t, a, b, u)
<1>1. PICK ra \in Held(r, v), aa \in Held(a, v), ba \in Held(b, v) :
        t = IF ra # {}
            THEN With(r, ra, Union(Union(r[ra], StateOf(a, aa)), StateOf(b, ba)))
            ELSE With(r, aa \union ba, Union(StateOf(a, aa), StateOf(b, ba)))
  BY DEF UnionStep
<1> DEFINE sa == StateOf(a, aa)
           sb == StateOf(b, ba)
<1>2. r \in BlockState
  BY DEF Faithful
<1>3. /\ sa \in MemoryState /\ sb \in MemoryState
      /\ MemoryStates(a, v) = {sa} /\ MemoryStates(b, v) = {sb}
  BY HeldInState, OneState
<1>4. /\ aa \in SUBSET Name /\ ba \in SUBSET Name /\ v \in aa \union ba
      /\ sa # "Untainted" \/ sb # "Untainted"
  <2>1. aa # {} \/ ba # {}
    BY HeldInState DEF Tracked
  <2>2. aa # {} => v \in aa /\ sa # "Untainted"
    BY HeldInState
  <2>3. ba # {} => v \in ba /\ sb # "Untainted"
    BY HeldInState
  <2>4. aa \in SUBSET Name /\ ba \in SUBSET Name
    BY HeldInState
  <2> QED BY <2>1, <2>2, <2>3, <2>4
<1> HIDE DEF sa, sb
<1>5. \A e : v \in e => Says(sa) \subseteq Heard(a, e) /\ Says(sb) \subseteq Heard(b, e)
  BY <1>3 DEF Heard
<1>6. \E k, y : /\ t = With(r, k, y)
                /\ k \in SUBSET Name /\ v \in k /\ y \in MemoryState
                /\ Says(sa) \union Says(sb) \subseteq Says(y)
                /\ \/ k \in DOMAIN r /\ Says(y) = Says(r[k]) \union Says(sa) \union Says(sb)
                   \/ k \notin DOMAIN r /\ k = aa \union ba /\ Says(y) = Says(sa) \union Says(sb)
  <2>1. CASE ra # {}
    <3> DEFINE y == Union(Union(r[ra], sa), sb)
    <3>1. ra \in DOMAIN r /\ ra \in SUBSET Name /\ v \in ra /\ r[ra] \in MemoryState
      BY <1>2, <2>1, HeldInState
    <3>2. Union(r[ra], sa) \in MemoryState /\ Says(Union(r[ra], sa)) = Says(r[ra]) \union Says(sa)
      BY <1>3, <3>1, UnionIsUnion
    <3>3. y \in MemoryState /\ Says(y) = Says(r[ra]) \union Says(sa) \union Says(sb)
      BY <1>3, <3>2, UnionIsUnion
    <3>4. t = With(r, ra, y)
      BY <1>1, <2>1 DEF sa, sb
    <3> HIDE DEF y
    <3> QED BY <3>1, <3>3, <3>4
  <2>2. CASE ra = {}
    <3> DEFINE y == Union(sa, sb)
               k == aa \union ba
    <3>1. y \in MemoryState /\ Says(y) = Says(sa) \union Says(sb)
      BY <1>3, UnionIsUnion
    <3>2. t = With(r, k, y)
      BY <1>1, <2>2 DEF sa, sb
    <3>3. k \notin DOMAIN r
      BY <1>2, <1>4, <2>2, HeldInState
    <3>4. k \in SUBSET Name /\ v \in k
      BY <1>4
    <3> HIDE DEF y
    <3> QED BY <3>1, <3>2, <3>3, <3>4
  <2> QED BY <2>1, <2>2
<1>7. PICK k, y : /\ t = With(r, k, y)
                  /\ k \in SUBSET Name /\ v \in k /\ y \in MemoryState
                  /\ Says(sa) \union Says(sb) \subseteq Says(y)
                  /\ \/ k \in DOMAIN r /\ Says(y) = Says(r[k]) \union Says(sa) \union Says(sb)
                     \/ k \notin DOMAIN r /\ k = aa \union ba /\ Says(y) = Says(sa) \union Says(sb)
  BY <1>6
<1>8. DOMAIN t = DOMAIN r \union {k} /\ t[k] = y /\ \A e \in DOMAIN r : e # k => t[e] = r[e]
  BY <1>7 DEF With
<1>9. y # "Untainted"
  BY <1>3, <1>4, <1>7 DEF Says, MemoryState
<1>10. t \in BlockState
  BY <1>2, <1>7, <1>9, WithIsState
<1>11. \A e \in DOMAIN r : Says(r[e]) \subseteq Says(t[e])
  BY <1>7, <1>8
<1>12. Faithful(t, a, b)
  <2>1. ASSUME NEW e \in DOMAIN t, e # k
        PROVE  /\ \E u \in e : \E l \in Held(a, u), m \in Held(b, u) : e = l \union m
               /\ Says(t[e]) \subseteq Heard(a, e) \union Heard(b, e)
    BY <1>8, <2>1 DEF Faithful
  <2>2. /\ \E u \in k : \E l \in Held(a, u), m \in Held(b, u) : k = l \union m
        /\ Says(t[k]) \subseteq Heard(a, k) \union Heard(b, k)
    <3>1. Says(sa) \union Says(sb) \subseteq Heard(a, k) \union Heard(b, k)
      BY <1>5, <1>7
    <3>2. CASE k \in DOMAIN r /\ Says(y) = Says(r[k]) \union Says(sa) \union Says(sb)
      <4>1. /\ \E u \in k : \E l \in Held(a, u), m \in Held(b, u) : k = l \union m
            /\ Says(r[k]) \subseteq Heard(a, k) \union Heard(b, k)
        BY <3>2 DEF Faithful
      <4>2. Says(t[k]) = Says(r[k]) \union (Says(sa) \union Says(sb))
        BY <1>8, <3>2
      <4> QED BY <3>1, <4>1, <4>2
    <3>3. CASE k = aa \union ba /\ Says(y) = Says(sa) \union Says(sb)
      BY <1>7, <1>8, <3>1, <3>3
    <3> QED BY <1>7, <3>2, <3>3
  <2>3. ASSUME NEW e \in DOMAIN t
        PROVE  /\ \E u \in e : \E l \in Held(a, u), m \in Held(b, u) : e = l \union m
               /\ Says(t[e]) \subseteq Heard(a, e) \union Heard(b, e)
    <3>1. CASE e # k
      BY <2>1, <3>1
    <3>2. CASE e = k
      BY <2>2, <3>2
    <3> QED BY <3>1, <3>2
  <2> QED BY <1>10, <2>3 DEF Faithful
<1>13. Has(t, a, b, v)
  <2>1. AtMost(sa, y) /\ AtMost(sb, y)
    BY <1>3, <1>7, OrderIsInclusion
  <2>2. \A m \in MemoryStates(a, v) \union MemoryStates(b, v) : AtMost(m, t[k])
    BY <1>3, <1>8, <2>1
  <2> QED BY <1>7, <1>8, <2>2 DEF Has
<1>14. ASSUME NEW u, Has(r, a, b, u) PROVE Has(t, a, b, u)
  <2>1. PICK e \in DOMAIN r :
          u \in e /\ \A m \in MemoryStates(a, u) \union MemoryStates(b, u) : AtMost(m, r[e])
    BY <1>14 DEF Has
  <2>2. e \in DOMAIN t /\ r[e] \in MemoryState /\ t[e] \in MemoryState
    BY <1>2, <1>8, <1>10, BlockStates
  <2>3. \A m \in MemoryStates(a, u) \union MemoryStates(b, u) : m \in MemoryState
    BY MemoryStatesType
  <2>4. \A m \in MemoryStates(a, u) \union MemoryStates(b, u) : AtMost(m, t[e])
    BY <1>11, <2>1, <2>2, <2>3, OrderIsInclusion
  <2> QED BY <2>1, <2>2, <2>4 DEF Has
<1> QED BY <1>12, <1>13, <1>14

(* All results of the join have everything the two sides say of the        *)
(* variables, and nothing else.                                            *)
LEMMA JoinIsComplete ==
  ASSUME NEW a \in BlockState, NEW b \in BlockState, Disjoint(a), Disjoint(b),
         NEW j \in BlockUnion(a, b)
  PROVE  /\ Faithful(j, a, b)
         /\ \A v \in Tracked(a) \union Tracked(b) : Has(j, a, b, v)
<1> DEFINE V == Tracked(a) \union Tracked(b)
<1>1. PICK wa \in Walks(a), wb \in Walks(b) : j \in UnionAlong(a, b, wa \o wb)
  BY DEF BlockUnion
<1> DEFINE w == wa \o wb
<1>2. /\ wa \in Seq(V) /\ \A v \in Tracked(a) : \E i \in 1 .. Len(wa) : wa[i] = v
      /\ wb \in Seq(V) /\ \A v \in Tracked(b) : \E i \in 1 .. Len(wb) : wb[i] = v
  <2>1. \A S : S \subseteq V => Seq(S) \subseteq Seq(V)
    OBVIOUS
  <2> QED BY <2>1, WalkIsComplete
<1> HIDE DEF V
<1>3. /\ w \in Seq(V) /\ Len(w) = Len(wa) + Len(wb)
      /\ \A i \in 1 .. Len(wa) : w[i] = wa[i]
      /\ \A i \in 1 .. Len(wb) : w[Len(wa) + i] = wb[i]
      /\ Len(wa) \in Nat /\ Len(wb) \in Nat
  BY <1>2
<1>4. \A v \in V : \E i \in 1 .. Len(w) : w[i] = v
  <2> SUFFICES ASSUME NEW v \in V PROVE \E i \in 1 .. Len(w) : w[i] = v
    OBVIOUS
  <2>1. CASE v \in Tracked(a)
    <3>1. PICK i \in 1 .. Len(wa) : wa[i] = v
      BY <1>2, <2>1
    <3>2. i \in 1 .. Len(w) /\ w[i] = v
      BY <1>3, <3>1
    <3> QED BY <3>2
  <2>2. CASE v \in Tracked(b)
    <3>1. PICK i \in 1 .. Len(wb) : wb[i] = v
      BY <1>2, <2>2
    <3>2. Len(wa) + i \in 1 .. Len(w) /\ w[Len(wa) + i] = v
      BY <1>3, <3>1
    <3> QED BY <3>2
  <2> QED BY <2>1, <2>2 DEF V
<1> HIDE DEF w
<1>5. PICK f : Results(f, a, b, w) /\ UnionAlong(a, b, w) = f[Len(w)]
  BY <1>3, UnionUnfolds
<1>6. Len(w) \in Nat /\ \A i \in 1 .. Len(w) : w[i] \in V
  BY <1>3
<1> DEFINE Done(n) == \A r \in f[n] : /\ Faithful(r, a, b)
                                      /\ \A i \in 1 .. n : Has(r, a, b, w[i])
           S == {n \in 0 .. Len(w) : Done(n)}
<1>7. 0 \in S
  <2>1. Faithful(EmptyState, a, b)
    <3>1. DOMAIN EmptyState = {} /\ EmptyState = [x \in DOMAIN EmptyState |-> EmptyState[x]]
      BY DEF EmptyState
    <3>2. EmptyState \in BlockState
      BY <3>1, BlockStates
    <3> QED BY <3>1, <3>2 DEF Faithful
  <2>2. f[0] = {EmptyState}
    BY <1>5 DEF Results
  <2>3. Done(0)
    BY <2>1, <2>2
  <2> HIDE DEF Done
  <2> QED BY <1>6, <2>3
<1>8. ASSUME NEW n \in 1 .. Len(w), n - 1 \in S PROVE n \in S
  <2>1. n \in Nat /\ n - 1 \in Nat /\ n \in 0 .. Len(w) /\ w[n] \in V
    BY <1>6
  <2>2. ASSUME NEW t \in f[n]
        PROVE  Faithful(t, a, b) /\ \A i \in 1 .. n : Has(t, a, b, w[i])
    <3>1. PICK r \in f[n - 1] : t \in UnionStep(r, a, b, w[n])
      BY <1>5, <2>2 DEF Results
    <3>2. Faithful(r, a, b) /\ \A i \in 1 .. n - 1 : Has(r, a, b, w[i])
      BY <1>8, <3>1
    <3>3. w[n] \in Tracked(a) \union Tracked(b)
      BY <2>1 DEF V
    <3>4. /\ Faithful(t, a, b) /\ Has(t, a, b, w[n])
          /\ \A u : Has(r, a, b, u) => Has(t, a, b, u)
      BY <3>1, <3>2, <3>3, StepIsFaithful
    <3>5. \A i \in 1 .. n : i \in 1 .. n - 1 \/ i = n
      BY <2>1
    <3> QED BY <3>2, <3>4, <3>5
  <2>3. Done(n)
    BY <2>2
  <2> HIDE DEF Done
  <2> QED BY <2>1, <2>3
<1>9. Len(w) \in S
  <2> HIDE DEF S
  <2>1. \A i \in 0 .. Len(w) : i \in S
    BY <1>6, <1>7, <1>8, UpTo
  <2>2. Len(w) \in 0 .. Len(w)
    BY <1>6, <1>7, <1>8
  <2> QED BY <2>1, <2>2
<1>10. Done(Len(w)) /\ j \in f[Len(w)]
  BY <1>1, <1>5, <1>9 DEF w
<1> QED BY <1>4, <1>10 DEF V

-----------------------------------------------------------------------------
(* Along a path states are block states with disjoint allocations; behind  *)
(* the join there is one of its results.                                   *)
JInv ==
  /\ BlockIInv
  /\ state \in [Path -> BlockState]
  /\ met \in BOOLEAN
  /\ joined \in BlockState
  /\ met => joined \in BlockUnion(state["left"], state["right"])

LEMMA InitJInv == BlockInit => JInv
<1> SUFFICES ASSUME BlockInit PROVE JInv
  OBVIOUS
<1>1. EmptyState \in BlockState
  <2>1. DOMAIN EmptyState = {} /\ EmptyState = [x \in DOMAIN EmptyState |-> EmptyState[x]]
    BY DEF EmptyState
  <2> QED BY <2>1, BlockStates
<1>2. state \in [Path -> BlockState] /\ joined \in BlockState /\ met = FALSE
  BY <1>1 DEF BlockInit
<1> QED BY <1>2, BlockInitIInv DEF JInv

LEMMA BecomesKeepsStates ==
  ASSUME JInv, NEW p \in Path, NEW S, S \subseteq BlockState, Becomes(p, S)
  PROVE  /\ state' \in [Path -> BlockState]
         /\ met' = FALSE /\ joined' \in BlockState
BY DEF JInv, Becomes

LEMMA RaisedIsState ==
  ASSUME NEW s \in BlockState, NEW v \in Name, NEW m \in MemoryState, NEW r \in Raised(s, v, m)
  PROVE  r \in BlockState
BY SetTaintedIsState DEF Raised

(* Every instruction leads from block states to block states.              *)
LEMMA NextKeepsStates ==
  ASSUME JInv, BlockNext, ~ Meet
  PROVE  /\ state' \in [Path -> BlockState]
         /\ met' = FALSE /\ joined' \in BlockState
<1> DEFINE Goal == /\ state' \in [Path -> BlockState]
                   /\ met' = FALSE /\ joined' \in BlockState
<1>0. \A p \in Path : state[p] \in BlockState
  BY DEF JInv
<1>a. ASSUME NEW p \in Path, NEW S, S \subseteq BlockState, Becomes(p, S) PROVE Goal
  BY <1>a, BecomesKeepsStates
<1>b. ASSUME NEW s \in BlockState, NEW v \in Name, NEW m \in MemoryState
      PROVE  SetTainted(s, v, m) \subseteq BlockState
  BY SetTaintedIsState
<1>c. ASSUME NEW s \in BlockState, NEW from \in Name, NEW to \in Name
      PROVE  PropagateTaint(s, from, to) \subseteq BlockState
  BY PropagateIsState
<1>d. ASSUME NEW s \in BlockState, NEW v \in Name
      PROVE  MemoryStates(s, v) \subseteq MemoryState
  BY MemoryStatesType
<1>e. ASSUME NEW s \in BlockState, NEW v \in Name, NEW m \in MemoryState
      PROVE  Raised(s, v, m) \subseteq BlockState
  BY RaisedIsState
<1>m. /\ "Untainted" \in MemoryState /\ "Tainted" \in MemoryState
      /\ "Borrowed" \in MemoryState /\ "Forgotten" \in MemoryState
  BY DEF MemoryState
<1> HIDE DEF Goal
<1>1. ASSUME NEW p \in Path, NEW v \in Name, Source(p, v) PROVE Goal
  <2>1. SetTainted(state[p], v, "Tainted") \subseteq BlockState
    BY <1>0, <1>b, <1>m
  <2> QED BY <1>1, <1>a, <2>1 DEF Source
<1>2. ASSUME NEW p \in Path, NEW from \in Name, NEW to \in Name, Flow(p, from, to) PROVE Goal
  <2>1. PropagateTaint(state[p], from, to) \subseteq BlockState
    BY <1>0, <1>c
  <2> QED BY <1>2, <1>a, <2>1 DEF Flow
<1>3. ASSUME NEW p \in Path, NEW from \in Name, NEW to \in Name, Insert(p, from, to) PROVE Goal
  <2> DEFINE S == UNION {SetTainted(state[p], to, m) : m \in MemoryStates(state[p], from)}
  <2>1. S \subseteq BlockState
    BY <1>0, <1>b, <1>d
  <2> QED BY <1>3, <1>a, <2>1 DEF Insert
<1>4. ASSUME NEW p \in Path, NEW x \in Name, NEW y \in Name, NEW to \in Name,
             Shuffle(p, x, y, to)
      PROVE  Goal
  <2> DEFINE S == UNION {SetTainted(state[p], to, Union(m, n)) :
                           m \in MemoryStates(state[p], x), n \in MemoryStates(state[p], y)}
  <2>1. \A m \in MemoryStates(state[p], x), n \in MemoryStates(state[p], y) :
          Union(m, n) \in MemoryState
    BY <1>0, <1>d, UnionIsUnion
  <2>2. S \subseteq BlockState
    BY <1>0, <1>b, <2>1
  <2> QED BY <1>4, <1>a, <2>2 DEF Shuffle
<1>5. ASSUME NEW p \in Path, NEW v \in Name, NEW to \in Name, NEW m \in MemoryState
      PROVE  Lent(state[p], v, m, to) \subseteq BlockState
  <2>1. \A r \in Raised(state[p], v, m) : r \in BlockState
    BY <1>0, <1>e
  <2>2. \A r \in Raised(state[p], v, m) : PropagateTaint(r, v, to) \subseteq BlockState
    BY <1>c, <2>1
  <2> QED BY <2>2 DEF Lent
<1>6. ASSUME NEW p \in Path, NEW v \in Name, NEW to \in Name,
             Borrow(p, v, to) \/ Forget(p, v, to)
      PROVE  Goal
  BY <1>5, <1>6, <1>a, <1>m DEF Borrow, Forget
<1>7. ASSUME NEW p \in Path, NEW v \in Name, ForgetInPlace(p, v) PROVE Goal
  <2>1. Raised(state[p], v, "Forgotten") \subseteq BlockState
    BY <1>0, <1>e, <1>m
  <2> QED BY <1>7, <1>a, <2>1 DEF ForgetInPlace
<1>8. ASSUME NEW p \in Path, NEW v \in Name, NEW to \in Name, Adopt(p, v, to) PROVE Goal
  <2> DEFINE S == UNION {PropagateTaint(r, v, to) : r \in Adopted(state[p], v)}
  <2>1. \A r \in Adopted(state[p], v) : r \in BlockState
    BY <1>0, <1>b, <1>m DEF Adopted
  <2>2. \A r \in Adopted(state[p], v) : PropagateTaint(r, v, to) \subseteq BlockState
    BY <1>c, <2>1
  <2>3. S \subseteq BlockState
    BY <2>2
  <2> QED BY <1>8, <1>a, <2>3 DEF Adopt
<1>9. ASSUME NEW p \in Path, NEW arg \in Name, NEW dest \in Name,
             NEW end \in MemoryState, NEW back \in MemoryState,
             Call(p, arg, end, dest, back)
      PROVE  Goal
  <2> DEFINE S == UNION {SetTainted(r, arg, end) : r \in SetTainted(state[p], dest, back)}
  <2>1. \A r \in SetTainted(state[p], dest, back) : r \in BlockState
    BY <1>0, <1>b
  <2>2. S \subseteq BlockState
    BY <1>b, <2>1
  <2> QED BY <1>9, <1>a, <2>2 DEF Call
<1>10. ASSUME NEW p \in Path, NEW from \in Name, NEW to \in Name, Phi(p, from, to) PROVE Goal
  <2>1. \A r \in PhiTakes(state[p], from, to) : r \in BlockState
    <3>1. \A m \in MemoryStates(state[p], from) : SetTainted(state[p], to, m) \subseteq BlockState
      BY <1>0, <1>b, <1>d
    <3> QED BY <1>0, <3>1 DEF PhiTakes
  <2>2. \A r \in PhiTakes(state[p], from, to) : SetTainted(r, to, "Untainted") \subseteq BlockState
    BY <1>b, <1>m, <2>1
  <2>3. PhiOf(state[p], from, to) \subseteq BlockState
    BY <2>2 DEF PhiOf
  <2> QED BY <1>10, <1>a, <2>3 DEF Phi
<1>11. Goal
  BY <1>1, <1>2, <1>3, <1>4, <1>6, <1>7, <1>8, <1>9, <1>10 DEF BlockNext
<1> QED BY <1>11 DEF Goal

LEMMA NextKeepsJInv == Dotted = {} /\ JInv /\ [BlockNext]_blockVars => JInv'
<1> SUFFICES ASSUME Dotted = {}, JInv, [BlockNext]_blockVars PROVE JInv'
  OBVIOUS
<1>1. BlockIInv'
  BY BlockNextKeepsIInv DEF JInv
<1>2. CASE Meet
  <2>1. state["left"] \in BlockState /\ state["right"] \in BlockState
        /\ Disjoint(state["left"]) /\ Disjoint(state["right"])
    BY DEF JInv, BlockIInv, Proper, Path
  <2>2. joined' \in BlockState
    BY <1>2, <2>1, JoinIsComplete DEF Meet, Faithful
  <2> QED BY <1>1, <1>2, <2>2 DEF Meet, JInv
<1>3. CASE BlockNext /\ ~ Meet
  <2>1. state' \in [Path -> BlockState] /\ met' = FALSE /\ joined' \in BlockState
    BY <1>3, NextKeepsStates
  <2> QED BY <1>1, <2>1 DEF JInv
<1>4. CASE UNCHANGED blockVars
  BY <1>1, <1>4 DEF blockVars, JInv
<1> QED BY <1>2, <1>3, <1>4

(* y is in an allocation of j that is made of one of s and one of t.       *)
Composed(j, s, t, y) ==
  \E e \in DOMAIN j :
    y \in e /\ \E l \in DOMAIN s \union {{}}, m \in DOMAIN t \union {{}} : e = l \union m

LEMMA ComposedEitherWay ==
  ASSUME NEW j, NEW s, NEW t, NEW y, Composed(j, s, t, y)
  PROVE  Composed(j, t, s, y)
<1>1. PICK e \in DOMAIN j, l \in DOMAIN s \union {{}}, m \in DOMAIN t \union {{}} :
        y \in e /\ e = l \union m
  BY DEF Composed
<1>2. e = m \union l
  BY <1>1
<1> QED BY <1>1, <1>2 DEF Composed

(* Two aliases of s meet again behind the join with t, unless t has them   *)
(* apart.                                                                  *)
LEMMA AliasSurvives ==
  ASSUME NEW s, NEW t, NEW j, NEW u, NEW v, Disjoint(s), Together(s, u, v), ~ Apart(t, u, v),
         Composed(j, s, t, u), Composed(j, s, t, v)
  PROVE  Together(j, u, v)
<1>1. PICK x \in DOMAIN s : u \in x /\ v \in x
  BY DEF Together
<1>2. \A l \in DOMAIN s \union {{}} : u \in l \/ v \in l => l = x
  BY <1>1 DEF Disjoint
<1>3. PICK e \in DOMAIN j, l \in DOMAIN s \union {{}}, m \in DOMAIN t \union {{}} :
        u \in e /\ e = l \union m
  BY DEF Composed
<1>4. CASE u \in l
  BY <1>1, <1>2, <1>3, <1>4 DEF Together
<1>5. CASE u \in m
  <2>1. PICK f \in DOMAIN j, k \in DOMAIN s \union {{}}, n \in DOMAIN t \union {{}} :
          v \in f /\ f = k \union n
    BY DEF Composed
  <2>2. CASE v \in k
    BY <1>1, <1>2, <2>1, <2>2 DEF Together
  <2>3. CASE v \in n
    <3>1. m = n
      BY <1>5, <2>3 DEF Apart
    <3> QED BY <1>3, <1>5, <2>3, <3>1 DEF Together
  <2> QED BY <2>1, <2>2, <2>3
<1> QED BY <1>3, <1>4, <1>5

(* JoinIsFaithful: when no name extends another one, what is known behind  *)
(* a join is what the paths know, for any number of variables, any         *)
(* instructions and any order of the hash maps (BlockState::union).        *)
THEOREM JoinFaithful ==
  ASSUME Dotted = {}
  PROVE  BlockSpec => []JoinIsFaithful
<1>1. ASSUME JInv PROVE JoinIsFaithful
  <2> DEFINE a == state["left"]
             b == state["right"]
  <2>1. /\ a \in BlockState /\ b \in BlockState /\ Disjoint(a) /\ Disjoint(b)
        /\ \A p \in Path : state[p] = a \/ state[p] = b
    BY <1>1 DEF JInv, BlockIInv, Proper, Path
  <2>2. BlockTypeOK
    BY <1>1 DEF JInv, BlockTypeOK
  <2>3. ASSUME met
        PROVE  Faithful(joined, a, b) /\ \A v \in Tracked(a) \union Tracked(b) : Has(joined, a, b, v)
    BY <1>1, <2>1, <2>3, JoinIsComplete DEF JInv
  <2>4. joined \in BlockState
    BY <1>1 DEF JInv
  <2>5. JoinLosesNoState
    <3> SUFFICES ASSUME met, NEW p \in Path, NEW v \in Name, NEW m \in MemoryStates(state[p], v)
                 PROVE  \E n \in MemoryStates(joined, v) : AtMost(m, n)
      BY DEF JoinLosesNoState
    <3>1. m \in MemoryStates(a, v) \union MemoryStates(b, v)
      BY <2>1
    <3>2. CASE v \in Tracked(a) \union Tracked(b)
      <4>1. PICK e \in DOMAIN joined : v \in e /\ AtMost(m, joined[e])
        BY <2>3, <3>1, <3>2 DEF Has
      <4>2. e \in Held(joined, v) /\ StateOf(joined, e) = joined[e]
        BY <4>1 DEF Held, StateOf
      <4> QED BY <4>1, <4>2 DEF MemoryStates
    <3>3. CASE v \notin Tracked(a) \union Tracked(b)
      <4>1. m = "Untainted"
        BY <3>1, <3>3 DEF Tracked, MemoryStates, Held, StateOf
      <4>2. PICK n : n \in MemoryStates(joined, v)
        BY DEF MemoryStates, Held
      <4>3. n \in MemoryState
        BY <2>4, <4>2, MemoryStatesType
      <4>4. AtMost(m, n)
        BY <4>1, <4>3 DEF AtMost, PartialCmp
      <4> QED BY <4>2, <4>4
    <3> QED BY <3>2, <3>3
  <2>6. ASSUME met, NEW y \in Tracked(a) \union Tracked(b)
        PROVE  Composed(joined, a, b, y)
    <3>1. PICK e \in DOMAIN joined : y \in e
      BY <2>3, <2>6 DEF Has
    <3>2. PICK w \in e : \E l \in Held(a, w), m \in Held(b, w) : e = l \union m
      BY <2>3, <2>6 DEF Faithful
    <3>4. PICK l \in Held(a, w), m \in Held(b, w) : e = l \union m
      BY <3>2
    <3>3. l \in DOMAIN a \union {{}} /\ m \in DOMAIN b \union {{}}
      BY <2>1, HeldInState
    <3> QED BY <3>1, <3>4, <3>3 DEF Composed
  <2>7. JoinKeepsAliases
    <3> SUFFICES ASSUME met, NEW p \in Path, NEW q \in Path, p # q, NEW u \in Name, NEW v \in Name,
                        Together(state[p], u, v), ~ Apart(state[q], u, v)
                 PROVE  Together(joined, u, v)
      BY DEF JoinKeepsAliases
    <3>1. u \in Tracked(state[p]) /\ v \in Tracked(state[p])
      BY DEF Together, Tracked
    <3> HIDE DEF a, b
    <3>2. CASE p = "left"
      <4>1. state[p] = a /\ state[q] = b
        BY <3>2 DEF Path, a, b
      <4>2. Composed(joined, a, b, u) /\ Composed(joined, a, b, v)
        BY <2>6, <3>1, <4>1
      <4>3. Disjoint(a) /\ Together(a, u, v) /\ ~ Apart(b, u, v)
        BY <2>1, <4>1
      <4> QED BY ONLY <4>2, <4>3, AliasSurvives
    <3>3. CASE p = "right"
      <4>1. state[p] = b /\ state[q] = a
        BY <3>3 DEF Path, a, b
      <4>2. Composed(joined, a, b, u) /\ Composed(joined, a, b, v)
        BY <2>6, <3>1, <4>1
      <4>3. Composed(joined, b, a, u) /\ Composed(joined, b, a, v)
        BY <4>2, ComposedEitherWay
      <4>4. Disjoint(b) /\ Together(b, u, v) /\ ~ Apart(a, u, v)
        BY <2>1, <4>1
      <4> QED BY ONLY <4>3, <4>4, AliasSurvives
    <3> QED BY <3>2, <3>3 DEF Path
  <2>8. JoinInventsNothing
    BY <2>3 DEF JoinInventsNothing, Faithful
  <2> QED BY <2>2, <2>5, <2>7, <2>8 DEF JoinIsFaithful
<1> QED BY <1>1, InitJInv, NextKeepsJInv, PTL DEF BlockSpec

-----------------------------------------------------------------------------
(***************************************************************************)
(* The work list of one function.  The inductive invariant relates what    *)
(* is stored for a block to the join that is remembered for it: the result *)
(* is the effect of that join, the join never exceeds what the             *)
(* predecessors hold, and a block that is not queued has seen all of it.   *)
(* It needs effects that keep the order of the states, and no block that   *)
(* is its own successor: without the second the loop can stop too early.   *)
(***************************************************************************)
(* The join a result was computed from.                                    *)
Input(b) == IF b = 0 THEN init ELSE old[b]

Regular == MonotoneEffects /\ NoSelfLoops

LimitNoticed == ~ done => iteration <= MaxIteration

UnseenAreQueued ==
  Regular => \A b \in Block : old[b] = None => Queued(b) /\ post[b] = {}

ResultsFollowInput ==
  Regular => \A b \in Block : old[b] # None =>
    /\ post[b] = effect[b][Input(b)]
    /\ old[b] \subseteq FromPredecessors(post, b)

UnqueuedHaveSeenAll ==
  Regular => \A b \in Block : ~ Queued(b) =>
    old[b] # None /\ FromPredecessors(post, b) \subseteq old[b]

IInv ==
  /\ TypeOK
  /\ LimitNoticed
  /\ UnseenAreQueued
  /\ ResultsFollowInput
  /\ UnqueuedHaveSeenAll
  /\ NothingInvented

-----------------------------------------------------------------------------
(* The blocks of a function are finitely many.                             *)
LEMMA BlockFinite == IsFiniteSet(Block)
BY FFIFixpointAssumption, FS_Interval DEF Block

(* An order of a set of blocks is a sequence that holds all of them.       *)
LEMMA OrdersHoldAll ==
  ASSUME NEW S \in SUBSET Block, NEW q \in Orders(S)
  PROVE  /\ q \in Seq(Block)
         /\ \A x \in S : \E i \in 1 .. Len(q) : q[i] = x
<1>1. Cardinality(S) \in Nat
  BY BlockFinite, FS_Subset, FS_CardinalityType
<1>2. q \in [1 .. Cardinality(S) -> S] /\ \A x \in S : \E i \in DOMAIN q : q[i] = x
  BY DEF Orders
<1>3. q \in Seq(Block) /\ Len(q) = Cardinality(S)
  BY <1>1, <1>2
<1> QED BY <1>2, <1>3

Holds(w, b) == \E i \in 1 .. Len(w) : w[i] = b

(* What leaves a queue at its head and what comes in at its end.           *)
LEMMA QueueStep ==
  ASSUME NEW w \in Seq(Block), w # << >>, NEW q \in Seq(Block)
  PROVE  /\ Head(w) \in Block
         /\ Tail(w) \in Seq(Block)
         /\ Tail(w) \o q \in Seq(Block)
         /\ \A b : Holds(w, b) => b = Head(w) \/ Holds(Tail(w), b)
         /\ \A b : Holds(Tail(w), b) \/ Holds(q, b) => Holds(Tail(w) \o q, b)
<1> DEFINE t == Tail(w)
<1>1. /\ Len(w) \in Nat \ {0}
      /\ Head(w) \in Block
      /\ t \in Seq(Block)
      /\ Len(t) = Len(w) - 1
  OBVIOUS
<1>2. t \o q \in Seq(Block) /\ Len(t \o q) = Len(t) + Len(q) /\ Len(q) \in Nat
  BY <1>1
<1>3. ASSUME NEW b, Holds(w, b) PROVE b = Head(w) \/ Holds(t, b)
  <2>1. PICK i \in 1 .. Len(w) : w[i] = b
    BY <1>3 DEF Holds
  <2>2. CASE i = 1
    BY <2>1, <2>2
  <2>3. CASE i # 1
    <3>1. i - 1 \in 1 .. Len(t) /\ t[i - 1] = b
      BY <1>1, <2>1, <2>3
    <3> QED BY <3>1 DEF Holds
  <2> QED BY <2>2, <2>3
<1>4. ASSUME NEW b, Holds(t, b) PROVE Holds(t \o q, b)
  <2>1. PICK i \in 1 .. Len(t) : t[i] = b
    BY <1>4 DEF Holds
  <2>2. i \in 1 .. Len(t \o q) /\ (t \o q)[i] = b
    BY <1>1, <1>2, <2>1
  <2> QED BY <2>2 DEF Holds
<1>5. ASSUME NEW b, Holds(q, b) PROVE Holds(t \o q, b)
  <2>1. PICK i \in 1 .. Len(q) : q[i] = b
    BY <1>5 DEF Holds
  <2>2. Len(t) + i \in 1 .. Len(t \o q) /\ (t \o q)[Len(t) + i] = b
    BY <1>1, <1>2, <2>1
  <2> QED BY <2>2 DEF Holds
<1> QED BY <1>1, <1>2, <1>3, <1>4, <1>5

(* The join over the predecessors is a state, and follows the order of the *)
(* stored states.                                                          *)
LEMMA JoinIsState ==
  ASSUME NEW d \in [Block -> State], NEW b \in Block
  PROVE  FromPredecessors(d, b) \in State
BY DEF FromPredecessors, State

LEMMA JoinIsMonotone ==
  ASSUME NEW d, NEW e, NEW b, \A p \in Block : d[p] \subseteq e[p]
  PROVE  FromPredecessors(d, b) \subseteq FromPredecessors(e, b)
BY DEF FromPredecessors

LEMMA JoinIgnoresOthers ==
  ASSUME NEW d, NEW e, NEW b, \A p \in Block : b \in succ[p] => d[p] = e[p]
  PROVE  FromPredecessors(d, b) = FromPredecessors(e, b)
BY DEF FromPredecessors

-----------------------------------------------------------------------------
LEMMA InitIInv == Init => IInv
<1> SUFFICES ASSUME Init PROVE IInv
  OBVIOUS
<1> USE FFIFixpointAssumption DEF Init
<1>1. \A b \in Block : Queued(b)
  <2>1. TAKE b \in Block
  <2>2. b + 1 \in 1 .. NumBlocks /\ Len(worklist) = NumBlocks /\ worklist[b + 1] = b
    BY DEF Block
  <2> QED BY <2>2 DEF Queued
<1>2. worklist \in Seq(Block)
  BY DEF Block
<1>3. TypeOK
  <2>1. post \in [Block -> State] /\ ret \in State
    BY DEF State
  <2>2. old \in [Block -> {None} \union State]
    OBVIOUS
  <2>3. iteration \in 0 .. MaxIteration + 1
    OBVIOUS
  <2> QED BY <1>2, <2>1, <2>2, <2>3 DEF TypeOK
<1>4. LimitNoticed
  BY DEF LimitNoticed
<1>5. \A b \in Block : old[b] = None /\ post[b] = {}
  OBVIOUS
<1>6. UnseenAreQueued /\ ResultsFollowInput /\ UnqueuedHaveSeenAll
  BY <1>1, <1>5 DEF UnseenAreQueued, ResultsFollowInput, UnqueuedHaveSeenAll
<1>7. NothingInvented
  BY <1>5 DEF NothingInvented
<1> QED BY <1>3, <1>4, <1>6, <1>7 DEF IInv

(* One analysis of the block at the head of the queue: the part of the     *)
(* step that Grow and Settle share.                                        *)
LEMMA AnalyseKeepsTypes ==
  ASSUME TypeOK, LimitNoticed, ~ done, NEW b \in Block, Analyse(b)
  PROVE  /\ effect[b] \in [State -> State]
         /\ PreCondition(post, b) \in State
         /\ post' = [post EXCEPT ![b] = effect[b][PreCondition(post, b)]]
         /\ post' \in [Block -> State]
         /\ ret' \in State
         /\ iteration' \in 0 .. MaxIteration + 1
         /\ done' \in BOOLEAN
         /\ LimitNoticed'
         /\ UNCHANGED function
<1> USE DEF Analyse
<1>1. effect[b] \in [State -> State]
  BY FFIFixpointAssumption DEF TypeOK
<1>2. PreCondition(post, b) \in State
  BY JoinIsState DEF PreCondition, TypeOK
<1>3. post' = [post EXCEPT ![b] = effect[b][PreCondition(post, b)]]
  BY DEF Analysed
<1>4. post' \in [Block -> State]
  BY <1>1, <1>2, <1>3 DEF TypeOK
<1>5. ret' \in State
  BY <1>4 DEF TypeOK
<1>6. iteration' = iteration + 1 /\ iteration \in 0 .. MaxIteration
  BY FFIFixpointAssumption DEF TypeOK, LimitNoticed
<1>7. iteration' \in 0 .. MaxIteration + 1
  BY <1>6, FFIFixpointAssumption
<1>8. done' \in BOOLEAN /\ (~ done' => ~ (iteration' > MaxIteration))
  <2>1. done' = (iteration' > MaxIteration)
    OBVIOUS
  <2>2. (iteration' > MaxIteration) \in BOOLEAN
    OBVIOUS
  <2> QED BY <2>1, <2>2, Zenon
<1>9. LimitNoticed'
  BY <1>7, <1>8, FFIFixpointAssumption DEF LimitNoticed
<1> QED BY <1>1, <1>2, <1>3, <1>4, <1>5, <1>7, <1>8, <1>9

(* No analysis goes beyond a solution.                                     *)
LEMMA AnalyseInventsNothing ==
  ASSUME IInv, ~ done, NEW b \in Block, Analyse(b)
  PROVE  NothingInvented'
<1> SUFFICES ASSUME MonotoneEffects', NEW x \in [Block -> State], Solution(x)',
                    NEW c \in Block
             PROVE  post'[c] \subseteq x[c]
  BY DEF NothingInvented
<1>1. UNCHANGED <<succ, effect, init>> /\ post' = [post EXCEPT ![b] = effect[b][PreCondition(post, b)]]
  BY AnalyseKeepsTypes DEF IInv, function
<1>2. MonotoneEffects /\ Solution(x)
  BY <1>1 DEF MonotoneEffects, Solution, PreCondition, FromPredecessors
<1>3. \A p \in Block : post[p] \subseteq x[p]
  BY <1>2 DEF IInv, NothingInvented
<1>4. CASE c # b
  BY <1>1, <1>3, <1>4 DEF IInv, TypeOK
<1>5. CASE c = b
  <2>1. PreCondition(post, b) \subseteq PreCondition(x, b)
    BY <1>3, JoinIsMonotone DEF PreCondition
  <2>2. PreCondition(post, b) \in State /\ PreCondition(x, b) \in State
    BY JoinIsState DEF PreCondition, IInv, TypeOK
  <2>3. effect[b][PreCondition(post, b)] \subseteq effect[b][PreCondition(x, b)]
    BY <1>2, <2>1, <2>2 DEF MonotoneEffects
  <2>4. effect[b][PreCondition(x, b)] \subseteq x[b]
    BY <1>2 DEF Solution
  <2> QED BY <1>1, <1>5, <2>3, <2>4 DEF IInv, TypeOK
<1> QED BY <1>4, <1>5

(* In a regular function the stored states only grow, and the block that   *)
(* is analysed does not change what it is analysed from.                   *)
LEMMA AnalyseOnlyAdds ==
  ASSUME IInv, Regular, ~ done, NEW b \in Block, Analyse(b)
  PROVE  /\ FromPredecessors(post', b) = FromPredecessors(post, b)
         /\ post'[b] = effect[b][PreCondition(post, b)]
         /\ \A p \in Block \ {b} : post'[p] = post[p]
         /\ \A p \in Block : post[p] \subseteq post'[p]
         /\ \A c \in Block : FromPredecessors(post, c) \subseteq FromPredecessors(post', c)
<1>1. /\ effect[b] \in [State -> State]
      /\ PreCondition(post, b) \in State
      /\ post' = [post EXCEPT ![b] = effect[b][PreCondition(post, b)]]
  BY AnalyseKeepsTypes DEF IInv
<1>2. /\ post'[b] = effect[b][PreCondition(post, b)]
      /\ \A p \in Block \ {b} : post'[p] = post[p]
  BY <1>1 DEF IInv, TypeOK
<1>3. FromPredecessors(post', b) = FromPredecessors(post, b)
  <2>1. \A p \in Block : b \in succ[p] => post'[p] = post[p]
    BY <1>2 DEF Regular, NoSelfLoops
  <2> QED BY <2>1, JoinIgnoresOthers
<1>4. post[b] \subseteq post'[b]
  <2>1. CASE old[b] = None
    BY <2>1 DEF IInv, UnseenAreQueued
  <2>2. CASE old[b] # None
    <3>1. post[b] = effect[b][Input(b)] /\ old[b] \subseteq FromPredecessors(post, b)
      BY <2>2 DEF IInv, ResultsFollowInput
    <3>2. Input(b) \subseteq PreCondition(post, b)
      BY <3>1 DEF Input, PreCondition
    <3>3. Input(b) \in State
      BY <2>2 DEF Input, IInv, TypeOK
    <3> QED BY <1>1, <1>2, <3>1, <3>2, <3>3 DEF Regular, MonotoneEffects
  <2> QED BY <2>1, <2>2
<1>5. \A p \in Block : post[p] \subseteq post'[p]
  BY <1>2, <1>4
<1>6. \A c \in Block : FromPredecessors(post, c) \subseteq FromPredecessors(post', c)
  BY <1>5, JoinIsMonotone
<1> QED BY <1>2, <1>3, <1>5, <1>6

-----------------------------------------------------------------------------
(* The functions a step may turn regular are the regular ones.             *)
LEMMA RegularIsFixed ==
  ASSUME UNCHANGED function
  PROVE  Regular' <=> Regular
BY DEF function, Regular, MonotoneEffects, NoSelfLoops

LEMMA GrowKeepsIInv == IInv /\ Grow => IInv'
<1> SUFFICES ASSUME IInv, Grow PROVE IInv'
  OBVIOUS
<1> DEFINE b == Head(worklist)
<1>1. PICK q \in Orders(succ[b]) :
        /\ ~ done /\ worklist # << >> /\ Analyse(b)
        /\ old' = [old EXCEPT ![b] = FromPredecessors(post', b)]
        /\ worklist' = Tail(worklist) \o q
  BY DEF Grow
<1>2. b \in Block /\ succ[b] \in SUBSET Block
  BY <1>1 DEF IInv, TypeOK
<1>3. q \in Seq(Block) /\ \A c \in succ[b] : Holds(q, c)
  BY <1>1, <1>2, OrdersHoldAll DEF Holds
<1>4. /\ worklist' \in Seq(Block)
      /\ \A c : Holds(worklist, c) => c = b \/ Holds(worklist', c)
      /\ \A c \in succ[b] : Holds(worklist', c)
  BY <1>1, <1>3, QueueStep DEF IInv, TypeOK
<1>5. /\ post' \in [Block -> State] /\ ret' \in State /\ done' \in BOOLEAN
      /\ iteration' \in 0 .. MaxIteration + 1
      /\ LimitNoticed'
      /\ UNCHANGED function
  BY <1>1, <1>2, AnalyseKeepsTypes DEF IInv
<1>6. FromPredecessors(post', b) \in State
  BY <1>2, <1>5, JoinIsState
<1>7. TypeOK'
  BY <1>1, <1>4, <1>5, <1>6 DEF IInv, TypeOK, function
<1>8. NothingInvented'
  BY <1>1, <1>2, AnalyseInventsNothing
<1>9. ASSUME Regular'
      PROVE  \A c \in Block :
               /\ old'[c] = None => Queued(c)' /\ post'[c] = {}
               /\ old'[c] # None =>
                    post'[c] = effect'[c][Input(c)'] /\ old'[c] \subseteq FromPredecessors(post, c)'
               /\ ~ Queued(c)' =>
                    old'[c] # None /\ FromPredecessors(post, c)' \subseteq old'[c]
  <2>1. Regular /\ UNCHANGED <<succ, effect, init>>
    BY <1>5, <1>9, RegularIsFixed DEF function
  <2>2. /\ FromPredecessors(post', b) = FromPredecessors(post, b)
        /\ post'[b] = effect[b][PreCondition(post, b)]
        /\ \A p \in Block \ {b} : post'[p] = post[p]
        /\ \A c \in Block : FromPredecessors(post, c) \subseteq FromPredecessors(post', c)
    BY <1>1, <1>2, <2>1, AnalyseOnlyAdds
  <2>3. \A d, c : FromPredecessors(d, c)' = FromPredecessors(d', c)
    BY <2>1 DEF FromPredecessors
  <2>4. TAKE c \in Block
  <2>5. CASE c = b
    <3>1. old'[c] = FromPredecessors(post', c) /\ old'[c] # None
      BY <1>1, <1>2, <1>6, <2>5, FFIFixpointAssumption DEF IInv, TypeOK
    <3>2. Input(c)' = PreCondition(post, c)
      BY <2>1, <2>2, <2>5, <3>1 DEF Input, PreCondition
    <3>3. post'[c] = effect'[c][Input(c)']
      BY <2>1, <2>2, <2>5, <3>2
    <3>4. FromPredecessors(post, c)' = FromPredecessors(post', c)
      BY <2>1 DEF FromPredecessors
    <3> QED BY <3>1, <3>3, <3>4
  <2>6. CASE c # b
    <3>1. old'[c] = old[c] /\ post'[c] = post[c] /\ Input(c)' = Input(c)
      BY <1>1, <1>2, <2>1, <2>2, <2>6 DEF IInv, TypeOK, Input
    <3>2. Queued(c) => Queued(c)'
      BY <1>4, <2>6 DEF Holds, Queued
    <3>3. old[c] = None => Queued(c) /\ post[c] = {}
      BY <2>1 DEF IInv, UnseenAreQueued
    <3>4. old[c] # None => post[c] = effect[c][Input(c)] /\ old[c] \subseteq FromPredecessors(post, c)
      BY <2>1 DEF IInv, ResultsFollowInput
    <3>5. ASSUME ~ Queued(c)'
          PROVE  old[c] # None /\ FromPredecessors(post', c) \subseteq old[c]
      <4>1. c \notin succ[b]
        BY <1>4, <3>5 DEF Holds, Queued
      <4>2. \A p \in Block : c \in succ[p] => post'[p] = post[p]
        BY <2>2, <4>1
      <4>3. FromPredecessors(post', c) = FromPredecessors(post, c)
        BY <4>2, JoinIgnoresOthers
      <4> QED BY <2>1, <3>2, <3>5, <4>3 DEF IInv, UnqueuedHaveSeenAll
    <3> QED BY <2>1, <2>2, <2>3, <3>1, <3>2, <3>3, <3>4, <3>5
  <2> QED BY <2>5, <2>6
<1>10. UnseenAreQueued' /\ ResultsFollowInput' /\ UnqueuedHaveSeenAll'
  BY <1>9 DEF UnseenAreQueued, ResultsFollowInput, UnqueuedHaveSeenAll
<1> QED BY <1>5, <1>7, <1>8, <1>10 DEF IInv

(* In a regular function an analysis that brings nothing new changes       *)
(* nothing either.                                                         *)
LEMMA SettleKeepsIInv == IInv /\ Settle => IInv'
<1> SUFFICES ASSUME IInv, Settle PROVE IInv'
  OBVIOUS
<1> DEFINE b == Head(worklist)
<1>1. /\ ~ done /\ worklist # << >> /\ Covered(b) /\ Analyse(b)
      /\ worklist' = Tail(worklist) /\ old' = old
  BY DEF Settle
<1>2. b \in Block
  BY <1>1 DEF IInv, TypeOK
<1>3. /\ worklist' \in Seq(Block)
      /\ \A c : Holds(worklist, c) => c = b \/ Holds(worklist', c)
  <2>1. << >> \in Seq(Block)
    OBVIOUS
  <2> QED BY <1>1, <2>1, QueueStep DEF IInv, TypeOK
<1>4. /\ post' \in [Block -> State] /\ ret' \in State /\ done' \in BOOLEAN
      /\ iteration' \in 0 .. MaxIteration + 1
      /\ LimitNoticed'
      /\ UNCHANGED function
  BY <1>1, <1>2, AnalyseKeepsTypes DEF IInv
<1>5. TypeOK'
  BY <1>1, <1>3, <1>4 DEF IInv, TypeOK, function
<1>6. NothingInvented'
  BY <1>1, <1>2, AnalyseInventsNothing
<1>7. ASSUME Regular'
      PROVE  /\ Regular
             /\ UNCHANGED <<succ, effect, init, post>>
             /\ old[b] # None /\ FromPredecessors(post, b) \subseteq old[b]
  <2>1. Regular /\ UNCHANGED <<succ, effect, init>>
    BY <1>4, <1>7, RegularIsFixed DEF function
  <2>2. /\ FromPredecessors(post', b) = FromPredecessors(post, b)
        /\ post'[b] = effect[b][PreCondition(post, b)]
        /\ \A p \in Block \ {b} : post'[p] = post[p]
    BY <1>1, <1>2, <2>1, AnalyseOnlyAdds
  <2>3. post' = Analysed(b)
    BY <1>1 DEF Analyse
  <2>4. old[b] # None /\ FromPredecessors(post, b) \subseteq old[b]
    BY <1>1, <2>2, <2>3 DEF Covered
  <2>5. post[b] = effect[b][Input(b)] /\ old[b] \subseteq FromPredecessors(post, b)
    BY <1>2, <2>1, <2>4 DEF IInv, ResultsFollowInput
  <2>6. Input(b) = PreCondition(post, b)
    <3>1. old[b] = FromPredecessors(post, b)
      BY <2>4, <2>5, Zenon
    <3> QED BY <3>1 DEF Input, PreCondition
  <2>7. post' = post
    BY <1>4, <2>2, <2>5, <2>6 DEF IInv, TypeOK
  <2> QED BY <2>1, <2>4, <2>7
<1>8. ASSUME Regular'
      PROVE  \A c \in Block :
               /\ old'[c] = None => Queued(c)' /\ post'[c] = {}
               /\ old'[c] # None =>
                    post'[c] = effect'[c][Input(c)'] /\ old'[c] \subseteq FromPredecessors(post, c)'
               /\ ~ Queued(c)' =>
                    old'[c] # None /\ FromPredecessors(post, c)' \subseteq old'[c]
  <2>1. /\ Regular
        /\ UNCHANGED <<succ, effect, init, post>>
        /\ old[b] # None /\ FromPredecessors(post, b) \subseteq old[b]
    BY <1>7, <1>8
  <2>2. TAKE c \in Block
  <2>3. /\ FromPredecessors(post, c)' = FromPredecessors(post, c)
        /\ Input(c)' = Input(c)
        /\ old'[c] = old[c] /\ post'[c] = post[c] /\ effect'[c] = effect[c]
    BY <1>1, <2>1 DEF FromPredecessors, Input
  <2>4. c # b => (Queued(c) => Queued(c)')
    BY <1>3 DEF Holds, Queued
  <2>5. /\ old[c] = None => Queued(c) /\ post[c] = {}
        /\ old[c] # None => post[c] = effect[c][Input(c)] /\ old[c] \subseteq FromPredecessors(post, c)
        /\ ~ Queued(c) => old[c] # None /\ FromPredecessors(post, c) \subseteq old[c]
    BY <2>1 DEF IInv, UnseenAreQueued, ResultsFollowInput, UnqueuedHaveSeenAll
  <2> QED BY <2>1, <2>3, <2>4, <2>5
<1>9. UnseenAreQueued' /\ ResultsFollowInput' /\ UnqueuedHaveSeenAll'
  BY <1>8 DEF UnseenAreQueued, ResultsFollowInput, UnqueuedHaveSeenAll
<1> QED BY <1>4, <1>5, <1>6, <1>9 DEF IInv

(* Nothing but `done` changes when the queue is empty.                     *)
LEMMA IdleKeepsIInv ==
  ASSUME IInv, UNCHANGED <<succ, effect, init, worklist, post, old, ret, iteration>>,
         done' = done \/ done' = TRUE
  PROVE  IInv'
<1>1. TypeOK' /\ LimitNoticed'
  BY DEF IInv, TypeOK, LimitNoticed
<1>2. UnseenAreQueued' /\ ResultsFollowInput' /\ UnqueuedHaveSeenAll'
  BY DEF IInv, UnseenAreQueued, ResultsFollowInput, UnqueuedHaveSeenAll, Regular,
         MonotoneEffects, NoSelfLoops, Queued, Input, FromPredecessors
<1>3. NothingInvented'
  BY ZenonT(30) DEF IInv, NothingInvented, MonotoneEffects, Solution, PreCondition, FromPredecessors
<1> QED BY <1>1, <1>2, <1>3 DEF IInv

LEMMA NextKeepsIInv == IInv /\ [Next]_vars => IInv'
<1> SUFFICES ASSUME IInv, [Next]_vars PROVE IInv'
  OBVIOUS
<1>1. CASE Grow
  BY <1>1, GrowKeepsIInv
<1>2. CASE Settle
  BY <1>2, SettleKeepsIInv
<1>3. CASE Drained
  BY <1>3, IdleKeepsIInv DEF Drained, function
<1>4. CASE UNCHANGED vars
  BY <1>4, IdleKeepsIInv DEF vars
<1> QED BY <1>1, <1>2, <1>3, <1>4 DEF Next

THEOREM Invariance == Spec => []IInv
BY InitIInv, NextKeepsIInv, PTL DEF Spec

-----------------------------------------------------------------------------
(* The analysis of a function of any size keeps its types, and its counter *)
(* never passes the limit by more than one.                                *)
THEOREM TypeCorrect == Spec => []TypeOK
<1>1. IInv => TypeOK
  BY DEF IInv
<1> QED BY <1>1, Invariance, PTL

(* Whatever the order of the work list, and also when the loop is cut off, *)
(* nothing is stored that some solution of the function does without.      *)
THEOREM Least == Spec => []NothingInvented
<1>1. IInv => NothingInvented
  BY DEF IInv
<1> QED BY <1>1, Invariance, PTL

(* A block without a pending analysis is up to date with its predecessors. *)
THEOREM UpToDate == Spec => []NoChangeMissed
<1>1. ASSUME IInv PROVE NoChangeMissed
  <2> SUFFICES ASSUME Regular, NEW b \in Block, ~ Queued(b)
               PROVE  /\ old[b] = FromPredecessors(post, b)
                      /\ post[b] = effect[b][PreCondition(post, b)]
    BY DEF NoChangeMissed, Regular
  <2>1. old[b] # None /\ FromPredecessors(post, b) \subseteq old[b]
    BY <1>1 DEF IInv, UnqueuedHaveSeenAll
  <2>2. post[b] = effect[b][Input(b)] /\ old[b] \subseteq FromPredecessors(post, b)
    BY <1>1, <2>1 DEF IInv, ResultsFollowInput
  <2>3. old[b] = FromPredecessors(post, b)
    BY <2>1, <2>2, Zenon
  <2> QED BY <2>2, <2>3 DEF Input, PreCondition
<1> QED BY <1>1, Invariance, PTL

(* When the work list drains, the stored states solve the function.        *)
THEOREM Solved == Spec => []FixedPointReached
<1>1. NoChangeMissed => FixedPointReached
  <2> SUFFICES ASSUME NoChangeMissed, Regular, worklist = << >>, NEW b \in Block
               PROVE  effect[b][PreCondition(post, b)] \subseteq post[b]
    BY DEF FixedPointReached, Solution, Regular
  <2>1. ~ Queued(b)
    BY DEF Queued
  <2> QED BY <2>1 DEF NoChangeMissed, Regular
<1> QED BY <1>1, UpToDate, PTL

-----------------------------------------------------------------------------
(***************************************************************************)
(* The number of steps.  Each step takes a block off the work list; what   *)
(* it puts on is paid for by the edges to the successors, once for a block *)
(* that is seen for the first time and once for each fact its predecessors *)
(* taught it.                                                              *)
(***************************************************************************)
(* Analysing a block again never takes anything back.                      *)
Ascending == \A b \in Block : post[b] \subseteq effect[b][PreCondition(post, b)]

RememberedStillHolds ==
  \A b \in Block : old[b] # None => old[b] \subseteq FromPredecessors(post, b)

SeenEdges == {e \in Edges : old[e[1]] # None}

TaughtEdges == {x \in Edges \X Fact : old[x[1][1]] # None /\ x[2] \in old[x[1][1]]}

Paid ==
  iteration + Len(worklist) <= NumBlocks + Cardinality(SeenEdges) + Cardinality(TaughtEdges)

StepInv ==
  /\ TypeOK
  /\ LimitNoticed
  /\ MonotoneEffects => Ascending /\ RememberedStillHolds /\ Paid

LEMMA EdgesFinite ==
  /\ IsFiniteSet(Edges) /\ Cardinality(Edges) \in Nat
  /\ Cardinality(Fact) \in Nat
  /\ IsFiniteSet(Edges \X Fact)
  /\ Cardinality(Edges \X Fact) = Cardinality(Edges) * Cardinality(Fact)
<1>1. IsFiniteSet(Block \X Block)
  BY BlockFinite, FS_Product
<1>2. Edges \subseteq Block \X Block
  BY DEF Edges
<1>3. IsFiniteSet(Edges) /\ Cardinality(Edges) \in Nat
  BY <1>1, <1>2, FS_Subset, FS_CardinalityType
<1>4. IsFiniteSet(Fact) /\ Cardinality(Fact) \in Nat
  BY FFIFixpointAssumption, FS_CardinalityType
<1> QED BY <1>3, <1>4, FS_Product

LEMMA CountsFinite ==
  /\ IsFiniteSet(SeenEdges) /\ Cardinality(SeenEdges) \in Nat
  /\ Cardinality(SeenEdges) <= Cardinality(Edges)
  /\ IsFiniteSet(TaughtEdges) /\ Cardinality(TaughtEdges) \in Nat
  /\ Cardinality(TaughtEdges) <= Cardinality(Edges) * Cardinality(Fact)
<1>1. SeenEdges \subseteq Edges /\ TaughtEdges \subseteq Edges \X Fact
  BY DEF SeenEdges, TaughtEdges
<1> QED BY <1>1, EdgesFinite, FS_Subset, FS_CardinalityType

(* The edges that leave a block.                                           *)
LEMMA OutEdges ==
  ASSUME TypeOK, NEW b \in Block
  PROVE  /\ {b} \X succ[b] \subseteq Edges
         /\ IsFiniteSet({b} \X succ[b])
         /\ Cardinality({b} \X succ[b]) = Cardinality(succ[b])
         /\ Cardinality(succ[b]) \in Nat
         /\ \A f : /\ IsFiniteSet(({b} \X succ[b]) \X {f})
                   /\ Cardinality(({b} \X succ[b]) \X {f}) = Cardinality(succ[b])
<1>1. succ[b] \subseteq Block
  BY DEF TypeOK
<1>2. IsFiniteSet(succ[b]) /\ Cardinality(succ[b]) \in Nat
  BY <1>1, BlockFinite, FS_Subset, FS_CardinalityType
<1>3. IsFiniteSet({b}) /\ Cardinality({b}) = 1
  BY FS_Singleton
<1>4. IsFiniteSet({b} \X succ[b]) /\ Cardinality({b} \X succ[b]) = Cardinality(succ[b])
  <2>1. Cardinality({b} \X succ[b]) = 1 * Cardinality(succ[b])
    BY <1>2, <1>3, FS_Product
  <2> QED BY <1>2, <1>3, <2>1, FS_Product
<1>5. {b} \X succ[b] \subseteq Edges
  BY <1>1 DEF Edges
<1> DEFINE out == {b} \X succ[b]
<1>6. ASSUME NEW f
      PROVE  IsFiniteSet(out \X {f}) /\ Cardinality(out \X {f}) = Cardinality(succ[b])
  <2> HIDE DEF out
  <2>1. IsFiniteSet({f}) /\ Cardinality({f}) = 1
    BY FS_Singleton
  <2>2. IsFiniteSet(out) /\ Cardinality(out) = Cardinality(succ[b])
    BY <1>4 DEF out
  <2>3. Cardinality(out \X {f}) = Cardinality(out) * 1
    BY <2>1, <2>2, FS_Product
  <2> QED BY <1>2, <2>1, <2>2, <2>3, FS_Product
<1> QED BY <1>2, <1>4, <1>5, <1>6

LEMMA StepInvInit == Init => StepInv
<1> SUFFICES ASSUME Init PROVE StepInv
  OBVIOUS
<1>1. TypeOK /\ LimitNoticed
  BY InitIInv DEF IInv
<1>2. Ascending /\ RememberedStillHolds
  BY DEF Init, Ascending, RememberedStillHolds
<1>3. Paid
  <2>1. Len(worklist) = NumBlocks /\ iteration = 0
    BY FFIFixpointAssumption DEF Init
  <2> QED BY <2>1, CountsFinite, FFIFixpointAssumption DEF Paid
<1> QED BY <1>1, <1>2, <1>3 DEF StepInv

(* An analysis only adds, loops of one block included.                     *)
LEMMA AnalyseAscends ==
  ASSUME StepInv, MonotoneEffects, ~ done, NEW b \in Block, Analyse(b)
  PROVE  /\ \A c \in Block : post[c] \subseteq post'[c]
         /\ \A c \in Block : FromPredecessors(post, c) \subseteq FromPredecessors(post', c)
         /\ Ascending'
<1>1. /\ effect[b] \in [State -> State]
      /\ PreCondition(post, b) \in State
      /\ post' = [post EXCEPT ![b] = effect[b][PreCondition(post, b)]]
      /\ post' \in [Block -> State]
      /\ UNCHANGED <<succ, effect, init>>
  BY AnalyseKeepsTypes DEF StepInv, function
<1>2. /\ post'[b] = effect[b][PreCondition(post, b)]
      /\ \A p \in Block \ {b} : post'[p] = post[p]
  BY <1>1 DEF StepInv, TypeOK
<1>3. \A c \in Block : post[c] \subseteq post'[c]
  BY <1>2 DEF StepInv, Ascending
<1>4. \A c \in Block : FromPredecessors(post, c) \subseteq FromPredecessors(post', c)
  BY <1>3, JoinIsMonotone
<1>5. ASSUME NEW c \in Block
      PROVE  post'[c] \subseteq effect[c][PreCondition(post', c)]
  <2>1. PreCondition(post, c) \subseteq PreCondition(post', c)
    BY <1>4 DEF PreCondition
  <2>2. PreCondition(post, c) \in State /\ PreCondition(post', c) \in State
    BY <1>1, JoinIsState DEF PreCondition, StepInv, TypeOK
  <2>3. effect[c][PreCondition(post, c)] \subseteq effect[c][PreCondition(post', c)]
    BY <2>1, <2>2 DEF MonotoneEffects
  <2>4. post'[c] \subseteq effect[c][PreCondition(post, c)]
    BY <1>2 DEF StepInv, Ascending
  <2> QED BY <2>3, <2>4
<1>6. Ascending'
  <2>1. \A c \in Block : PreCondition(post, c)' = PreCondition(post', c)
    BY <1>1 DEF PreCondition, FromPredecessors
  <2> QED BY <1>1, <1>5, <2>1 DEF Ascending
<1> QED BY <1>3, <1>4, <1>6

LEMMA EffectsStayMonotone ==
  ASSUME UNCHANGED function
  PROVE  (MonotoneEffects' <=> MonotoneEffects) /\ Edges' = Edges
BY DEF function, MonotoneEffects, Edges

LEMMA GrowIsPaid ==
  ASSUME StepInv, Grow
  PROVE  StepInv'
<1> DEFINE b == Head(worklist)
<1>1. PICK q \in Orders(succ[b]) :
        /\ ~ done /\ worklist # << >> /\ Analyse(b) /\ ~ Covered(b)
        /\ old' = [old EXCEPT ![b] = FromPredecessors(post', b)]
        /\ worklist' = Tail(worklist) \o q
  BY DEF Grow
<1>2. b \in Block /\ succ[b] \in SUBSET Block
  BY <1>1 DEF StepInv, TypeOK
<1>3. q \in Seq(Block) /\ Len(q) = Cardinality(succ[b])
  <2>1. Cardinality(succ[b]) \in Nat
    BY <1>2, OutEdges DEF StepInv
  <2> QED BY <1>2, <2>1 DEF Orders
<1>4. /\ post' \in [Block -> State] /\ ret' \in State /\ done' \in BOOLEAN
      /\ iteration' \in 0 .. MaxIteration + 1
      /\ LimitNoticed'
      /\ UNCHANGED function
  BY <1>1, <1>2, AnalyseKeepsTypes DEF StepInv
<1>5. FromPredecessors(post', b) \in State
  BY <1>2, <1>4, JoinIsState
<1>6. /\ worklist' \in Seq(Block)
      /\ Len(worklist') = Len(worklist) - 1 + Cardinality(succ[b])
      /\ Len(worklist) \in Nat
  BY <1>1, <1>3 DEF StepInv, TypeOK
<1>7. TypeOK'
  BY <1>1, <1>4, <1>5, <1>6 DEF StepInv, TypeOK, function
<1>8. ASSUME MonotoneEffects'
      PROVE  Ascending' /\ RememberedStillHolds' /\ Paid'
  <2>1. MonotoneEffects /\ Edges' = Edges /\ UNCHANGED <<succ, effect, init>>
    BY <1>4, <1>8, EffectsStayMonotone DEF function
  <2>2. /\ \A c \in Block : FromPredecessors(post, c) \subseteq FromPredecessors(post', c)
        /\ Ascending'
    BY <1>1, <1>2, <2>1, AnalyseAscends
  <2>3. /\ old'[b] = FromPredecessors(post', b) /\ old'[b] # None
        /\ \A c \in Block : c # b => old'[c] = old[c]
    BY <1>1, <1>2, <1>5, FFIFixpointAssumption DEF StepInv, TypeOK
  <2>4. \A c \in Block : old[c] # None => old'[c] # None /\ old[c] \subseteq old'[c]
    <3> SUFFICES ASSUME NEW c \in Block, old[c] # None
                 PROVE  old'[c] # None /\ old[c] \subseteq old'[c]
      OBVIOUS
    <3>1. CASE c = b
      <4>1. old[b] \subseteq FromPredecessors(post, b)
        BY <1>2, <2>1, <3>1 DEF StepInv, RememberedStillHolds
      <4> QED BY <1>2, <2>2, <2>3, <3>1, <4>1
    <3>2. CASE c # b
      BY <2>3, <3>2
    <3> QED BY <3>1, <3>2
  <2>5. RememberedStillHolds'
    <3> SUFFICES ASSUME NEW c \in Block, old'[c] # None
                 PROVE  old'[c] \subseteq FromPredecessors(post', c)
      BY <2>1 DEF RememberedStillHolds, FromPredecessors
    <3>1. CASE c = b
      BY <2>3, <3>1
    <3>2. CASE c # b
      BY <2>1, <2>2, <2>3, <3>2 DEF StepInv, RememberedStillHolds
    <3> QED BY <3>1, <3>2
  <2>6. SeenEdges \subseteq SeenEdges' /\ TaughtEdges \subseteq TaughtEdges'
    <3>1. \A e \in Edges : e[1] \in Block
      BY DEF Edges
    <3>2. SeenEdges \subseteq SeenEdges'
      BY <2>1, <2>4, <3>1 DEF SeenEdges
    <3>3. TaughtEdges \subseteq TaughtEdges'
      BY <2>1, <2>4, <3>1 DEF TaughtEdges
    <3> QED BY <3>2, <3>3
  <2> DEFINE out == {b} \X succ[b]
  <2>7. /\ out \subseteq Edges /\ IsFiniteSet(out) /\ Cardinality(out) = Cardinality(succ[b])
        /\ Cardinality(succ[b]) \in Nat
        /\ \A f : IsFiniteSet(out \X {f}) /\ Cardinality(out \X {f}) = Cardinality(succ[b])
        /\ \A e \in out : e[1] = b
    BY <1>2, OutEdges DEF StepInv
  <2> DEFINE seen == Cardinality(SeenEdges)
             taught == Cardinality(TaughtEdges)
             seen2 == Cardinality(SeenEdges')
             taught2 == Cardinality(TaughtEdges')
  <2> HIDE DEF out
  <2>8. /\ IsFiniteSet(SeenEdges') /\ IsFiniteSet(TaughtEdges')
        /\ IsFiniteSet(SeenEdges) /\ IsFiniteSet(TaughtEdges)
        /\ seen2 \in Nat /\ taught2 \in Nat /\ seen \in Nat /\ taught \in Nat
        /\ seen <= seen2 /\ taught <= taught2
    <3>1. /\ IsFiniteSet(SeenEdges) /\ IsFiniteSet(TaughtEdges)
          /\ seen \in Nat /\ taught \in Nat
      BY CountsFinite
    <3>2. SeenEdges' \subseteq Edges /\ TaughtEdges' \subseteq Edges \X Fact
      BY <2>1 DEF SeenEdges, TaughtEdges
    <3>3. /\ IsFiniteSet(SeenEdges') /\ IsFiniteSet(TaughtEdges')
          /\ seen2 \in Nat /\ taught2 \in Nat
      BY <3>2, EdgesFinite, FS_Subset, FS_CardinalityType
    <3> QED BY <2>6, <3>1, <3>3, FS_Subset
  <2>9. seen2 + taught2 >= seen + taught + Cardinality(succ[b])
    <3>1. CASE old[b] = None
      <4>1. SeenEdges \cap out = {}
        BY <2>7, <3>1 DEF SeenEdges
      <4>2. SeenEdges \union out \subseteq SeenEdges'
        BY <2>1, <2>3, <2>6, <2>7 DEF SeenEdges
      <4>3. Cardinality(SeenEdges \union out) = seen + Cardinality(succ[b])
        <5>1. Cardinality({}) = 0
          BY FS_EmptySet
        <5>2. Cardinality(SeenEdges \union out) =
                Cardinality(SeenEdges) + Cardinality(out) - Cardinality(SeenEdges \cap out)
          BY <2>7, <2>8, FS_Union
        <5>3. Cardinality(SeenEdges) \in Nat
          BY <2>8
        <5>4. Cardinality(SeenEdges \cap out) = 0
          BY <4>1, <5>1
        <5>5. Cardinality(out) = Cardinality(succ[b]) /\ Cardinality(succ[b]) \in Nat
          BY <2>7
        <5> QED BY ONLY <5>2, <5>3, <5>4, <5>5
      <4>4. Cardinality(SeenEdges \union out) <= seen2
        BY <2>8, <4>2, FS_Subset
      <4> QED BY <2>7, <2>8, <4>3, <4>4
    <3>2. CASE old[b] # None
      <4>1. PICK f \in FromPredecessors(post', b) : f \notin old[b]
        <5>1. post' = Analysed(b)
          BY <1>1 DEF Analyse
        <5> QED BY <1>1, <3>2, <5>1 DEF Covered
      <4>2. f \in Fact
        BY <1>5, <4>1 DEF State
      <4> DEFINE new == out \X {f}
      <4>3. TaughtEdges \cap new = {}
        BY <2>7, <4>1 DEF TaughtEdges
      <4>4. TaughtEdges \union new \subseteq TaughtEdges'
        <5> SUFFICES ASSUME NEW x \in new PROVE x \in TaughtEdges'
          BY <2>6
        <5>1. x = <<x[1], x[2]>> /\ x[1] \in out /\ x[2] = f
          OBVIOUS
        <5>2. x[1] \in Edges /\ x[1][1] = b
          BY <2>7, <5>1
        <5> QED BY <2>1, <2>3, <4>1, <4>2, <5>1, <5>2 DEF TaughtEdges
      <4>5. IsFiniteSet(new) /\ Cardinality(new) = Cardinality(succ[b])
        BY <2>7
      <4> HIDE DEF new
      <4>6. Cardinality(TaughtEdges \union new) = taught + Cardinality(succ[b])
        <5>1. Cardinality({}) = 0
          BY FS_EmptySet
        <5>2. Cardinality(TaughtEdges \union new) =
                Cardinality(TaughtEdges) + Cardinality(new) - Cardinality(TaughtEdges \cap new)
          BY <2>8, <4>5, FS_Union
        <5>3. Cardinality(TaughtEdges) \in Nat
          BY <2>8
        <5>4. Cardinality(TaughtEdges \cap new) = 0
          BY <4>3, <5>1
        <5>5. Cardinality(new) = Cardinality(succ[b]) /\ Cardinality(succ[b]) \in Nat
          BY <2>7, <4>5
        <5> QED BY ONLY <5>2, <5>3, <5>4, <5>5
      <4>7. Cardinality(TaughtEdges \union new) <= taught2
        BY <2>8, <4>4, FS_Subset
      <4> QED BY <2>7, <2>8, <4>6, <4>7
    <3> QED BY <3>1, <3>2
  <2>10. Paid'
    <3>1. iteration' = iteration + 1 /\ iteration \in Nat
      BY <1>1 DEF Analyse, StepInv, TypeOK
    <3>2. iteration + Len(worklist) <= NumBlocks + seen + taught
      BY <2>1 DEF StepInv, Paid
    <3> HIDE DEF seen, taught, seen2, taught2
    <3>3. iteration' + Len(worklist') <= NumBlocks + seen2 + taught2
      <4> DEFINE c == Cardinality(succ[b])
      <4>1. c \in Nat /\ seen2 + taught2 >= seen + taught + c
        BY <2>7, <2>9
      <4>2. seen \in Nat /\ taught \in Nat /\ seen2 \in Nat /\ taught2 \in Nat
        BY <2>8
      <4>3. Len(worklist') = Len(worklist) - 1 + c /\ Len(worklist) \in Nat
        BY <1>6
      <4>4. NumBlocks \in Nat
        BY FFIFixpointAssumption
      <4> HIDE DEF c
      <4> QED BY <3>1, <3>2, <4>1, <4>2, <4>3, <4>4
    <3> QED BY <3>3 DEF Paid, seen2, taught2
  <2> QED BY <2>2, <2>5, <2>10
<1> QED BY <1>4, <1>7, <1>8 DEF StepInv

LEMMA SettleIsPaid ==
  ASSUME StepInv, Settle
  PROVE  StepInv'
<1> DEFINE b == Head(worklist)
<1>1. /\ ~ done /\ worklist # << >> /\ Analyse(b)
      /\ worklist' = Tail(worklist) /\ old' = old
  BY DEF Settle
<1>2. b \in Block
  BY <1>1 DEF StepInv, TypeOK
<1>3. worklist' \in Seq(Block) /\ Len(worklist') = Len(worklist) - 1 /\ Len(worklist) \in Nat
  BY <1>1 DEF StepInv, TypeOK
<1>4. /\ post' \in [Block -> State] /\ ret' \in State /\ done' \in BOOLEAN
      /\ iteration' \in 0 .. MaxIteration + 1
      /\ LimitNoticed'
      /\ UNCHANGED function
  BY <1>1, <1>2, AnalyseKeepsTypes DEF StepInv
<1>5. TypeOK'
  BY <1>1, <1>3, <1>4 DEF StepInv, TypeOK, function
<1>6. ASSUME MonotoneEffects'
      PROVE  Ascending' /\ RememberedStillHolds' /\ Paid'
  <2>1. MonotoneEffects /\ Edges' = Edges /\ UNCHANGED <<succ, effect, init>>
    BY <1>4, <1>6, EffectsStayMonotone DEF function
  <2>2. /\ \A c \in Block : FromPredecessors(post, c) \subseteq FromPredecessors(post', c)
        /\ Ascending'
    BY <1>1, <1>2, <2>1, AnalyseAscends
  <2>3. \A c \in Block : FromPredecessors(post, c)' = FromPredecessors(post', c)
    BY <2>1 DEF FromPredecessors
  <2>4. RememberedStillHolds'
    BY <1>1, <2>1, <2>2, <2>3 DEF StepInv, RememberedStillHolds
  <2>5. SeenEdges' = SeenEdges /\ TaughtEdges' = TaughtEdges
    BY <1>1, <2>1 DEF SeenEdges, TaughtEdges
  <2>6. iteration' = iteration + 1 /\ iteration \in Nat
    BY <1>1 DEF Analyse, StepInv, TypeOK
  <2>7. iteration + Len(worklist) <= NumBlocks + Cardinality(SeenEdges) + Cardinality(TaughtEdges)
    BY <2>1 DEF StepInv, Paid
  <2>8. iteration' + Len(worklist') = iteration + Len(worklist)
    BY <1>3, <2>6
  <2> QED BY <2>2, <2>4, <2>5, <2>7, <2>8 DEF Paid
<1> QED BY <1>4, <1>5, <1>6 DEF StepInv

LEMMA IdleIsPaid ==
  ASSUME StepInv, UNCHANGED <<succ, effect, init, worklist, post, old, ret, iteration>>,
         done' = done \/ done' = TRUE
  PROVE  StepInv'
<1>1. TypeOK' /\ LimitNoticed'
  BY DEF StepInv, TypeOK, LimitNoticed
<1>2. \A b \in Block : /\ FromPredecessors(post, b)' = FromPredecessors(post, b)
                       /\ PreCondition(post, b)' = PreCondition(post, b)
  BY DEF FromPredecessors, PreCondition
<1>3. Ascending' = Ascending /\ RememberedStillHolds' = RememberedStillHolds
  BY <1>2 DEF Ascending, RememberedStillHolds
<1>4. MonotoneEffects' <=> MonotoneEffects
  BY DEF MonotoneEffects
<1>5. Edges' = Edges
  BY DEF Edges
<1>6. SeenEdges' = SeenEdges /\ TaughtEdges' = TaughtEdges
  BY <1>5 DEF SeenEdges, TaughtEdges
<1>7. Paid' = Paid
  BY <1>6 DEF Paid
<1> QED BY <1>1, <1>3, <1>4, <1>7 DEF StepInv

(* A function of any size with monotone effects is analysed in a number of *)
(* steps bounded by what its blocks can learn.                             *)
THEOREM Bounded == Spec => []StepsAreBounded
<1>1. StepInv /\ [Next]_vars => StepInv'
  <2> SUFFICES ASSUME StepInv, [Next]_vars PROVE StepInv'
    OBVIOUS
  <2>1. CASE Drained
    BY <2>1, IdleIsPaid DEF Drained, function
  <2>2. CASE UNCHANGED vars
    BY <2>2, IdleIsPaid DEF vars
  <2> QED BY <2>1, <2>2, GrowIsPaid, SettleIsPaid DEF Next
<1>2. ASSUME StepInv PROVE StepsAreBounded
  <2> SUFFICES ASSUME MonotoneEffects
               PROVE  iteration <= NumBlocks + (Cardinality(Fact) + 1) * Cardinality(Edges)
    BY DEF StepsAreBounded
  <2> DEFINE f == Cardinality(Fact)
             e == Cardinality(Edges)
             seen == Cardinality(SeenEdges)
             taught == Cardinality(TaughtEdges)
  <2>1. f \in Nat /\ e \in Nat /\ seen \in Nat /\ seen <= e /\ taught \in Nat /\ taught <= e * f
    BY EdgesFinite, CountsFinite
  <2>2. /\ iteration \in Nat /\ Len(worklist) \in Nat /\ NumBlocks \in Nat
        /\ iteration + Len(worklist) <= NumBlocks + seen + taught
    BY <1>2, FFIFixpointAssumption DEF StepInv, TypeOK, Paid
  <2> HIDE DEF f, e, seen, taught
  <2>3. (f + 1) * e = e * f + e /\ e * f \in Nat
    BY <2>1
  <2>4. iteration <= NumBlocks + (f + 1) * e
    BY <2>1, <2>2, <2>3
  <2> QED BY <2>4 DEF f, e
<1> QED BY <1>1, <1>2, StepInvInit, PTL DEF Spec

(* The loop is left for one of two reasons.                                *)
LeftForAReason == done => worklist = << >> \/ iteration > MaxIteration

LEMMA ReasonStep ==
  ASSUME TypeOK, LeftForAReason, [Next]_vars
  PROVE  LeftForAReason'
<1>1. CASE Grow \/ Settle
  <2>1. done' = (iteration' > MaxIteration)
    BY <1>1 DEF Grow, Settle, Analyse
  <2> QED BY <2>1, Zenon DEF LeftForAReason
<1>2. CASE Drained
  BY <1>2 DEF Drained, LeftForAReason
<1>3. CASE UNCHANGED vars
  BY <1>3 DEF vars, LeftForAReason
<1> QED BY <1>1, <1>2, <1>3 DEF Next

(* A monotone function whose bound the limit allows is never cut off: its  *)
(* loop ends with an empty work list, and when no block is its own         *)
(* successor what it stored then is a solution.                            *)
THEOREM SmallFunctionsAreSolved ==
  Spec => [](MonotoneEffects /\ done
               /\ NumBlocks + (Cardinality(Fact) + 1) * Cardinality(Edges) <= MaxIteration
             => worklist = << >> /\ (NoSelfLoops => Solution(post)))
<1>1. Init => LeftForAReason
  BY DEF Init, LeftForAReason
<1>2. TypeOK /\ LeftForAReason /\ [Next]_vars => LeftForAReason'
  BY ReasonStep
<1>3. Spec => []LeftForAReason
  BY <1>1, <1>2, TypeCorrect, PTL DEF Spec
<1>4. ASSUME TypeOK, StepsAreBounded, LeftForAReason, FixedPointReached, MonotoneEffects, done,
             NumBlocks + (Cardinality(Fact) + 1) * Cardinality(Edges) <= MaxIteration
      PROVE  worklist = << >> /\ (NoSelfLoops => Solution(post))
  <2> DEFINE bound == NumBlocks + (Cardinality(Fact) + 1) * Cardinality(Edges)
  <2>1. iteration <= bound /\ bound <= MaxIteration /\ iteration \in Nat /\ MaxIteration \in Nat
    BY <1>4, FFIFixpointAssumption DEF StepsAreBounded, TypeOK
  <2>2. bound \in Nat
    <3>1. NumBlocks \in Nat /\ Cardinality(Fact) \in Nat /\ Cardinality(Edges) \in Nat
      BY EdgesFinite, FFIFixpointAssumption
    <3> QED BY <3>1
  <2> HIDE DEF bound
  <2>3. ~ (iteration > MaxIteration)
    BY <2>1, <2>2
  <2> QED BY <1>4, <2>3 DEF LeftForAReason, FixedPointReached
<1> QED BY <1>3, <1>4, TypeCorrect, Bounded, Solved, PTL

-----------------------------------------------------------------------------
(***************************************************************************)
(* Summaries.  First what the functions of a program do, as the equations  *)
(* that After and Summary solve; then that a program without recursion has *)
(* one answer, which no longer depends on the depth; then that the         *)
(* analyses in progress and the cache are on the way to that answer.       *)
(***************************************************************************)
(* Values that are computed one from the other, n times.                   *)
Steps(f, n, D, c, G) ==
  f \in [0 .. n -> D] /\ f[0] = c /\ \A i \in 1 .. n : f[i] = G[<<i, f[i - 1]>>]

LEMMA StepsExist ==
  ASSUME NEW n \in Nat, NEW D, NEW c \in D, NEW G \in [(1 .. n) \X D -> D]
  PROVE  \E f : Steps(f, n, D, c, G)
<1> DEFINE P(j, f) == f \in [0 .. j -> D] /\ f[0] = c /\ \A i \in 1 .. j : f[i] = G[<<i, f[i - 1]>>]
           L == {j \in 0 .. n : \E f : P(j, f)}
<1>1. 0 \in L
  <2> DEFINE f == [i \in 0 .. 0 |-> c]
  <2>1. f \in [0 .. 0 -> D] /\ f[0] = c /\ \A i \in 1 .. 0 : f[i] = G[<<i, f[i - 1]>>]
    OBVIOUS
  <2> HIDE DEF f
  <2>2. P(0, f)
    BY <2>1
  <2> HIDE DEF P
  <2> QED BY <2>2
<1>2. ASSUME NEW j \in 1 .. n, j - 1 \in L
      PROVE  j \in L
  <2>1. PICK f : P(j - 1, f)
    BY <1>2
  <2> DEFINE g == [i \in 0 .. j |-> IF i = j THEN G[<<j, f[j - 1]>>] ELSE f[i]]
  <2>2. f \in [0 .. j - 1 -> D] /\ f[0] = c /\ \A i \in 1 .. j - 1 : f[i] = G[<<i, f[i - 1]>>]
    BY <2>1
  <2>3. f[j - 1] \in D /\ G[<<j, f[j - 1]>>] \in D
    BY <2>2
  <2>4. g \in [0 .. j -> D] /\ g[0] = c
    <3>1. \A i \in 0 .. j : i # j => i \in 0 .. j - 1
      OBVIOUS
    <3> QED BY <2>2, <2>3, <3>1
  <2>5. ASSUME NEW i \in 1 .. j PROVE g[i] = G[<<i, g[i - 1]>>]
    <3>1. i - 1 \in 0 .. j /\ i - 1 # j /\ i \in 0 .. j
      OBVIOUS
    <3>2. g[i - 1] = f[i - 1]
      BY <3>1
    <3>3. CASE i = j
      BY <3>1, <3>2, <3>3
    <3>4. CASE i # j
      <4>1. i \in 1 .. j - 1 /\ g[i] = f[i]
        BY <3>1, <3>4
      <4> QED BY <2>2, <3>2, <4>1
    <3> QED BY <3>3, <3>4
  <2> HIDE DEF g
  <2>6. P(j, g) /\ j \in 0 .. n
    BY <2>4, <2>5
  <2> HIDE DEF P
  <2> QED BY <2>6
<1>3. n \in L
  <2> HIDE DEF L
  <2>1. n \in 0 .. n
    OBVIOUS
  <2> QED BY <1>1, <1>2, <2>1, UpTo
<1> QED BY <1>3 DEF Steps

(* A statement does something to a level, and the states in a body are     *)
(* those of its statements in turn.                                        *)
Callee == [Key -> Level]

LEMMA DoesType ==
  ASSUME NEW f \in Fn, body \in [Fn -> Body], NEW i \in 1 .. Len(body[f]), NEW m \in Level,
         NEW callee \in Callee
  PROVE  Does(body[f][i], m, callee) \in Level
<1>1. body[f][i] \in Fn \union Change
  BY FFISummaryAssumption
<1>2. CASE body[f][i] \in Fn
  BY <1>2 DEF Does, Callee, Key
<1>3. CASE body[f][i] \notin Fn
  BY <1>1, <1>3 DEF Does, Effect, Change, Level
<1> QED BY <1>2, <1>3

Through(a, k, callee) ==
  /\ a \in [0 .. Len(body[k[1]]) -> Level]
  /\ a[0] = k[2]
  /\ \A i \in 1 .. Len(body[k[1]]) : a[i] = Does(body[k[1]][i], a[i - 1], callee)

LEMMA AfterIs ==
  ASSUME body \in [Fn -> Body], NEW k \in Key, NEW callee \in Callee
  PROVE  Through(After(k, callee), k, callee)
<1> DEFINE n == Len(body[k[1]])
           F(a) == [i \in 0 .. n |-> IF i = 0 THEN k[2] ELSE Does(body[k[1]][i], a[i - 1], callee)]
           after == CHOOSE a : a = F(a)
<1>0. n \in Nat /\ k[1] \in Fn /\ k[2] \in Level
  BY FFISummaryAssumption DEF Key
<1>1. After(k, callee) = after
  BY DEF After
<1>2. after = F(after)
  <2> DEFINE G == [p \in (1 .. n) \X Level |-> Does(body[k[1]][p[1]], p[2], callee)]
  <2>1. G \in [(1 .. n) \X Level -> Level]
    BY <1>0, DoesType
  <2>2. \A i \in 1 .. n, m \in Level : G[<<i, m>>] = Does(body[k[1]][i], m, callee)
    OBVIOUS
  <2> HIDE DEF G
  <2>3. PICK a : Steps(a, n, Level, k[2], G)
    BY <1>0, <2>1, StepsExist
  <2>4. a = F(a)
    <3>1. \A i \in 1 .. n : i - 1 \in 0 .. n
      BY <1>0
    <3>2. \A i \in 1 .. n : a[i] = Does(body[k[1]][i], a[i - 1], callee)
      BY <2>2, <2>3, <3>1 DEF Steps
    <3>3. \A i \in 0 .. n : a[i] = IF i = 0 THEN k[2] ELSE Does(body[k[1]][i], a[i - 1], callee)
      BY <1>0, <2>3, <3>2 DEF Steps
    <3> QED BY <2>3, <3>3 DEF Steps
  <2> QED BY <2>4
<1> HIDE DEF after
<1>3. \A i \in 0 .. n : after[i] = IF i = 0 THEN k[2] ELSE Does(body[k[1]][i], after[i - 1], callee)
  BY <1>2
<1>4. \A i \in 0 .. n : after[i] \in Level
  <2> DEFINE S == {i \in 0 .. n : after[i] \in Level}
  <2>1. 0 \in S
    BY <1>0, <1>3
  <2>2. ASSUME NEW i \in 1 .. n, i - 1 \in S PROVE i \in S
    <3>1. i \in 0 .. n /\ i # 0 /\ after[i - 1] \in Level
      BY <1>0, <2>2
    <3>2. Does(body[k[1]][i], after[i - 1], callee) \in Level
      BY <1>0, <3>1, DoesType
    <3> QED BY <1>3, <3>1, <3>2
  <2> HIDE DEF S
  <2>3. \A i \in 0 .. n : i \in S
    BY <1>0, <2>1, <2>2, UpTo
  <2> QED BY <2>3 DEF S
<1>5. after \in [0 .. n -> Level]
  BY <1>2, <1>4
<1>6. after[0] = k[2] /\ \A i \in 1 .. n : after[i] = Does(body[k[1]][i], after[i - 1], callee)
  BY <1>0, <1>3
<1> QED BY <1>1, <1>5, <1>6 DEF Through

LEMMA EffectsType ==
  ASSUME body \in [Fn -> Body], NEW callee \in Callee
  PROVE  EffectsWith(callee) \in Callee
<1>1. ASSUME NEW k \in Key PROVE After(k, callee)[Len(body[k[1]])] \in Level
  <2>1. Len(body[k[1]]) \in Nat
    BY FFISummaryAssumption DEF Key
  <2> QED BY <2>1, AfterIs DEF Through
<1> QED BY <1>1 DEF EffectsWith, Callee

(* The summaries with one more function below them are those of functions  *)
(* that call the ones before.                                              *)
LEMMA SummaryIs ==
  ASSUME body \in [Fn -> Body]
  PROVE  /\ Summary \in [0 .. MaxDepth -> Callee]
         /\ Summary[0] = EffectsWith(NoEffect)
         /\ \A d \in 1 .. MaxDepth : Summary[d] = EffectsWith(Summary[d - 1])
<1> DEFINE F(s) == [d \in 0 .. MaxDepth |-> EffectsWith(IF d = 0 THEN NoEffect ELSE s[d - 1])]
           start == EffectsWith(NoEffect)
           G == [p \in (1 .. MaxDepth) \X Callee |-> EffectsWith(p[2])]
<1>0. MaxDepth \in Nat
  BY FFISummaryAssumption
<1>1. start \in Callee
  <2>1. NoEffect \in Callee
    BY DEF NoEffect, Callee, Key
  <2> QED BY <2>1, EffectsType
<1>2. G \in [(1 .. MaxDepth) \X Callee -> Callee]
  BY EffectsType
<1>3. \A d \in 1 .. MaxDepth, c \in Callee : G[<<d, c>>] = EffectsWith(c)
  OBVIOUS
<1> HIDE DEF G
<1>4. PICK s : Steps(s, MaxDepth, Callee, start, G)
  BY <1>0, <1>1, <1>2, StepsExist
<1>5. s = F(s)
  <2>1. \A d \in 1 .. MaxDepth : d - 1 \in 0 .. MaxDepth
    BY <1>0
  <2>2. \A d \in 1 .. MaxDepth : s[d] = EffectsWith(s[d - 1])
    BY <1>3, <1>4, <2>1 DEF Steps
  <2>3. \A d \in 0 .. MaxDepth : s[d] = EffectsWith(IF d = 0 THEN NoEffect ELSE s[d - 1])
    BY <1>0, <1>4, <2>2 DEF Steps
  <2> QED BY <1>4, <2>3 DEF Steps
<1>6. Summary = F(Summary)
  BY <1>5 DEF Summary
<1>7. /\ DOMAIN Summary = 0 .. MaxDepth
      /\ Summary[0] = EffectsWith(NoEffect)
      /\ \A d \in 1 .. MaxDepth : Summary[d] = EffectsWith(Summary[d - 1])
      /\ Summary = [d \in 0 .. MaxDepth |-> Summary[d]]
  <2> DEFINE sum == Summary
  <2>1. sum = F(sum)
    BY <1>6
  <2> HIDE DEF sum
  <2>2. \A d \in 0 .. MaxDepth : sum[d] = EffectsWith(IF d = 0 THEN NoEffect ELSE sum[d - 1])
    BY <2>1
  <2>3. \A d \in 1 .. MaxDepth : d \in 0 .. MaxDepth /\ d # 0
    BY <1>0
  <2>4. sum[0] = EffectsWith(NoEffect) /\ \A d \in 1 .. MaxDepth : sum[d] = EffectsWith(sum[d - 1])
    BY <1>0, <2>2, <2>3
  <2>5. DOMAIN sum = 0 .. MaxDepth /\ sum = [d \in 0 .. MaxDepth |-> sum[d]]
    BY <2>1
  <2> QED BY <2>4, <2>5 DEF sum
<1>8. \A d \in 0 .. MaxDepth : Summary[d] \in Callee
  <2> DEFINE S == {d \in 0 .. MaxDepth : Summary[d] \in Callee}
  <2>1. 0 \in S
    BY <1>0, <1>1, <1>7
  <2>2. ASSUME NEW d \in 1 .. MaxDepth, d - 1 \in S PROVE d \in S
    <3>1. Summary[d - 1] \in Callee
      BY <2>2
    <3>2. Summary[d] = EffectsWith(Summary[d - 1])
      BY <1>7
    <3>3. EffectsWith(Summary[d - 1]) \in Callee
      BY <3>1, EffectsType
    <3>4. d \in 0 .. MaxDepth
      BY <1>0
    <3> QED BY <3>2, <3>3, <3>4
  <2> HIDE DEF S
  <2>3. \A d \in 0 .. MaxDepth : d \in S
    BY <1>0, <2>1, <2>2, UpTo
  <2> QED BY <2>3 DEF S
<1> QED BY <1>7, <1>8

(* Only what a function calls matters for it.                              *)
Agree(f, c, e) == \A g \in Calls(f), m \in Level : c[<<g, m>>] = e[<<g, m>>]

LEMMA AgreeIsEnough ==
  ASSUME body \in [Fn -> Body], NEW f \in Fn, NEW m \in Level,
         NEW c \in Callee, NEW e \in Callee, Agree(f, c, e)
  PROVE  EffectsWith(c)[<<f, m>>] = EffectsWith(e)[<<f, m>>]
<1> DEFINE k == <<f, m>>
           n == Len(body[f])
           a == After(k, c)
           b == After(k, e)
           S == {i \in 0 .. n : a[i] = b[i]}
<1>1. k \in Key /\ k[1] = f /\ k[2] = m /\ n \in Nat
  BY FFISummaryAssumption DEF Key
<1>2. Through(a, k, c) /\ Through(b, k, e)
  BY <1>1, AfterIs
<1> HIDE DEF k, a, b
<1>3. 0 \in S
  BY <1>1, <1>2 DEF Through
<1>4. ASSUME NEW i \in 1 .. n, i - 1 \in S PROVE i \in S
  <2>1. a[i - 1] = b[i - 1] /\ a[i - 1] \in Level /\ i \in 0 .. n
    BY <1>1, <1>2, <1>4 DEF Through
  <2>2. a[i] = Does(body[f][i], a[i - 1], c) /\ b[i] = Does(body[f][i], a[i - 1], e)
    BY <1>1, <1>2, <2>1 DEF Through
  <2>3. Does(body[f][i], a[i - 1], c) = Does(body[f][i], a[i - 1], e)
    <3>1. CASE body[f][i] \in Fn
      <4>1. body[f][i] \in Calls(f)
        BY <1>1, <3>1, FFISummaryAssumption DEF Calls
      <4> QED BY <2>1, <3>1, <4>1 DEF Agree, Does
    <3>2. CASE body[f][i] \notin Fn
      BY <3>2 DEF Does
    <3> QED BY <3>1, <3>2
  <2> QED BY <2>1, <2>2, <2>3
<1>5. a[n] = b[n]
  <2>1. n \in Nat /\ n \in 0 .. n
    BY <1>1
  <2> HIDE DEF S, n
  <2>2. \A i \in 0 .. n : i \in S
    BY <2>1, <1>3, <1>4, UpTo
  <2> QED BY <2>1, <2>2 DEF S
<1>6. EffectsWith(c)[k] = a[n] /\ EffectsWith(e)[k] = b[n]
  BY <1>1 DEF EffectsWith, a, b
<1> QED BY <1>5, <1>6 DEF k

(* The functions that f calls, and those they call, are among the ones of  *)
(* S, which f is not.                                                      *)
Under(f, S) == S \in SUBSET Fn /\ CallClosed(S) /\ Calls(f) \subseteq S

(* Beyond the number of functions below it the depth does not change the   *)
(* summary of a function.                                                  *)
Settled(d) ==
  \A f \in Fn, S \in SUBSET Fn :
    Under(f, S) /\ Cardinality(S) <= d =>
      \A m \in Level : Summary[d][<<f, m>>] = Summary[d + 1][<<f, m>>]

LEMMA SettledByDepth ==
  ASSUME body \in [Fn -> Body], Acyclic, NEW d \in 0 .. MaxDepth - 1
  PROVE  Settled(d)
<1> DEFINE D == {i \in 0 .. MaxDepth - 1 : Settled(i)}
<1>0. MaxDepth \in Nat /\ MaxDepth - 1 \in Nat /\ IsFiniteSet(Fn)
  BY FFISummaryAssumption
<1>1. 0 \in D
  <2> SUFFICES ASSUME NEW f \in Fn, NEW S \in SUBSET Fn, Under(f, S), Cardinality(S) <= 0,
                      NEW m \in Level
               PROVE  Summary[0][<<f, m>>] = Summary[0 + 1][<<f, m>>]
    BY <1>0 DEF Settled
  <2>1. Calls(f) = {}
    <3>1. Cardinality(S) \in Nat /\ IsFiniteSet(S)
      BY <1>0, FS_Subset, FS_CardinalityType
    <3>2. S = {}
      BY <3>1, FS_EmptySet
    <3> QED BY <3>2 DEF Under
  <2>2. NoEffect \in Callee
    BY DEF NoEffect, Callee, Key
  <2>3. Summary[0] = EffectsWith(NoEffect) /\ Summary[1] = EffectsWith(Summary[0]) /\ Summary[0] \in Callee
    <3>1. 0 \in 0 .. MaxDepth /\ 1 \in 1 .. MaxDepth /\ 1 - 1 = 0
      BY FFISummaryAssumption
    <3> QED BY <3>1, SummaryIs
  <2>4. Agree(f, NoEffect, Summary[0])
    BY <2>1 DEF Agree
  <2>5. EffectsWith(NoEffect)[<<f, m>>] = EffectsWith(Summary[0])[<<f, m>>]
    BY <2>2, <2>3, <2>4, AgreeIsEnough
  <2> QED BY <2>3, <2>5
<1>2. ASSUME NEW i \in 1 .. MaxDepth - 1, i - 1 \in D
      PROVE  i \in D
  <2>1. Settled(i - 1) /\ i \in 0 .. MaxDepth - 1 /\ (i - 1) + 1 = i /\ (i + 1) - 1 = i
    BY <1>0, <1>2
  <2>2. /\ Summary[i] = EffectsWith(Summary[i - 1]) /\ Summary[i + 1] = EffectsWith(Summary[i])
        /\ Summary[i] \in Callee /\ Summary[i - 1] \in Callee
    <3>1. i \in 1 .. MaxDepth /\ i + 1 \in 1 .. MaxDepth /\ i - 1 \in 0 .. MaxDepth /\ i \in 0 .. MaxDepth
      BY <1>0
    <3> QED BY <2>1, <3>1, SummaryIs
  <2> SUFFICES ASSUME NEW f \in Fn, NEW S \in SUBSET Fn, Under(f, S), Cardinality(S) <= i,
                      NEW m \in Level
               PROVE  Summary[i][<<f, m>>] = Summary[i + 1][<<f, m>>]
    BY <2>1 DEF Settled
  <2>3. ASSUME NEW g \in Calls(f)
        PROVE  \A q \in Level : Summary[i - 1][<<g, q>>] = Summary[i][<<g, q>>]
    <3>1. g \in Fn /\ g \in S
      BY <2>3 DEF Under, Calls
    <3>2. PICK R \in SUBSET Fn : CallClosed(R) /\ Calls(g) \subseteq R /\ g \notin R
      BY <3>1 DEF Acyclic
    <3>3. S \intersect R \in SUBSET Fn /\ Under(g, S \intersect R)
      BY <3>1, <3>2 DEF Under, CallClosed
    <3>4. Cardinality(S \intersect R) <= i - 1
      <4>1. IsFiniteSet(S) /\ IsFiniteSet(S \ {g}) /\ Cardinality(S \ {g}) = Cardinality(S) - 1
        BY <1>0, <3>1, FS_Subset, FS_RemoveElement
      <4>2. S \intersect R \in SUBSET (S \ {g})
        BY <3>2
      <4>3. Cardinality(S \intersect R) <= Cardinality(S \ {g}) /\ IsFiniteSet(S \intersect R)
        BY <4>1, <4>2, FS_Subset
      <4>4. Cardinality(S) \in Nat /\ Cardinality(S \intersect R) \in Nat
        BY <4>1, <4>3, FS_CardinalityType
      <4> QED BY <4>1, <4>3, <4>4
    <3> QED BY <2>1, <3>1, <3>3, <3>4 DEF Settled
  <2>4. Agree(f, Summary[i - 1], Summary[i])
    BY <2>3 DEF Agree
  <2>5. EffectsWith(Summary[i - 1])[<<f, m>>] = EffectsWith(Summary[i])[<<f, m>>]
    BY <2>2, <2>4, AgreeIsEnough
  <2> QED BY <2>2, <2>5
<1> HIDE DEF D
<1>3. d \in D
  BY <1>0, <1>1, <1>2, UpTo
<1> QED BY <1>3 DEF D

(* Under the limit, and without recursion, the summaries are what each     *)
(* function does when its calls do what their summaries say.               *)
Exact == Acyclic /\ Cardinality(Fn) < MaxDepth

LEMMA SummaryIsFixed ==
  ASSUME body \in [Fn -> Body], Exact
  PROVE  Summary[MaxDepth] \in Callee /\ EffectsWith(Summary[MaxDepth]) = Summary[MaxDepth]
<1> DEFINE n == MaxDepth - 1
<1>1. /\ n \in 0 .. MaxDepth - 1 /\ n \in 0 .. MaxDepth /\ n + 1 = MaxDepth
      /\ MaxDepth \in 1 .. MaxDepth /\ MaxDepth \in 0 .. MaxDepth
  BY FFISummaryAssumption
<1>2. Settled(n)
  BY <1>1, SettledByDepth DEF Exact
<1>3. /\ Summary[n] \in Callee /\ Summary[MaxDepth] \in Callee
      /\ Summary[MaxDepth] = EffectsWith(Summary[n])
  BY <1>1, SummaryIs
<1>4. ASSUME NEW g \in Fn, NEW m \in Level
      PROVE  Summary[n][<<g, m>>] = Summary[MaxDepth][<<g, m>>]
  <2>1. PICK S \in SUBSET Fn : CallClosed(S) /\ Calls(g) \subseteq S /\ g \notin S
    BY DEF Exact, Acyclic
  <2>2. Cardinality(S) <= n
    <3>1. IsFiniteSet(S) /\ Cardinality(S) <= Cardinality(Fn)
      BY FFISummaryAssumption, FS_Subset
    <3>2. Cardinality(S) \in Nat /\ Cardinality(Fn) \in Nat
      BY <3>1, FFISummaryAssumption, FS_CardinalityType
    <3> QED BY <3>1, <3>2, FFISummaryAssumption DEF Exact
  <2> HIDE DEF n
  <2> QED BY <1>1, <1>2, <2>1, <2>2 DEF Settled, Under
<1> HIDE DEF n
<1>5. ASSUME NEW k \in Key
      PROVE  EffectsWith(Summary[n])[k] = EffectsWith(Summary[MaxDepth])[k]
  <2>1. PICK f \in Fn, m \in Level : k = <<f, m>>
    BY DEF Key
  <2>2. Agree(f, Summary[n], Summary[MaxDepth])
    BY <1>4 DEF Agree, Calls
  <2> QED BY <1>3, <2>1, <2>2, AgreeIsEnough
<1>6. EffectsWith(Summary[n]) = EffectsWith(Summary[MaxDepth])
  BY <1>5 DEF EffectsWith
<1> QED BY <1>3, <1>6

-----------------------------------------------------------------------------
(* What the functions do in the end, and the states on the way.            *)
Result == Summary[MaxDepth]
Trace  == [k \in Key |-> After(k, Summary[MaxDepth])]

Equations ==
  /\ Result \in Callee
  /\ \A k \in Key :
       /\ Trace[k] \in [0 .. Len(body[k[1]]) -> Level]
       /\ Trace[k][0] = k[2]
       /\ \A i \in 1 .. Len(body[k[1]]) : Trace[k][i] = Does(body[k[1]][i], Trace[k][i - 1], Result)
       /\ Trace[k][Len(body[k[1]])] = Result[k]

LEMMA EquationsHold ==
  ASSUME body \in [Fn -> Body], Exact
  PROVE  Equations
<1>1. Result \in Callee /\ EffectsWith(Result) = Result
  BY SummaryIsFixed DEF Result
<1>2. ASSUME NEW k \in Key
      PROVE  /\ Trace[k] = After(k, Result)
             /\ Result[k] = After(k, Result)[Len(body[k[1]])]
  <2>1. Trace[k] = After(k, Result)
    BY DEF Trace, Result
  <2>2. EffectsWith(Result)[k] = After(k, Result)[Len(body[k[1]])]
    BY DEF EffectsWith
  <2> QED BY <1>1, <2>1, <2>2
<1>3. ASSUME NEW k \in Key
      PROVE  /\ Trace[k] \in [0 .. Len(body[k[1]]) -> Level]
             /\ Trace[k][0] = k[2]
             /\ \A i \in 1 .. Len(body[k[1]]) :
                  Trace[k][i] = Does(body[k[1]][i], Trace[k][i - 1], Result)
             /\ Trace[k][Len(body[k[1]])] = Result[k]
  BY <1>1, <1>2, AfterIs DEF Through
<1> QED BY <1>1, <1>3 DEF Equations

(* An analysis in progress is at a statement of its function or past the   *)
(* last one, and waits for the one above it at the call of that.           *)
Positions == \A i \in 1 .. Len(stack) : stack[i].at \in 1 .. Len(body[stack[i].fn]) + 1

WaitsFor(c, frame) ==
  /\ c.at <= Len(body[c.fn])
  /\ body[c.fn][c.at] = frame.fn
  /\ frame.init = c.now

Chained == \A i \in 1 .. Len(stack) - 1 : WaitsFor(stack[i], stack[i + 1])

(* Every analysis is of a function that those below it lead to.            *)
Led == {p \in Fn \X Fn : \A S \in SUBSET Fn : Under(p[1], S) => p[2] \in S}

AllLead == \A i, j \in 1 .. Len(stack) : i < j => <<stack[i].fn, stack[j].fn>> \in Led

(* Its state is the one that the value has there, and what is cached is    *)
(* what the functions do.                                                  *)
OnTrace(frame) == frame.now = Trace[<<frame.fn, frame.init>>][frame.at - 1]

Correct ==
  Exact =>
    /\ \A k \in Key : cache[k] # NotCached => cache[k] = Result[k]
    /\ \A i \in 1 .. Len(stack) : OnTrace(stack[i])

CallsInv == CallsTypeOK /\ DepthIsBounded /\ Positions /\ Chained /\ AllLead /\ Correct

(* All of this is about the program, which does not change.                *)
LEMMA SameProgram ==
  ASSUME UNCHANGED body
  PROVE  Result' = Result /\ Trace' = Trace /\ (Exact' <=> Exact) /\ Led' = Led
BY DEF Result, Trace, Exact, Led, Under, Acyclic, CallClosed, Calls, Summary, EffectsWith, After,
       Does, Effect, NoEffect

LEMMA EnteredFrame ==
  ASSUME body \in [Fn -> Body], NEW f \in Fn, NEW m \in Level
  PROVE  /\ Enter(f, m) \in Frame
         /\ Enter(f, m).fn = f /\ Enter(f, m).init = m /\ Enter(f, m).now = m /\ Enter(f, m).at = 1
         /\ 1 \in 1 .. Len(body[f]) + 1
         /\ Exact => OnTrace(Enter(f, m))
<1>1. /\ Enter(f, m) \in Frame
      /\ Enter(f, m).fn = f /\ Enter(f, m).init = m /\ Enter(f, m).now = m /\ Enter(f, m).at = 1
  BY DEF Enter, Frame
<1>2. Len(body[f]) \in Nat
  BY FFISummaryAssumption
<1>3. ASSUME Exact PROVE OnTrace(Enter(f, m))
  <2>1. Trace[<<f, m>>][0] = m
    BY <1>3, EquationsHold DEF Equations, Key
  <2> QED BY <1>1, <2>1 DEF OnTrace
<1> QED BY <1>1, <1>2, <1>3

LEMMA AdvancedFrame ==
  ASSUME NEW frame \in Frame, NEW m \in Level
  PROVE  /\ Advance(frame, m) \in Frame
         /\ Advance(frame, m).fn = frame.fn /\ Advance(frame, m).init = frame.init
         /\ Advance(frame, m).now = m /\ Advance(frame, m).at = frame.at + 1
<1>1. PICK f \in Fn, first \in Level, now \in Level, k \in Nat \ {0} :
        frame = [fn |-> f, init |-> first, now |-> now, at |-> k]
  BY DEF Frame
<1>2. Advance(frame, m) = [fn |-> f, init |-> first, now |-> m, at |-> k + 1]
  <2>1. frame.at = k
    BY <1>1
  <2>2. [frame EXCEPT !.now = m] = [fn |-> f, init |-> first, now |-> m, at |-> k]
    BY <1>1
  <2>3. Advance(frame, m) = [[frame EXCEPT !.now = m] EXCEPT !.at = k + 1]
    BY <2>1 DEF Advance
  <2> QED BY <2>2, <2>3
<1>3. k + 1 \in Nat \ {0}
  OBVIOUS
<1>4. Advance(frame, m) \in Frame
  BY <1>2, <1>3 DEF Frame
<1> QED BY <1>1, <1>2, <1>4

(* A frame that goes on past a statement.                                  *)
LEMMA OnTraceAdvanced ==
  ASSUME body \in [Fn -> Body], Exact, NEW frame \in Frame, frame.at <= Len(body[frame.fn]),
         OnTrace(frame), NEW m \in Level, m = Does(body[frame.fn][frame.at], frame.now, Result)
  PROVE  OnTrace(Advance(frame, m))
<1> DEFINE k == <<frame.fn, frame.init>>
<1>1. /\ frame.fn \in Fn /\ frame.init \in Level /\ frame.at \in Nat \ {0}
      /\ Len(body[frame.fn]) \in Nat
  BY FFISummaryAssumption DEF Frame
<1>2. k \in Key /\ k[1] = frame.fn /\ frame.at \in 1 .. Len(body[frame.fn])
  BY <1>1 DEF Key
<1>3. Trace[k][frame.at] = Does(body[frame.fn][frame.at], Trace[k][frame.at - 1], Result)
  BY <1>2, EquationsHold DEF Equations
<1>4. (frame.at + 1) - 1 = frame.at
  BY <1>1
<1>5. /\ Advance(frame, m).fn = frame.fn /\ Advance(frame, m).init = frame.init
      /\ Advance(frame, m).now = m /\ Advance(frame, m).at - 1 = frame.at
  BY <1>4, AdvancedFrame
<1>6. frame.now = Trace[k][frame.at - 1]
  BY DEF OnTrace
<1>7. Trace[k][frame.at] = m
  BY <1>3, <1>6
<1> QED BY <1>5, <1>7 DEF OnTrace

-----------------------------------------------------------------------------
(* The sequences that the steps make of the stack: the top is exchanged,   *)
(* or taken off and the next one exchanged.                                *)
LEMMA WithoutTop ==
  ASSUME NEW s \in Seq(Frame), s # << >>, NEW b, b = SubSeq(s, 1, Len(s) - 1)
  PROVE  /\ Len(s) \in Nat \ {0}
         /\ b \in Seq(Frame) /\ Len(b) = Len(s) - 1
         /\ \A i \in 1 .. Len(s) - 1 : b[i] = s[i]
<1> DEFINE n == Len(s) - 1
<1>1. Len(s) \in Nat \ {0} /\ n \in Nat
  BY EmptySeq
<1>2. \A i \in 1 .. n : s[i] \in Frame
  BY <1>1, ElementOfSeq
<1> HIDE DEF n
<1>3. /\ b \in Seq(Frame)
      /\ Len(b) = IF 1 <= n THEN n - 1 + 1 ELSE 0
      /\ \A i \in 1 .. n - 1 + 1 : b[i] = s[1 + i - 1]
  BY <1>1, <1>2, SubSeqProperties DEF n
<1>4. Len(b) = n
  BY ONLY <1>1, <1>3
<1>5. ASSUME NEW i \in 1 .. n PROVE b[i] = s[i]
  <2>1. i \in 1 .. n - 1 + 1 /\ 1 + i - 1 = i
    BY ONLY <1>1, <1>5
  <2> QED BY <1>3, <2>1
<1> QED BY <1>1, <1>3, <1>4, <1>5 DEF n

Exchanged(s, x) == Append(SubSeq(s, 1, Len(s) - 1), x)

LEMMA TopExchanged ==
  ASSUME NEW s \in Seq(Frame), s # << >>, NEW x \in Frame
  PROVE  /\ Exchanged(s, x) \in Seq(Frame) /\ Len(Exchanged(s, x)) = Len(s)
         /\ Exchanged(s, x)[Len(s)] = x
         /\ \A i \in 1 .. Len(s) - 1 : Exchanged(s, x)[i] = s[i]
<1> DEFINE b == SubSeq(s, 1, Len(s) - 1)
           t == Exchanged(s, x)
<1>1. /\ Len(s) \in Nat \ {0}
      /\ b \in Seq(Frame) /\ Len(b) = Len(s) - 1
      /\ \A i \in 1 .. Len(s) - 1 : b[i] = s[i]
  BY WithoutTop
<1>2. t = Append(b, x)
  BY DEF Exchanged
<1> HIDE DEF b, t
<1>3. /\ t \in Seq(Frame) /\ Len(t) = Len(b) + 1
      /\ \A i \in 1 .. Len(b) : t[i] = b[i]
      /\ t[Len(b) + 1] = x
  BY <1>1, <1>2, AppendProperties
<1> QED BY <1>1, <1>3 DEF t

Taken(s, x) == [SubSeq(s, 1, Len(s) - 1) EXCEPT ![Len(s) - 1] = x]

LEMMA TopTaken ==
  ASSUME NEW s \in Seq(Frame), Len(s) > 1, NEW x \in Frame
  PROVE  /\ Taken(s, x) \in Seq(Frame) /\ Len(Taken(s, x)) = Len(s) - 1
         /\ Taken(s, x)[Len(s) - 1] = x
         /\ \A i \in 1 .. Len(s) - 2 : Taken(s, x)[i] = s[i]
<1> DEFINE b == SubSeq(s, 1, Len(s) - 1)
           t == Taken(s, x)
<1>1. /\ Len(s) \in Nat \ {0}
      /\ b \in Seq(Frame) /\ Len(b) = Len(s) - 1
      /\ \A i \in 1 .. Len(s) - 1 : b[i] = s[i]
  BY WithoutTop, EmptySeq
<1>2. t = [b EXCEPT ![Len(s) - 1] = x]
  BY DEF Taken
<1> HIDE DEF b, t
<1>3. Len(s) - 1 \in 1 .. Len(b)
  BY <1>1
<1> DEFINE n == Len(s) - 1
<1> HIDE DEF n
<1>4. /\ [b EXCEPT ![n] = x] \in Seq(Frame) /\ Len([b EXCEPT ![n] = x]) = Len(b)
      /\ \A j \in 1 .. Len(b) : [b EXCEPT ![n] = x][j] = IF j = n THEN x ELSE b[j]
  <2>1. n \in 1 .. Len(b) /\ b \in Seq(Frame)
    BY <1>1, <1>3 DEF n
  <2> QED BY ONLY <2>1, x \in Frame, ExceptSeq
<1>5. /\ t \in Seq(Frame) /\ Len(t) = Len(b)
      /\ \A j \in 1 .. Len(b) : t[j] = IF j = n THEN x ELSE b[j]
  BY <1>2, <1>4 DEF n
<1> QED BY <1>1, <1>3, <1>5 DEF n, t

(* The analysis on top.                                                    *)
LEMMA TopIs ==
  ASSUME stack \in Seq(Frame), stack # << >>
  PROVE  /\ Len(stack) \in 1 .. Len(stack) /\ Len(stack) \in Nat \ {0}
         /\ Top = stack[Len(stack)] /\ Top \in Frame
         /\ Top.fn \in Fn /\ Top.init \in Level /\ Top.now \in Level /\ Top.at \in Nat \ {0}
<1>1. Len(stack) \in Nat \ {0}
  BY EmptySeq
<1>2. Top = stack[Len(stack)] /\ Top \in Frame
  BY <1>1, ElementOfSeq DEF Top
<1> QED BY <1>1, <1>2 DEF Frame

(* One of the analyses goes on past its statement, and the ones above it   *)
(* are gone.                                                               *)
GoesOn(n, m) ==
  /\ stack' \in Seq(Frame) /\ Len(stack') = n
  /\ stack'[n] = Advance(stack[n], m)
  /\ \A i \in 1 .. n - 1 : stack'[i] = stack[i]

SameCacheIfExact ==
  /\ cache' \in [Key -> {NotCached} \union Level]
  /\ Exact => \A k \in Key : cache'[k] # NotCached => cache'[k] = Result[k]

LEMMA GoesOnKeepsCallsInv ==
  ASSUME CallsInv, NEW n \in 1 .. Len(stack), NEW m \in Level,
         stack[n].at <= Len(body[stack[n].fn]),
         Exact => m = Does(body[stack[n].fn][stack[n].at], stack[n].now, Result),
         GoesOn(n, m), SameCacheIfExact, waiting' \in SUBSET Fn, UNCHANGED body
  PROVE  CallsInv'
<1>1. /\ stack \in Seq(Frame) /\ body \in [Fn -> Body] /\ Len(stack) \in Nat
      /\ n \in Nat \ {0} /\ n <= Len(stack)
      /\ \A i \in 1 .. n : i \in 1 .. Len(stack) /\ stack[i] \in Frame
  BY LenProperties, ElementOfSeq DEF CallsInv, CallsTypeOK
<1>2. /\ stack' \in Seq(Frame) /\ Len(stack') = n
      /\ \A i \in 1 .. n - 1 : stack'[i] = stack[i]
      /\ stack'[n].fn = stack[n].fn /\ stack'[n].init = stack[n].init
      /\ stack'[n].now = m /\ stack'[n].at = stack[n].at + 1
  BY <1>1, AdvancedFrame DEF GoesOn
<1>3. body' = body /\ Result' = Result /\ Trace' = Trace /\ (Exact' <=> Exact) /\ Led' = Led
  BY SameProgram
<1>4. \A i \in 1 .. n : stack'[i].fn = stack[i].fn /\ stack'[i].init = stack[i].init
  BY <1>1, <1>2
<1>5. CallsTypeOK' /\ DepthIsBounded'
  <2>1. Len(stack) < MaxDepth
    BY DEF CallsInv, DepthIsBounded
  <2> QED BY <1>1, <1>2, <2>1, FFISummaryAssumption
         DEF SameCacheIfExact, CallsInv, CallsTypeOK, DepthIsBounded
<1>6. Positions'
  <2> SUFFICES ASSUME NEW i \in 1 .. n
               PROVE  stack'[i].at \in 1 .. Len(body[stack'[i].fn]) + 1
    BY <1>2, <1>3 DEF Positions
  <2>1. CASE i = n
    <3>1. stack[n].at \in Nat \ {0} /\ Len(body[stack[n].fn]) \in Nat
      BY <1>1, FFISummaryAssumption DEF Frame
    <3> QED BY <1>2, <2>1, <3>1
  <2>2. CASE i # n
    <3>1. i \in 1 .. n - 1
      BY <1>1, <2>2
    <3> QED BY <1>1, <1>2, <3>1 DEF CallsInv, Positions
  <2> QED BY <2>1, <2>2
<1>7. Chained'
  <2> SUFFICES ASSUME NEW i \in 1 .. n - 1
               PROVE  WaitsFor(stack'[i], stack'[i + 1])
    BY <1>2, <1>3 DEF Chained, WaitsFor
  <2>1. i \in 1 .. n /\ i + 1 \in 1 .. n /\ i \in 1 .. Len(stack) - 1
    BY <1>1
  <2>2. WaitsFor(stack[i], stack[i + 1])
    BY <2>1 DEF CallsInv, Chained
  <2>3. stack'[i] = stack[i]
    BY <1>2
  <2>4. stack'[i + 1].fn = stack[i + 1].fn /\ stack'[i + 1].init = stack[i + 1].init
    BY <1>4, <2>1
  <2> QED BY <2>2, <2>3, <2>4 DEF WaitsFor
<1>8. AllLead'
  <2> SUFFICES ASSUME NEW i \in 1 .. n, NEW j \in 1 .. n, i < j
               PROVE  <<stack'[i].fn, stack'[j].fn>> \in Led
    BY <1>2, <1>3 DEF AllLead
  <2> QED BY <1>1, <1>4 DEF CallsInv, AllLead
<1>9. Correct'
  <2> SUFFICES ASSUME Exact
               PROVE  /\ \A k \in Key : cache'[k] # NotCached => cache'[k] = Result[k]
                      /\ \A i \in 1 .. n : stack'[i].now
                           = Trace[<<stack'[i].fn, stack'[i].init>>][stack'[i].at - 1]
    BY <1>2, <1>3 DEF Correct, OnTrace
  <2>1. \A k \in Key : cache'[k] # NotCached => cache'[k] = Result[k]
    BY DEF SameCacheIfExact
  <2>2. \A i \in 1 .. n : OnTrace(stack[i])
    BY <1>1 DEF CallsInv, Correct
  <2>3. OnTrace(stack'[n])
    BY <1>1, <2>2, OnTraceAdvanced DEF GoesOn
  <2>4. \A i \in 1 .. n : OnTrace(stack'[i])
    BY <1>1, <1>2, <2>2, <2>3
  <2> QED BY <2>1, <2>4 DEF OnTrace
<1> QED BY <1>5, <1>6, <1>7, <1>8, <1>9 DEF CallsInv

LEMMA SameCache ==
  ASSUME CallsInv, UNCHANGED cache
  PROVE  SameCacheIfExact
BY DEF SameCacheIfExact, CallsInv, CallsTypeOK, Correct

(* What an analysis that can go on is about to do.                         *)
LEMMA RunningIs ==
  ASSUME CallsInv, Running
  PROVE  /\ stack \in Seq(Frame) /\ stack # << >> /\ body \in [Fn -> Body]
         /\ Len(stack) \in 1 .. Len(stack) /\ Len(stack) \in Nat \ {0}
         /\ Top = stack[Len(stack)] /\ Top \in Frame
         /\ Top.fn \in Fn /\ Top.now \in Level
         /\ Top.at \in DOMAIN body[Top.fn] /\ Top.at <= Len(body[Top.fn])
         /\ Statement(Top) = body[Top.fn][Top.at] /\ Statement(Top) \in Fn \union Change
         /\ \A i \in 1 .. Len(stack) : stack[i] \in Frame /\ stack[i].fn \in Fn
<1>1. stack \in Seq(Frame) /\ stack # << >> /\ body \in [Fn -> Body]
  BY DEF CallsInv, CallsTypeOK, Running
<1>2. /\ Len(stack) \in 1 .. Len(stack) /\ Len(stack) \in Nat \ {0}
      /\ Top = stack[Len(stack)] /\ Top \in Frame
      /\ Top.fn \in Fn /\ Top.now \in Level /\ Top.at \in Nat \ {0}
  BY <1>1, TopIs
<1>3. Top.at \in 1 .. Len(body[Top.fn]) /\ Len(body[Top.fn]) \in Nat
  BY <1>1, <1>2, FFISummaryAssumption DEF Running, Ended
<1>4. body[Top.fn] \in Seq(Fn \union Change)
  BY <1>1, <1>2, FFISummaryAssumption
<1>5. Top.at \in DOMAIN body[Top.fn] /\ body[Top.fn][Top.at] \in Fn \union Change
  BY <1>3, <1>4, ElementOfSeq, LenProperties
<1>6. Statement(Top) = body[Top.fn][Top.at]
  BY DEF Statement
<1>7. ASSUME NEW i \in 1 .. Len(stack) PROVE stack[i] \in Frame /\ stack[i].fn \in Fn
  <2>1. stack[i] \in Frame
    BY <1>1, ElementOfSeq
  <2> QED BY <2>1 DEF Frame
<1> QED BY <1>1, <1>2, <1>3, <1>5, <1>6, <1>7

LEMMA TopGoesOn ==
  ASSUME CallsInv, Running, NEW m \in Level,
         Exact => m = Does(Statement(Top), Top.now, Result),
         stack' = Append(Below, Advance(Top, m)), UNCHANGED <<body, waiting, cache>>
  PROVE  CallsInv'
<1>1. Advance(Top, m) \in Frame
  BY RunningIs, AdvancedFrame
<1>2. GoesOn(Len(stack), m)
  <2>1. stack \in Seq(Frame) /\ stack # << >> /\ Top = stack[Len(stack)]
    BY RunningIs
  <2>2. stack' = Exchanged(stack, Advance(Top, m))
    BY DEF Below, Exchanged
  <2>3. /\ Exchanged(stack, Advance(Top, m)) \in Seq(Frame)
        /\ Len(Exchanged(stack, Advance(Top, m))) = Len(stack)
        /\ Exchanged(stack, Advance(Top, m))[Len(stack)] = Advance(Top, m)
        /\ \A i \in 1 .. Len(stack) - 1 : Exchanged(stack, Advance(Top, m))[i] = stack[i]
    BY ONLY <1>1, <2>1, TopExchanged
  <2> QED BY <2>1, <2>2, <2>3 DEF GoesOn
<1>3. /\ stack[Len(stack)].at <= Len(body[stack[Len(stack)].fn])
      /\ Exact => m = Does(body[stack[Len(stack)].fn][stack[Len(stack)].at],
                           stack[Len(stack)].now, Result)
  BY RunningIs
<1>4. SameCacheIfExact /\ waiting' \in SUBSET Fn
  BY SameCache DEF CallsInv, CallsTypeOK
<1> QED BY <1>2, <1>3, <1>4, RunningIs, GoesOnKeepsCallsInv

(* The function that is called is one that every analysis below leads to,  *)
(* so that without recursion it is none of theirs, and those are all       *)
(* different: the limit is not met.                                        *)
LEMMA CalleeIsLed ==
  ASSUME CallsInv, Running, Statement(Top) \in Fn
  PROVE  \A i \in 1 .. Len(stack) : <<stack[i].fn, Statement(Top)>> \in Led
<1> DEFINE g == Statement(Top)
           n == Len(stack)
<1>1. g \in Calls(Top.fn)
  BY RunningIs DEF Calls
<1>2. ASSUME NEW i \in 1 .. n, NEW S \in SUBSET Fn, Under(stack[i].fn, S)
      PROVE  g \in S
  <2>1. CASE i = n
    BY <1>1, <1>2, <2>1, RunningIs DEF Under
  <2>2. CASE i # n
    <3>1. i < n /\ n \in 1 .. n
      BY <2>2, RunningIs
    <3>2. Top.fn \in S
      BY <1>2, <3>1, RunningIs DEF CallsInv, AllLead, Led
    <3> QED BY <1>1, <1>2, <3>2 DEF Under, CallClosed
  <2> QED BY <2>1, <2>2
<1>3. \A i \in 1 .. n : stack[i].fn \in Fn
  BY RunningIs
<1> QED BY <1>2, <1>3 DEF Led

LEMMA NoFunctionLeadsToItself ==
  ASSUME Acyclic, NEW f \in Fn
  PROVE  <<f, f>> \notin Led
BY DEF Acyclic, Led, Under

LEMMA NotTooDeep ==
  ASSUME CallsInv, Running, Statement(Top) \in Fn, Exact
  PROVE  ~ TooDeep
<1> DEFINE n == Len(stack)
           g == Statement(Top)
           fn == [i \in 1 .. n + 1 |-> IF i = n + 1 THEN g ELSE stack[i].fn]
<1>1. n \in Nat \ {0} /\ \A i \in 1 .. n : stack[i].fn \in Fn
  BY RunningIs
<1>2. fn \in [1 .. n + 1 -> Fn]
  BY <1>1
<1>3. ASSUME NEW i \in 1 .. n + 1, NEW j \in 1 .. n + 1, i < j
      PROVE  <<fn[i], fn[j]>> \in Led
  <2>1. i \in 1 .. n /\ fn[i] = stack[i].fn
    BY <1>1, <1>3
  <2>2. CASE j = n + 1
    BY <2>1, <2>2, CalleeIsLed
  <2>3. CASE j # n + 1
    BY <1>1, <1>3, <2>1, <2>3 DEF CallsInv, AllLead
  <2> QED BY <2>2, <2>3
<1> HIDE DEF fn
<1>4. ASSUME NEW i \in 1 .. n + 1, NEW j \in 1 .. n + 1, i # j
      PROVE  fn[i] # fn[j]
  <2>1. i < j \/ j < i
    BY <1>1, <1>4
  <2>2. fn[i] \in Fn /\ fn[j] \in Fn
    BY <1>2
  <2> QED BY <1>3, <2>1, <2>2, NoFunctionLeadsToItself DEF Exact
<1>5. IsFiniteSet(1 .. n + 1) /\ Cardinality(1 .. n + 1) = n + 1
  BY <1>1, FS_Interval
<1>6. n + 1 <= Cardinality(Fn)
  <2>1. IsFiniteSet(Fn) /\ Cardinality(Fn) \in Nat
    BY FFISummaryAssumption, FS_CardinalityType
  <2>2. ~ Cardinality(Fn) < Cardinality(1 .. n + 1)
    BY <1>2, <1>4, <1>5, <2>1, FS_PigeonHole
  <2> QED BY <1>1, <1>5, <2>1, <2>2
<1>7. Cardinality(Fn) \in Nat /\ Cardinality(Fn) < MaxDepth /\ MaxDepth \in Nat
  BY FFISummaryAssumption, FS_CardinalityType DEF Exact
<1> QED BY <1>1, <1>6, <1>7 DEF TooDeep

-----------------------------------------------------------------------------
(* The steps.                                                              *)
LEMMA StepKeeps ==
  ASSUME CallsInv, Step
  PROVE  CallsInv'
<1> DEFINE m == Effect(Statement(Top), Top.now)
<1>1. Running /\ Statement(Top) \notin Fn
  BY DEF Step
<1>2. m \in Level
  <2>1. Statement(Top) \in Change /\ Top.now \in Level
    BY <1>1, RunningIs
  <2> QED BY <2>1 DEF Effect, Level, Change
<1>3. m = Does(Statement(Top), Top.now, Result)
  BY <1>1 DEF Does
<1>4. stack' = Append(Below, Advance(Top, m)) /\ UNCHANGED <<body, waiting, cache>>
  BY DEF Step
<1> HIDE DEF m
<1> QED BY <1>1, <1>2, <1>3, <1>4, TopGoesOn

LEMMA UseSummaryKeeps ==
  ASSUME CallsInv, UseSummary
  PROVE  CallsInv'
<1>1. Running /\ Statement(Top) \in Fn /\ Cached # NotCached
  BY DEF UseSummary
<1>2. <<Statement(Top), Top.now>> \in Key
  BY <1>1, RunningIs DEF Key
<1>3. Cached \in Level
  BY <1>1, <1>2 DEF Cached, CallsInv, CallsTypeOK
<1>4. ASSUME Exact PROVE Cached = Does(Statement(Top), Top.now, Result)
  BY <1>1, <1>2, <1>4 DEF Cached, CallsInv, Correct, Does
<1>5. stack' = Append(Below, Advance(Top, Cached)) /\ UNCHANGED <<body, waiting, cache>>
  BY DEF UseSummary
<1> QED BY <1>1, <1>3, <1>4, <1>5, TopGoesOn

LEMMA GiveUpKeeps ==
  ASSUME CallsInv, GiveUp
  PROVE  CallsInv'
<1>1. Running /\ Statement(Top) \in Fn /\ TooDeep
  BY DEF GiveUp
<1>2. ~ Exact
  BY <1>1, NotTooDeep
<1>3. Top.now \in Level
  BY <1>1, RunningIs
<1>4. stack' = Append(Below, Advance(Top, Top.now)) /\ UNCHANGED <<body, waiting, cache>>
  BY DEF GiveUp
<1> QED BY <1>1, <1>2, <1>3, <1>4, TopGoesOn

LEMMA FollowKeeps ==
  ASSUME CallsInv, Follow
  PROVE  CallsInv'
<1> DEFINE n == Len(stack)
           g == Statement(Top)
           x == Enter(g, Top.now)
<1>1. /\ Running /\ g \in Fn /\ ~ TooDeep
      /\ stack' = Append(stack, x) /\ UNCHANGED <<body, waiting, cache>>
  BY DEF Follow
<1>2. /\ n \in Nat \ {0} /\ n \in 1 .. n /\ stack \in Seq(Frame)
      /\ \A i \in 1 .. n : stack[i] \in Frame
      /\ Top = stack[n] /\ Top.now \in Level /\ Top.at <= Len(body[Top.fn])
      /\ body[Top.fn][Top.at] = g /\ body \in [Fn -> Body]
  BY <1>1, RunningIs
<1>3. /\ x \in Frame /\ x.fn = g /\ x.init = Top.now /\ x.now = Top.now /\ x.at = 1
      /\ 1 \in 1 .. Len(body[g]) + 1 /\ (Exact => OnTrace(x))
  BY <1>1, <1>2, EnteredFrame
<1>4. /\ stack' \in Seq(Frame) /\ Len(stack') = n + 1
      /\ \A i \in 1 .. n : stack'[i] = stack[i]
      /\ stack'[n + 1] = x
  BY <1>1, <1>2, <1>3, AppendProperties
<1>5. body' = body /\ Result' = Result /\ Trace' = Trace /\ (Exact' <=> Exact) /\ Led' = Led
  BY <1>1, SameProgram
<1>6. \A i \in 1 .. n : <<stack[i].fn, g>> \in Led
  BY <1>1, CalleeIsLed
<1> HIDE DEF g, x
<1>7. CallsTypeOK' /\ DepthIsBounded'
  <2>1. n + 1 < MaxDepth
    BY <1>1, <1>2, FFISummaryAssumption DEF TooDeep
  <2> QED BY <1>1, <1>4, <2>1 DEF CallsInv, CallsTypeOK, DepthIsBounded
<1>8. ASSUME NEW i \in 1 .. n + 1
      PROVE  i = n + 1 \/ i \in 1 .. n
  BY <1>2
<1>9. Positions'
  BY <1>1, <1>3, <1>4, <1>8 DEF CallsInv, Positions
<1>10. Chained'
  <2> SUFFICES ASSUME NEW i \in 1 .. n
               PROVE  WaitsFor(stack'[i], stack'[i + 1])
    BY <1>2, <1>4, <1>5 DEF Chained, WaitsFor
  <2>1. CASE i = n
    BY <1>2, <1>3, <1>4, <2>1 DEF WaitsFor
  <2>2. CASE i # n
    <3>1. i \in 1 .. n - 1 /\ i + 1 \in 1 .. n
      BY <1>2, <2>2
    <3>2. WaitsFor(stack[i], stack[i + 1])
      BY <3>1 DEF CallsInv, Chained
    <3> QED BY <1>4, <3>1, <3>2
  <2> QED BY <2>1, <2>2
<1>11. AllLead'
  <2> SUFFICES ASSUME NEW i \in 1 .. n + 1, NEW j \in 1 .. n + 1, i < j
               PROVE  <<stack'[i].fn, stack'[j].fn>> \in Led
    BY <1>4, <1>5 DEF AllLead
  <2>1. i \in 1 .. n
    BY <1>2
  <2>2. CASE j = n + 1
    BY <1>3, <1>4, <1>6, <2>1, <2>2
  <2>3. CASE j # n + 1
    BY <1>4, <1>8, <2>1, <2>3 DEF CallsInv, AllLead
  <2> QED BY <2>2, <2>3
<1>12. Correct'
  <2> SUFFICES ASSUME Exact
               PROVE  /\ \A k \in Key : cache[k] # NotCached => cache[k] = Result[k]
                      /\ \A i \in 1 .. n + 1 : OnTrace(stack'[i])
    BY <1>1, <1>4, <1>5 DEF Correct, OnTrace
  <2>1. ASSUME NEW i \in 1 .. n + 1 PROVE OnTrace(stack'[i])
    <3>1. CASE i = n + 1
      BY <1>3, <1>4, <3>1
    <3>2. CASE i \in 1 .. n
      BY <1>4, <3>2 DEF CallsInv, Correct
    <3> QED BY <1>8, <3>1, <3>2
  <2> QED BY <2>1 DEF CallsInv, Correct
<1> QED BY <1>7, <1>9, <1>10, <1>11, <1>12 DEF CallsInv

(* The caller takes over what its callee computed: the state past the last *)
(* statement, which is what the function does.                             *)
LEMMA FinishCallKeeps ==
  ASSUME CallsInv, FinishCall
  PROVE  CallsInv'
<1> DEFINE n == Len(stack) - 1
           c == stack[n]
           k == <<Top.fn, Top.init>>
<1>1. /\ Len(stack) > 1 /\ Ended(Top)
      /\ cache' = [cache EXCEPT ![k] = Top.now]
      /\ stack' = [Below EXCEPT ![n] = Advance(@, Top.now)]
      /\ UNCHANGED <<body, waiting>>
  BY DEF FinishCall
<1>2. stack \in Seq(Frame) /\ stack # << >> /\ body \in [Fn -> Body]
  BY <1>1, EmptySeq DEF CallsInv, CallsTypeOK
<1>3. /\ Len(stack) \in Nat \ {0} /\ Len(stack) \in 1 .. Len(stack) /\ n + 1 = Len(stack)
      /\ n \in 1 .. Len(stack) - 1 /\ n \in 1 .. Len(stack)
      /\ Top = stack[n + 1] /\ Top.fn \in Fn /\ Top.init \in Level /\ Top.now \in Level
      /\ k \in Key
  BY <1>1, <1>2, TopIs DEF Key
<1>4. c \in Frame
  BY <1>2, <1>3, ElementOfSeq
<1>5. WaitsFor(c, Top)
  BY <1>3 DEF CallsInv, Chained
<1>6. ASSUME Exact PROVE Top.now = Result[k]
  <2>1. Top.at = Len(body[Top.fn]) + 1
    <3>1. Top.at \in 1 .. Len(body[Top.fn]) + 1
      BY <1>3 DEF CallsInv, Positions
    <3>2. Len(body[Top.fn]) \in Nat
      BY <1>2, <1>3, FFISummaryAssumption
    <3> QED BY <1>1, <3>1, <3>2 DEF Ended
  <2>2. Top.now = Trace[k][Top.at - 1]
    BY <1>3, <1>6 DEF CallsInv, Correct, OnTrace
  <2>3. Trace[k][Len(body[Top.fn])] = Result[k]
    <3>1. k[1] = Top.fn
      OBVIOUS
    <3> QED BY <1>2, <1>3, <1>6, <3>1, EquationsHold DEF Equations
  <2>4. Top.at - 1 = Len(body[Top.fn])
    BY <1>2, <1>3, <2>1, FFISummaryAssumption
  <2> QED BY <2>2, <2>3, <2>4
<1>7. GoesOn(n, Top.now)
  <2>1. Advance(c, Top.now) \in Frame
    BY <1>3, <1>4, AdvancedFrame
  <2>2. stack' = Taken(stack, Advance(c, Top.now))
    <3>1. Below[n] = c /\ n \in DOMAIN Below
      <4>1. Below \in Seq(Frame) /\ Len(Below) = n /\ \A i \in 1 .. n : Below[i] = stack[i]
        BY <1>2, WithoutTop DEF Below
      <4> QED BY <1>3, <4>1, LenProperties
    <3> QED BY <1>1, <3>1 DEF Below, Taken
  <2>3. /\ Taken(stack, Advance(c, Top.now)) \in Seq(Frame)
        /\ Len(Taken(stack, Advance(c, Top.now))) = n
        /\ Taken(stack, Advance(c, Top.now))[n] = Advance(c, Top.now)
        /\ \A i \in 1 .. Len(stack) - 2 : Taken(stack, Advance(c, Top.now))[i] = stack[i]
    BY ONLY <1>1, <1>2, <2>1, TopTaken
  <2>4. Len(stack) - 2 = n - 1
    BY <1>3
  <2> HIDE DEF n
  <2>5. /\ stack' \in Seq(Frame) /\ Len(stack') = n /\ stack'[n] = Advance(stack[n], Top.now)
        /\ \A i \in 1 .. n - 1 : stack'[i] = stack[i]
    BY <2>2, <2>3, <2>4
  <2> QED BY <2>5 DEF GoesOn
<1>8. SameCacheIfExact
  <2>1. cache' \in [Key -> {NotCached} \union Level]
    BY <1>1, <1>3 DEF CallsInv, CallsTypeOK
  <2>2. ASSUME Exact, NEW j \in Key, cache'[j] # NotCached
        PROVE  cache'[j] = Result[j]
    <3>1. CASE j = k
      BY <1>1, <1>3, <1>6, <2>2, <3>1 DEF CallsInv, CallsTypeOK
    <3>2. CASE j # k
      BY <1>1, <2>2, <3>2 DEF CallsInv, CallsTypeOK, Correct
    <3> QED BY <3>1, <3>2
  <2> QED BY <2>1, <2>2 DEF SameCacheIfExact
<1>9. /\ c.at <= Len(body[c.fn])
      /\ Exact => Top.now = Does(body[c.fn][c.at], c.now, Result)
  BY <1>3, <1>5, <1>6 DEF WaitsFor, Does
<1>10. waiting' \in SUBSET Fn
  BY <1>1 DEF CallsInv, CallsTypeOK
<1> QED BY <1>1, <1>3, <1>7, <1>8, <1>9, <1>10, GoesOnKeepsCallsInv

(* A stack of one analysis, or of none.                                    *)
LEMMA FinishEntryKeeps ==
  ASSUME CallsInv, FinishEntry
  PROVE  CallsInv'
<1>1. stack' = << >> /\ UNCHANGED <<body, waiting, cache>>
  BY DEF FinishEntry
<1>2. stack' \in Seq(Frame) /\ Len(stack') = 0
  BY <1>1, EmptySeq
<1>3. Result' = Result /\ Trace' = Trace /\ (Exact' <=> Exact) /\ Led' = Led
  BY <1>1, SameProgram
<1>4. CallsTypeOK' /\ DepthIsBounded'
  BY <1>1, <1>2, FFISummaryAssumption DEF CallsInv, CallsTypeOK, DepthIsBounded
<1>5. Positions' /\ Chained' /\ AllLead'
  BY <1>2 DEF Positions, Chained, AllLead
<1>6. Correct'
  BY <1>1, <1>2, <1>3 DEF CallsInv, Correct
<1> QED BY <1>4, <1>5, <1>6 DEF CallsInv

LEMMA StartEntryKeeps ==
  ASSUME CallsInv, NEW f \in Fn, StartEntry(f)
  PROVE  CallsInv'
<1> DEFINE x == Enter(f, "Tainted")
<1>1. stack' = <<x>> /\ waiting' = waiting \ {f} /\ UNCHANGED <<body, cache>>
  BY DEF StartEntry
<1>2. "Tainted" \in Level /\ body \in [Fn -> Body]
  BY DEF Level, CallsInv, CallsTypeOK
<1>3. /\ x \in Frame /\ x.fn = f /\ x.at = 1
      /\ 1 \in 1 .. Len(body[f]) + 1 /\ (Exact => OnTrace(x))
  BY <1>2, EnteredFrame
<1> HIDE DEF x
<1>4. stack' \in Seq(Frame) /\ Len(stack') = 1 /\ stack'[1] = x
  BY <1>1, <1>3
<1>5. Result' = Result /\ Trace' = Trace /\ (Exact' <=> Exact) /\ Led' = Led
  BY <1>1, SameProgram
<1>6. CallsTypeOK' /\ DepthIsBounded'
  BY <1>1, <1>4, FFISummaryAssumption DEF CallsInv, CallsTypeOK, DepthIsBounded
<1>7. Positions' /\ Chained' /\ AllLead'
  BY <1>1, <1>3, <1>4 DEF Positions, Chained, AllLead
<1>8. Correct'
  <2> SUFFICES ASSUME Exact
               PROVE  /\ \A k \in Key : cache[k] # NotCached => cache[k] = Result[k]
                      /\ OnTrace(x)
    BY <1>1, <1>4, <1>5 DEF Correct, OnTrace
  <2> QED BY <1>3 DEF CallsInv, Correct
<1> QED BY <1>6, <1>7, <1>8 DEF CallsInv

LEMMA CallsInvInvariant == CallsSpec => []CallsInv
<1>1. CallsInit => CallsInv
  <2> SUFFICES ASSUME CallsInit PROVE CallsInv
    OBVIOUS
  <2>1. stack = << >> /\ stack \in Seq(Frame) /\ Len(stack) = 0
    BY EmptySeq DEF CallsInit
  <2>2. CallsTypeOK /\ DepthIsBounded
    BY <2>1, FFISummaryAssumption DEF CallsInit, CallsTypeOK, DepthIsBounded
  <2>3. Positions /\ Chained /\ AllLead
    BY <2>1 DEF Positions, Chained, AllLead
  <2>4. Correct
    BY <2>1 DEF CallsInit, Correct
  <2> QED BY <2>2, <2>3, <2>4 DEF CallsInv
<1>2. CallsInv /\ [CallsNext]_callsVars => CallsInv'
  <2> SUFFICES ASSUME CallsInv, [CallsNext]_callsVars PROVE CallsInv'
    OBVIOUS
  <2>1. CASE CallsNext
    BY <2>1, StartEntryKeeps, StepKeeps, UseSummaryKeeps, GiveUpKeeps, FollowKeeps,
       FinishCallKeeps, FinishEntryKeeps DEF CallsNext
  <2>2. CASE UNCHANGED callsVars
    <3>1. UNCHANGED <<body, waiting, stack, cache>>
      BY <2>2 DEF callsVars
    <3>2. Result' = Result /\ Trace' = Trace /\ (Exact' <=> Exact) /\ Led' = Led
      BY <3>1, SameProgram
    <3> QED BY <3>1, <3>2 DEF CallsInv, CallsTypeOK, DepthIsBounded, Positions, Chained, WaitsFor,
            AllLead, Correct, OnTrace
  <2> QED BY <2>1, <2>2
<1> QED BY <1>1, <1>2, PTL DEF CallsSpec

(* What is cached for a function and a state of its argument is what a new *)
(* analysis of it would give, in every program without recursion that has  *)
(* fewer functions than the limit, for every order of the entry points and *)
(* wherever the function was called first; the analyses that wait for each *)
(* other never exceed the limit, in any program.                           *)
THEOREM SummariesAreExact == CallsSpec => []CallsOK
<1>1. CallsInv => CallsOK
  <2> SUFFICES ASSUME CallsInv PROVE CallsOK
    OBVIOUS
  <2>1. SummariesExact
    BY DEF SummariesExact, CallsInv, Correct, Exact, Result
  <2> QED BY <2>1 DEF CallsInv, CallsOK
<1> QED BY <1>1, CallsInvInvariant, PTL

(* The analysis of one function goes through the states that its body      *)
(* gives, whichever of the calls were answered from the cache: at its last *)
(* statement it holds what the function does.                              *)
EndsExact ==
  Exact => \A i \in 1 .. Len(stack) :
             Ended(stack[i]) => stack[i].now = Summary[MaxDepth][<<stack[i].fn, stack[i].init>>]

THEOREM EveryAnalysisEndsExact == CallsSpec => []EndsExact
<1>1. CallsInv => EndsExact
  <2> SUFFICES ASSUME CallsInv, Exact, NEW i \in 1 .. Len(stack), Ended(stack[i])
               PROVE  stack[i].now = Summary[MaxDepth][<<stack[i].fn, stack[i].init>>]
    BY DEF EndsExact
  <2> DEFINE k == <<stack[i].fn, stack[i].init>>
  <2>1. body \in [Fn -> Body] /\ stack[i] \in Frame
    BY ElementOfSeq DEF CallsInv, CallsTypeOK
  <2>2. /\ k \in Key /\ k[1] = stack[i].fn /\ Len(body[stack[i].fn]) \in Nat
    BY <2>1, FFISummaryAssumption DEF Key, Frame
  <2>3. stack[i].at - 1 = Len(body[stack[i].fn])
    BY <2>1, <2>2 DEF CallsInv, Positions, Ended, Frame
  <2>4. stack[i].now = Trace[k][stack[i].at - 1]
    BY DEF CallsInv, Correct, OnTrace
  <2>5. Trace[k][Len(body[stack[i].fn])] = Result[k]
    BY <2>1, <2>2, EquationsHold DEF Equations
  <2> QED BY <2>3, <2>4, <2>5 DEF Result
<1> QED BY <1>1, CallsInvInvariant, PTL

-----------------------------------------------------------------------------
(***************************************************************************)
(* The runs of a case.                                                     *)
(***************************************************************************)
USE FFIEntryAssumption

(* The case grows with the edits.                                          *)
SourceOK ==
  /\ edits \in 0 .. MaxEdits
  /\ \A c \in Children : source[c] <= edits
  /\ pc # "off" => \A c \in Children : asked[c] <= source[c]

(* A child of the copy that is no longer to be copied is as recent as the  *)
(* run, or newer.                                                          *)
Copied(c) == staged[c] # Missing /\ staged[c] >= asked[c]

StagedOK ==
  pc # "off" => \A c \in Children : (pc = "sync" /\ c \in todo) \/ Copied(c)

(* After the build directory was cleaned every line in it is of the copy.  *)
Current(l) == l.version = staged[Child[l.unit]]

AfterClean == {"next", "cargo", "analyze"}

EntriesOK ==
  pc \in AfterClean => \A n \in DOMAIN entries : \A l \in entries[n] : Current(l)

(* A file that is being written holds such lines, and nothing else.        *)
WritingOK ==
  \A u \in Units : procs[u] = "write" =>
    CrateName[u] \in DOMAIN entries /\ \A l \in entries[CrateName[u]] : Current(l)

EntryIInv == EntryTypeOK /\ SourceOK /\ StagedOK /\ EntriesOK /\ WritingOK

-----------------------------------------------------------------------------
(* It holds before the first run.                                          *)
LEMMA EntryInitIInv == EntryInit => EntryIInv
BY DEF EntryInit, EntryIInv, EntryTypeOK, SourceOK, StagedOK, EntriesOK, WritingOK, AfterClean, Versions, Idle

(* A program that runs in the place of rustc does so while cargo runs.     *)
LEMMA CargoRuns ==
  ASSUME EntryTypeOK, NEW u \in Units, procs[u] # "idle"
  PROVE  pc = "cargo"
BY DEF EntryTypeOK, Idle

(* The lines that are written are those of the copy.                       *)
LEMMA LinesAreCurrent ==
  ASSUME NEW u \in Units, NEW l \in LinesOf(u)
  PROVE  Current(l)
BY DEF LinesOf, Line, Current

(* The types.                                                              *)
LEMMA TypeNext ==
  ASSUME EntryIInv, EntryNext
  PROVE  EntryTypeOK'
<1> USE DEF EntryIInv, EntryTypeOK, SourceOK, Versions
<1>1. CASE Begin
  BY <1>1 DEF Begin, disk
<1>2. CASE Kill
  BY <1>2 DEF Kill, disk, Idle
<1>3. ASSUME NEW c \in Children, SyncChild(c) PROVE EntryTypeOK'
  BY <1>3 DEF SyncChild
<1>4. CASE Synced
  BY <1>4 DEF Synced, disk
<1>5. CASE CargoClean
  BY <1>5 DEF CargoClean
<1>6. CASE CallCargo
  BY <1>6 DEF CallCargo, Called, disk
<1>7. CASE CargoExit
  BY <1>7 DEF CargoExit, Idle, disk
<1>8. CASE GenerateBitcode
  BY <1>8 DEF GenerateBitcode, disk
<1>9. CASE Analyze
  BY <1>9 DEF Analyze, disk
<1>10. ASSUME NEW u \in Units, StartUnit(u) PROVE EntryTypeOK'
  BY <1>10 DEF StartUnit, Busy, disk
<1>11. ASSUME NEW u \in Units, CheckFile(u) PROVE EntryTypeOK'
  BY <1>11, CargoRuns DEF CheckFile, Busy, disk
<1>12. ASSUME NEW u \in Units, CreateFile(u) PROVE EntryTypeOK'
  BY <1>12, CargoRuns DEF CreateFile, Busy
<1>13. ASSUME NEW u \in Units, WriteLine(u) PROVE EntryTypeOK'
  BY <1>13, CargoRuns DEF WriteLine, Busy
<1>14. ASSUME NEW u \in Units, Compile(u) PROVE EntryTypeOK'
  BY <1>14, CargoRuns DEF Compile, Busy
<1>15. ASSUME NEW c \in Children, Edit(c) PROVE EntryTypeOK'
  BY <1>15 DEF Edit, disk
<1> QED BY <1>1, <1>2, <1>3, <1>4, <1>5, <1>6, <1>7, <1>8, <1>9, <1>10, <1>11, <1>12, <1>13,
           <1>14, <1>15 DEF EntryNext, RunStep, Collector

(* The versions: only the user changes the case, and only _sync_path the   *)
(* copy of it.                                                             *)
LEMMA VersionsNext ==
  ASSUME EntryIInv, EntryNext
  PROVE  SourceOK' /\ StagedOK'
<1> USE DEF EntryIInv, EntryTypeOK, SourceOK, StagedOK, Copied, Versions
<1>1. CASE Begin
  BY <1>1 DEF Begin, disk
<1>2. CASE Kill
  BY <1>2 DEF Kill, disk
<1>3. ASSUME NEW c \in Children, SyncChild(c) PROVE SourceOK' /\ StagedOK'
  BY <1>3 DEF SyncChild
<1>4. CASE Synced
  BY <1>4 DEF Synced, disk
<1>5. CASE CargoClean
  BY <1>5 DEF CargoClean
<1>6. CASE CallCargo
  BY <1>6 DEF CallCargo, disk
<1>7. CASE CargoExit
  BY <1>7 DEF CargoExit, disk
<1>8. CASE GenerateBitcode
  BY <1>8 DEF GenerateBitcode, disk
<1>9. CASE Analyze
  BY <1>9 DEF Analyze, disk
<1>10. ASSUME NEW u \in Units, StartUnit(u) \/ CheckFile(u) PROVE SourceOK' /\ StagedOK'
  BY <1>10 DEF StartUnit, CheckFile, disk
<1>11. ASSUME NEW u \in Units, CreateFile(u) \/ WriteLine(u) \/ Compile(u)
       PROVE  SourceOK' /\ StagedOK'
  BY <1>11 DEF CreateFile, WriteLine, Compile
<1>12. ASSUME NEW c \in Children, Edit(c) PROVE SourceOK' /\ StagedOK'
  BY <1>12 DEF Edit, disk
<1> QED BY <1>1, <1>2, <1>3, <1>4, <1>5, <1>6, <1>7, <1>8, <1>9, <1>10, <1>11, <1>12
        DEF EntryNext, RunStep, Collector

(* The entry points.                                                       *)
LEMMA EntriesNext ==
  ASSUME EntryIInv, EntryNext
  PROVE  EntriesOK' /\ WritingOK'
<1> DEFINE Goal == EntriesOK' /\ WritingOK'
<1> USE DEF EntryIInv, EntriesOK, WritingOK, Current, AfterClean
<1>1. ASSUME UNCHANGED <<entries, staged>>, pc' \in AfterClean => pc \in AfterClean,
             \A u \in Units : procs'[u] = "write" => procs[u] = "write"
      PROVE  Goal
  BY <1>1
<1>2. CASE Begin \/ Kill \/ Synced \/ CallCargo \/ CargoExit \/ GenerateBitcode \/ Analyze
  BY <1>1, <1>2 DEF Begin, Kill, Synced, CallCargo, Called, CargoExit, GenerateBitcode, Analyze,
                    Idle, disk
<1>3. ASSUME NEW c \in Children, SyncChild(c) PROVE Goal
  BY <1>3 DEF SyncChild, EntryTypeOK, Idle
<1>4. CASE CargoClean
  BY <1>4 DEF CargoClean, EntryTypeOK, Idle
<1>5. ASSUME NEW u \in Units, StartUnit(u) \/ CheckFile(u) \/ Compile(u) PROVE Goal
  BY <1>1, <1>5 DEF StartUnit, CheckFile, Compile, EntryTypeOK, disk
<1>6. ASSUME NEW u \in Units, CreateFile(u) PROVE Goal
  BY <1>6 DEF CreateFile, EntryTypeOK
<1>7. ASSUME NEW u \in Units, WriteLine(u) PROVE Goal
  <2>1. CrateName[u] \in DOMAIN entries /\ \A l \in entries[CrateName[u]] : Current(l)
    BY <1>7 DEF WriteLine
  <2>2. pc = "cargo" /\ UNCHANGED <<pc, staged>>
    BY <1>7, CargoRuns DEF WriteLine
  <2>3. CASE UNCHANGED entries
    <3>1. \A v \in Units : procs'[v] = "write" => procs[v] = "write"
      BY <1>7 DEF WriteLine, EntryTypeOK
    <3> QED BY <2>2, <2>3, <3>1
  <2>4. ASSUME NEW l \in LinesOf(u), entries' = [entries EXCEPT ![CrateName[u]] = @ \union {l}],
               UNCHANGED procs
        PROVE  Goal
    <3>1. Current(l)
      BY LinesAreCurrent
    <3>2. /\ DOMAIN entries' = DOMAIN entries
          /\ \A n \in DOMAIN entries :
               entries'[n] = IF n = CrateName[u] THEN entries[n] \union {l} ELSE entries[n]
      BY <2>4
    <3> QED BY <2>1, <2>2, <2>4, <3>1, <3>2
  <2> QED BY <1>7, <2>3, <2>4 DEF WriteLine
<1>8. ASSUME NEW c \in Children, Edit(c) PROVE Goal
  BY <1>1, <1>8 DEF Edit, disk
<1> QED BY <1>2, <1>3, <1>4, <1>5, <1>6, <1>7, <1>8 DEF EntryNext, RunStep, Collector

(* The invariant: the types, the versions of the case and of its copy, and *)
(* the entry points collected from it.                                     *)
THEOREM EntryInvariance == EntrySpec => []EntryIInv
<1>1. EntryIInv /\ [EntryNext]_entryVars => EntryIInv'
  <2>1. ASSUME EntryIInv, EntryNext PROVE EntryIInv'
    BY <2>1, TypeNext, VersionsNext, EntriesNext DEF EntryIInv
  <2>2. ASSUME EntryIInv, UNCHANGED entryVars PROVE EntryIInv'
    BY <2>2 DEF EntryIInv, EntryTypeOK, SourceOK, StagedOK, Copied, EntriesOK, WritingOK, AfterClean, Current, entryVars
  <2> QED BY <2>1, <2>2
<1> QED BY EntryInitIInv, <1>1, PTL DEF EntrySpec

(* A case keeps its types, whatever its units are and wherever a run stops. *)
THEOREM EntryTypeCorrect == EntrySpec => []EntryTypeOK
<1>1. EntryIInv => EntryTypeOK
  BY DEF EntryIInv
<1> QED BY EntryInvariance, <1>1, PTL

(* What is compiled is at least as recent as the run (base.py:132-163).    *)
THEOREM Recent == EntrySpec => []StagedIsRecent
<1>1. EntryIInv => StagedIsRecent
  BY DEF EntryIInv, StagedOK, Copied, StagedIsRecent
<1> QED BY EntryInvariance, <1>1, PTL

(* The analyzer never starts from an entry point of an older build         *)
(* (callback.rs:131-149).                                                  *)
THEOREM CurrentEntries == EntrySpec => []EntriesAreCurrent
<1>1. EntryIInv => EntriesAreCurrent
  BY DEF EntryIInv, EntriesOK, AfterClean, Current, EntriesAreCurrent
<1> QED BY EntryInvariance, <1>1, PTL

-----------------------------------------------------------------------------
(***************************************************************************)
(* What is built.  The files of two units must not be the same one, so the *)
(* crates have names of their own.                                         *)
(***************************************************************************)
DistinctNames == \A u, v \in Units : CrateName[u] = CrateName[v] => u = v

(* Everything public of a unit is in its file.                             *)
Collected(u) ==
  \A f \in Public[u] :
    CrateName[u] \in DOMAIN entries /\ Line("Entry", f, u) \in entries[CrateName[u]]

(* The targets cargo has ended with are built and collected.               *)
CallEnded(k) == k < at \/ (k = at /\ pc # "cargo")

EndedOK ==
  pc \in AfterClean =>
    \A k \in DOMAIN Targets : CallEnded(k) => Fresh(Targets[k]) /\ Collected(Targets[k])

(* A unit that no target so far needs has left nothing behind.             *)
Needed(u) == \E k \in 1 .. at : u \in Closure[Targets[k]]

UntouchedOK ==
  pc \in AfterClean =>
    \A u \in Units : ~ Needed(u) => u \notin DOMAIN built /\ CrateName[u] \notin DOMAIN entries

(* A call of cargo is about what its target needs.                         *)
CallOK ==
  pc = "cargo" =>
    /\ at \in DOMAIN Targets
    /\ \A u \in Units : procs[u] # "idle" <=> u \in Closure[Targets[at]]

UnitsOK ==
  \A u \in Units :
    /\ procs[u] = "done" => Fresh(u)
    /\ procs[u] = "create" => CrateName[u] \notin DOMAIN entries

(* The target itself is collected when it is compiled.                     *)
TargetOK ==
  pc = "cargo" =>
    LET t == Targets[at] IN
      /\ procs[t] \in {"waiting", "check"} => CrateName[t] \notin DOMAIN entries
      /\ procs[t] \in {"compile", "done"} => Collected(t)

AnalyzeOK == pc = "analyze" => at = Len(Targets)

BInv == EndedOK /\ UntouchedOK /\ CallOK /\ UnitsOK /\ TargetOK /\ AnalyzeOK

(* What a unit is compiled from: itself, what it depends on, and so on.    *)
LEMMA ClosureOfUnit ==
  ASSUME NEW t \in Units
  PROVE  /\ t \in Closure[t]
         /\ Closure[t] \subseteq Units
         /\ \A u \in Closure[t] : DependsOn[u] \subseteq Closure[t]
<1>1. Closure[t] = {u \in Units : \A S \in SUBSET Units : t \in S /\ DownwardClosed(S) => u \in S}
  BY DEF Closure
<1>2. ASSUME NEW u \in Closure[t], NEW d \in DependsOn[u]
      PROVE  d \in Closure[t]
  <2>1. d \in Units
    BY <1>1, <1>2, CargoAssumption
  <2>2. ASSUME NEW S \in SUBSET Units, t \in S, DownwardClosed(S)
        PROVE  d \in S
    <3>1. u \in S
      BY <1>1, <2>2
    <3> QED BY <3>1, <2>2, <1>2 DEF DownwardClosed
  <2> QED BY <1>1, <2>1, <2>2
<1> QED BY <1>1, <1>2

LEMMA TargetsAreUnits == \A k \in DOMAIN Targets : Targets[k] \in Units
BY DEF Units, TopUnits

(* What is collected or fresh stays so while files grow.                   *)
Grows ==
  /\ UNCHANGED staged
  /\ \A v \in DOMAIN built : v \in DOMAIN built' /\ (Fresh(v) => Fresh(v)')
  /\ \A n \in DOMAIN entries : n \in DOMAIN entries' /\ entries[n] \subseteq entries'[n]

LEMMA GrowingKeeps ==
  ASSUME Grows, NEW u
  PROVE  (Fresh(u) => Fresh(u)') /\ (Collected(u) => Collected(u)')
<1>1. Fresh(u) => Fresh(u)'
  BY DEF Grows, Fresh
<1>2. Collected(u) => Collected(u)'
  BY DEF Grows, Collected, Line
<1> QED BY <1>1, <1>2

LEMMA SameDiskGrows ==
  ASSUME UNCHANGED disk
  PROVE  Grows /\ (\A u : Fresh(u)' = Fresh(u)) /\ (\A u : Collected(u)' = Collected(u))
BY DEF disk, Grows, Fresh, CodeOf, Collected, Line

(* A step that leaves the disk and the call of cargo alone.                *)
LEMMA OtherStep ==
  ASSUME BInv, EntryTypeOK, UNCHANGED <<disk, at, procs>>,
         \/ pc' = pc
         \/ pc = "next" /\ pc' = "analyze" /\ at = Len(Targets)
         \/ pc # "cargo" /\ pc' = "off"
  PROVE  BInv'
<1> USE SameDiskGrows DEF BInv
<1>1. EndedOK'
  BY DEF EndedOK, CallEnded, AfterClean
<1>2. UntouchedOK'
  BY DEF UntouchedOK, Needed, AfterClean, disk
<1>3. CallOK' /\ AnalyzeOK'
  BY DEF CallOK, AnalyzeOK
<1>4. UnitsOK' /\ TargetOK'
  BY DEF UnitsOK, TargetOK, disk
<1> QED BY <1>1, <1>2, <1>3, <1>4

(* Before the build directory is cleaned nothing is claimed.               *)
LEMMA BeforeClean ==
  ASSUME pc' \notin AfterClean, procs' = Idle
  PROVE  BInv'
BY DEF BInv, EndedOK, UntouchedOK, CallOK, UnitsOK, TargetOK, AnalyzeOK, AfterClean, Idle

LEMMA CleanBuilds ==
  ASSUME EntryTypeOK, CargoClean
  PROVE  BInv'
<1>1. pc' = "next" /\ at' = 0 /\ procs' = Idle /\ DOMAIN built' = {} /\ DOMAIN entries' = {}
  BY DEF CargoClean, EntryTypeOK
<1> QED BY <1>1 DEF BInv, EndedOK, CallEnded, UntouchedOK, CallOK, UnitsOK, TargetOK, AnalyzeOK, Idle

(* The next target cannot have been compiled for an earlier one.           *)
LEMMA CallBuilds ==
  ASSUME EntryTypeOK, BInv, CallCargo
  PROVE  BInv'
<1> DEFINE t == Targets[at + 1]
<1>1. /\ pc = "next" /\ pc' = "cargo" /\ at \in Nat /\ at' = at + 1 /\ at' \in DOMAIN Targets
      /\ procs' = Called(t) /\ UNCHANGED disk
  BY DEF CallCargo, EntryTypeOK
<1>2. t \in Units /\ t \in Closure[t] /\ Closure[t] \subseteq Units
  BY <1>1, TargetsAreUnits, ClosureOfUnit
<1>3. ~ Needed(t)
  BY <1>1, CargoAssumption DEF Needed
<1>4. t \notin DOMAIN built /\ CrateName[t] \notin DOMAIN entries
  BY <1>1, <1>2, <1>3 DEF BInv, UntouchedOK, AfterClean
<1> HIDE DEF t
<1>5. /\ \A u \in Units : procs'[u] # "idle" <=> u \in Closure[t]
      /\ \A u \in Units : procs'[u] = "done" => Fresh(u)
      /\ \A u \in Units : procs'[u] # "create"
  BY <1>1 DEF Called
<1>6. procs'[t] = "waiting"
  BY <1>1, <1>2, <1>4 DEF Called, Fresh
<1>7. EndedOK'
  BY <1>1, SameDiskGrows DEF BInv, EndedOK, CallEnded, AfterClean
<1>8. UntouchedOK'
  BY <1>1 DEF BInv, UntouchedOK, Needed, AfterClean, disk
<1>9. CallOK' /\ AnalyzeOK'
  BY <1>1, <1>5 DEF CallOK, AnalyzeOK, t
<1>10. UnitsOK'
  BY <1>1, <1>5, SameDiskGrows DEF UnitsOK
<1>11. TargetOK'
  BY <1>1, <1>4, <1>6 DEF TargetOK, disk, t
<1> QED BY <1>7, <1>8, <1>9, <1>10, <1>11 DEF BInv

(* When cargo can start nothing and nothing failed, all of its call is     *)
(* done: of the units that wait one would depend on none of the others.    *)
LEMMA CallIsDone ==
  ASSUME EntryTypeOK, BInv, pc = "cargo",
         \A u \in Units : procs[u] \notin Busy /\ ~ CanStart(u),
         \A u \in Units : procs[u] # "failed"
  PROVE  procs[Targets[at]] = "done"
<1> DEFINE t == Targets[at]
           W == {u \in Units : procs[u] = "waiting"}
<1>1. at \in DOMAIN Targets /\ \A u \in Units : procs[u] # "idle" <=> u \in Closure[t]
  BY DEF BInv, CallOK
<1>2. t \in Units /\ t \in Closure[t] /\ \A u \in Closure[t] : DependsOn[u] \subseteq Closure[t]
  BY <1>1, TargetsAreUnits, ClosureOfUnit
<1>3. \A u \in Units : procs[u] \in {"idle", "waiting", "done"}
  BY DEF EntryTypeOK
<1>4. ASSUME W # {} PROVE FALSE
  <2>1. PICK u \in W : DependsOn[u] \intersect W = {}
    BY <1>4, CargoAssumption
  <2>2. \A d \in DependsOn[u] : d \in Units /\ procs[d] = "done"
    BY <1>1, <1>2, <1>3, <2>1, CargoAssumption
  <2> QED BY <2>1, <2>2 DEF CanStart
<1> QED BY <1>1, <1>2, <1>3, <1>4

LEMMA ExitBuilds ==
  ASSUME EntryTypeOK, BInv, CargoExit
  PROVE  BInv'
<1>1. CASE \E u \in Units : procs[u] = "failed"
  BY <1>1, BeforeClean DEF CargoExit, AfterClean
<1>2. CASE \A u \in Units : procs[u] # "failed"
  <2>1. pc = "cargo" /\ pc' = "next" /\ procs' = Idle /\ UNCHANGED <<disk, at>>
    BY <1>2 DEF CargoExit
  <2>2. procs[Targets[at]] = "done" /\ at \in DOMAIN Targets
    BY <1>2, CallIsDone DEF CargoExit, BInv, CallOK
  <2>3. Fresh(Targets[at]) /\ Collected(Targets[at])
    BY <2>1, <2>2, TargetsAreUnits DEF BInv, UnitsOK, TargetOK
  <2>4. EndedOK'
    BY <2>1, <2>3, SameDiskGrows DEF BInv, EndedOK, CallEnded, AfterClean
  <2>5. UntouchedOK'
    BY <2>1 DEF BInv, UntouchedOK, Needed, AfterClean, disk
  <2> QED BY <2>1, <2>4, <2>5 DEF BInv, CallOK, UnitsOK, TargetOK, AnalyzeOK, Idle
<1> QED BY <1>1, <1>2

(* A step of the process of one unit.                                      *)
LEMMA UnitStep ==
  ASSUME EntryTypeOK, BInv, DistinctNames, NEW u \in Units, pc = "cargo", procs[u] # "idle",
         UNCHANGED <<pc, at, staged>>, Grows,
         procs' = [procs EXCEPT ![u] = procs'[u]], procs'[u] # "idle",
         \A v \in Units \ {u} :
           /\ v \in DOMAIN built' <=> v \in DOMAIN built
           /\ CrateName[v] \in DOMAIN entries' <=> CrateName[v] \in DOMAIN entries,
         procs'[u] = "done" => Fresh(u)',
         procs'[u] = "create" => CrateName[u] \notin DOMAIN entries',
         u = Targets[at] /\ procs'[u] \in {"waiting", "check"} => CrateName[u] \notin DOMAIN entries',
         u = Targets[at] /\ procs'[u] \in {"compile", "done"} => Collected(u)'
  PROVE  BInv'
<1>1. /\ procs'[u] # "idle" /\ \A v \in Units \ {u} : procs'[v] = procs[v]
  BY DEF EntryTypeOK
<1>2. at \in DOMAIN Targets /\ Targets[at] \in Units /\ u \in Closure[Targets[at]]
  BY TargetsAreUnits DEF BInv, CallOK
<1>3. EndedOK'
  BY GrowingKeeps DEF BInv, EndedOK, CallEnded, AfterClean
<1>4. UntouchedOK'
  <2>1. Needed(u)
    BY <1>2, FFIEntryAssumption DEF Needed
  <2>2. \A v \in Units : Needed(v)' <=> Needed(v)
    BY DEF Needed
  <2> QED BY <2>1, <2>2 DEF BInv, UntouchedOK, AfterClean
<1>5. CallOK' /\ AnalyzeOK'
  BY <1>1 DEF BInv, CallOK, AnalyzeOK
<1>6. UnitsOK'
  <2> SUFFICES ASSUME NEW v \in Units
               PROVE  /\ procs'[v] = "done" => Fresh(v)'
                      /\ procs'[v] = "create" => CrateName[v] \notin DOMAIN entries'
    BY DEF UnitsOK
  <2>1. CASE v = u
    BY <2>1
  <2>2. CASE v # u
    BY <2>2, <1>1, GrowingKeeps DEF BInv, UnitsOK
  <2> QED BY <2>1, <2>2
<1>7. TargetOK'
  <2>1. CASE Targets[at] = u
    BY <2>1 DEF TargetOK
  <2>2. CASE Targets[at] # u
    BY <2>2, <1>1, <1>2, GrowingKeeps DEF BInv, TargetOK
  <2> QED BY <2>1, <2>2
<1> QED BY <1>3, <1>4, <1>5, <1>6, <1>7 DEF BInv

LEMMA CollectorBuilds ==
  ASSUME EntryTypeOK, WritingOK, BInv, DistinctNames, NEW u \in Units, StartUnit(u) \/ Collector(u)
  PROVE  BInv'
<1>1. pc = "cargo" /\ procs[u] # "idle" /\ UNCHANGED <<pc, at, staged>>
  BY CargoRuns DEF StartUnit, CanStart, Collector, CheckFile, CreateFile, WriteLine, Compile, disk
<1>2. procs \in [Units -> Busy \union {"idle", "waiting", "done", "failed"}]
  BY DEF EntryTypeOK
<1>3. u = Targets[at] => ~ IsDependency(u) /\ Public[u] \subseteq PubFuncs(u)
  BY DEF IsDependency, PubFuncs
<1>4. CASE StartUnit(u)
  <2>1. procs[u] = "waiting" /\ procs' = [procs EXCEPT ![u] = "check"] /\ UNCHANGED disk
    BY <1>4 DEF StartUnit, CanStart
  <2>2. u = Targets[at] => CrateName[u] \notin DOMAIN entries
    BY <1>1, <2>1 DEF BInv, TargetOK
  <2> QED BY <1>1, <1>2, <2>1, <2>2, UnitStep, SameDiskGrows DEF disk
<1>5. CASE CheckFile(u)
  <2>1. UNCHANGED disk
    BY <1>5 DEF CheckFile
  <2>2. u = Targets[at] => CrateName[u] \notin DOMAIN entries
    BY <1>1, <1>5 DEF CheckFile, BInv, TargetOK
  <2>3. CASE procs' = [procs EXCEPT ![u] = "compile"] /\ (PubFuncs(u) = {} \/ CrateName[u] \in DOMAIN entries)
    <3>1. u = Targets[at] => Collected(u)'
      BY <1>3, <2>1, <2>2, <2>3 DEF Collected
    <3> QED BY <1>1, <1>2, <2>1, <2>3, <3>1, UnitStep, SameDiskGrows DEF disk
  <2>4. CASE procs' = [procs EXCEPT ![u] = "create"] /\ CrateName[u] \notin DOMAIN entries
    BY <1>1, <1>2, <2>1, <2>4, UnitStep, SameDiskGrows DEF disk
  <2> QED BY <1>5, <2>3, <2>4 DEF CheckFile
<1>6. CASE CreateFile(u)
  <2>1. /\ CrateName[u] \notin DOMAIN entries
        /\ DOMAIN entries' = DOMAIN entries \union {CrateName[u]}
        /\ \A n \in DOMAIN entries : entries'[n] = entries[n]
        /\ procs' = [procs EXCEPT ![u] = "write"] /\ UNCHANGED built
    BY <1>6 DEF CreateFile, BInv, UnitsOK
  <2>2. Grows
    BY <1>1, <2>1 DEF Grows, Fresh, CodeOf
  <2>3. \A v \in Units \ {u} : CrateName[v] \in DOMAIN entries' <=> CrateName[v] \in DOMAIN entries
    BY <2>1 DEF DistinctNames
  <2> QED BY <1>1, <1>2, <2>1, <2>2, <2>3, UnitStep
<1>7. CASE WriteLine(u)
  <2>1. procs[u] = "write" /\ CrateName[u] \in DOMAIN entries /\ UNCHANGED built
    BY <1>7 DEF WriteLine, WritingOK
  <2>2. CASE LinesOf(u) \subseteq entries[CrateName[u]]
    <3>1. procs' = [procs EXCEPT ![u] = "compile"] /\ UNCHANGED disk
      BY <1>1, <1>7, <2>2 DEF WriteLine, disk
    <3>2. u = Targets[at] => Collected(u)
      BY <1>3, <2>1, <2>2 DEF Collected, LinesOf
    <3>3. u = Targets[at] => Collected(u)'
      BY <3>1, <3>2, SameDiskGrows
    <3> QED BY <1>1, <1>2, <3>1, <3>3, UnitStep, SameDiskGrows DEF disk
  <2>3. ASSUME NEW l, entries' = [entries EXCEPT ![CrateName[u]] = @ \union {l}], UNCHANGED procs
        PROVE  BInv'
    <3>1. /\ DOMAIN entries' = DOMAIN entries
          /\ \A n \in DOMAIN entries : entries[n] \subseteq entries'[n]
      BY <2>3
    <3>2. Grows
      BY <1>1, <2>1, <3>1 DEF Grows, Fresh, CodeOf
    <3> QED BY <1>1, <1>2, <2>1, <2>3, <3>1, <3>2, UnitStep
  <2> QED BY <1>7, <2>2, <2>3 DEF WriteLine
<1>8. CASE Compile(u)
  <2>1. procs[u] = "compile" /\ UNCHANGED entries
    BY <1>8 DEF Compile
  <2>2. CASE procs' = [procs EXCEPT ![u] = "failed"] /\ UNCHANGED built
    <3>1. Grows
      BY <1>1, <2>1, <2>2 DEF Grows, Fresh, CodeOf
    <3> QED BY <1>1, <1>2, <2>1, <2>2, <3>1, UnitStep
  <2>3. CASE /\ procs' = [procs EXCEPT ![u] = "done"]
             /\ built' = [v \in DOMAIN built \union {u} |-> IF v = u THEN CodeOf(u) ELSE built[v]]
    <3>1. CodeOf(u)' = CodeOf(u) /\ \A v : CodeOf(v)' = CodeOf(v)
      BY <1>1 DEF CodeOf
    <3>2. /\ DOMAIN built' = DOMAIN built \union {u} /\ built'[u] = CodeOf(u)
          /\ \A v \in DOMAIN built \ {u} : built'[v] = built[v]
      BY <2>3
    <3>3. Fresh(u)'
      BY <3>1, <3>2 DEF Fresh
    <3>4. Grows
      BY <1>1, <2>1, <3>1, <3>2, <3>3 DEF Grows, Fresh
    <3>5. u = Targets[at] => Collected(u)'
      BY <1>1, <2>1, <3>4, GrowingKeeps DEF BInv, TargetOK
    <3> QED BY <1>1, <1>2, <2>1, <2>3, <3>2, <3>3, <3>4, <3>5, UnitStep
  <2> QED BY <1>8, <2>2, <2>3 DEF Compile
<1> QED BY <1>4, <1>5, <1>6, <1>7, <1>8 DEF Collector

LEMMA NextBuilds ==
  ASSUME EntryIInv, BInv, DistinctNames, [EntryNext]_entryVars
  PROVE  BInv'
<1> USE DEF EntryIInv
<1>1. CASE Begin \/ Kill \/ Synced \/ \E c \in Children : SyncChild(c)
  <2>1. pc' \notin AfterClean /\ procs' = Idle
    BY <1>1 DEF Begin, Kill, Synced, SyncChild, AfterClean, EntryTypeOK
  <2> QED BY <2>1, BeforeClean
<1>2. CASE GenerateBitcode \/ Analyze \/ (\E c \in Children : Edit(c)) \/ UNCHANGED entryVars
  <2>1. /\ UNCHANGED <<disk, at, procs>>
        /\ \/ pc' = pc
           \/ pc = "next" /\ pc' = "analyze" /\ at = Len(Targets)
           \/ pc # "cargo" /\ pc' = "off"
    BY <1>2 DEF GenerateBitcode, Analyze, Edit, entryVars, disk
  <2> QED BY <2>1, OtherStep
<1>3. CASE CargoClean \/ CallCargo \/ CargoExit
  BY <1>3, CleanBuilds, CallBuilds, ExitBuilds
<1>4. CASE \E u \in Units : StartUnit(u) \/ Collector(u)
  BY <1>4, CollectorBuilds
<1> QED BY <1>1, <1>2, <1>3, <1>4 DEF EntryNext, RunStep

LEMMA BuildsFromStart == EntryInit => BInv
BY DEF EntryInit, BInv, EndedOK, UntouchedOK, CallOK, UnitsOK, TargetOK, AnalyzeOK, AfterClean, Idle

(* When crates have names of their own, the analyzer starts from a build   *)
(* of the staged code: of all targets, with all of their entry points, and *)
(* with no other one (cargo-ffi-checker.rs:170-195, callback.rs:131-149).  *)
THEOREM ThisBuild ==
  ASSUME DistinctNames
  PROVE  EntrySpec => []AnalysesThisBuild
<1>1. EntryIInv /\ BInv /\ [EntryNext]_entryVars => BInv'
  BY NextBuilds
<1>2. ASSUME EntryIInv, BInv PROVE AnalysesThisBuild
  <2>1. EntryTypeOK /\ EntriesAreCurrent
    BY <1>2 DEF EntryIInv, EntriesOK, AfterClean, Current, EntriesAreCurrent
  <2>2. ASSUME pc = "analyze", NEW t \in TopUnits
        PROVE  Fresh(t) /\ Collected(t)
    <3>1. PICK k \in DOMAIN Targets : t = Targets[k]
      BY DEF TopUnits
    <3>2. CallEnded(k)
      BY <1>2, <2>2, <3>1 DEF BInv, AnalyzeOK, CallEnded
    <3> QED BY <1>2, <2>2, <3>1, <3>2 DEF BInv, EndedOK, AfterClean
  <2>3. AllIsBuilt
    BY <2>2 DEF AllIsBuilt
  <2>4. TopEntriesCollected
    <3> SUFFICES ASSUME pc = "analyze", NEW t \in TopUnits, NEW f \in Public[t]
                 PROVE  \E n \in DOMAIN entries : \E l \in entries[n] :
                          l.kind = "Entry" /\ l.function = f /\ l.unit = t
      BY DEF TopEntriesCollected
    <3>1. CrateName[t] \in DOMAIN entries /\ Line("Entry", f, t) \in entries[CrateName[t]]
      BY <2>2 DEF Collected
    <3>2. Line("Entry", f, t).kind = "Entry" /\ Line("Entry", f, t).function = f
            /\ Line("Entry", f, t).unit = t
      BY DEF Line
    <3> QED BY <3>1, <3>2
  <2> QED BY <2>1, <2>3, <2>4 DEF AnalysesThisBuild
<1>3. EntrySpec => []BInv
  BY <1>1, BuildsFromStart, EntryInvariance, PTL DEF EntrySpec
<1> QED BY <1>2, <1>3, EntryInvariance, PTL
=============================================================================
