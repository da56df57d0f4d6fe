---------------------------- MODULE FFIBlock ----------------------------
(***************************************************************************)
(* FFIChecker's walk over the instructions of a basic block                *)
(* (src/tools/FFIChecker/src/analysis/block_visitor.rs) on two paths, and  *)
(* the join of the two where they meet.                                    *)
(***************************************************************************)
EXTENDS FFIDomain

Path == {"left", "right"}

VARIABLES
  state,      \* BlockVisitor.state on each path
  met,        \* the paths have met
  joined      \* state of the block where they meet

blockVars == <<state, met, joined>>

BlockTypeOK ==
  /\ state \in [Path -> BlockState]
  /\ met \in BOOLEAN
  /\ joined \in BlockState

BlockInit ==
  /\ state = [p \in Path |-> EmptyState]
  /\ met = FALSE
  /\ joined = EmptyState

(* An instruction of path p leaves one of the states in S behind.  The     *)
(* left path is analysed before the right one.                             *)
Becomes(p, S) ==
  /\ ~ met
  /\ p = "left" => state["right"] = EmptyState
  /\ \E s \in S : state' = [state EXCEPT ![p] = s]
  /\ UNCHANGED <<met, joined>>

-----------------------------------------------------------------------------
(* A known allocation, or an alloca of a Vec, a String or a CString.       *)
Source(p, v) == Becomes(p, SetTainted(state[p], v, "Tainted"))

(* load, store, casts, getelementptr, extracts, memcpy, deref, push.       *)
Flow(p, from, to) == Becomes(p, PropagateTaint(state[p], from, to))

(* insertvalue and insertelement.                                          *)
Insert(p, from, to) ==
  Becomes(p, UNION {SetTainted(state[p], to, m) : m \in MemoryStates(state[p], from)})

(* shufflevector.                                                          *)
Shuffle(p, x, y, to) ==
  Becomes(p, UNION {SetTainted(state[p], to, Union(m, n)) :
                      m \in MemoryStates(state[p], x), n \in MemoryStates(state[p], y)})

(* The intrinsics raise the state of their argument when it is below m,    *)
(* then the result is an alias of it.                                      *)
Raised(s, v, m) ==
  UNION {IF IsLess(n, m) THEN SetTainted(s, v, m) ELSE {s} : n \in MemoryStates(s, v)}

Lent(s, v, m, to) == UNION {PropagateTaint(r, v, to) : r \in Raised(s, v, m)}

(* CString::as_c_str, Vec::as_ptr.                                         *)
Borrow(p, v, to) == Becomes(p, Lent(state[p], v, "Borrowed", to))

(* Box::into_raw, CString::into_raw, mem::forget.                          *)
Forget(p, v, to) == Becomes(p, Lent(state[p], v, "Forgotten", to))

(* The same without a result: Vec::into_raw_parts, a forget in a void call. *)
ForgetInPlace(p, v) == Becomes(p, Raised(state[p], v, "Forgotten"))

(* Vec::from_raw_parts and its kin take a forgotten value back.            *)
Adopted(s, v) ==
  UNION {IF n = "Forgotten" THEN SetTainted(s, v, "Tainted") ELSE {s} : n \in MemoryStates(s, v)}

Adopt(p, v, to) ==
  Becomes(p, UNION {PropagateTaint(r, v, to) : r \in Adopted(state[p], v)})

(* A call of a function with a known body.  Its summary says what becomes  *)
(* of the result and then of the argument.                                 *)
Call(p, arg, end, dest, ret) ==
  Becomes(p, UNION {SetTainted(r, arg, end) : r \in SetTainted(state[p], dest, ret)})

(* phi.  The first tainted operand, from, gives its state to the result,   *)
(* and the result is made untainted afterwards in any case.                *)
PhiTakes(s, from, to) ==
  UNION {IF AtMost("Tainted", m) THEN SetTainted(s, to, m) ELSE {s} : m \in MemoryStates(s, from)}

PhiOf(s, from, to) == UNION {SetTainted(r, to, "Untainted") : r \in PhiTakes(s, from, to)}

Phi(p, from, to) == Becomes(p, PhiOf(state[p], from, to))

(* get_state_from_predecessors of the block where the paths meet.          *)
Meet ==
  /\ ~ met
  /\ met' = TRUE
  /\ joined' \in BlockUnion(state["left"], state["right"])
  /\ UNCHANGED state

BlockNext ==
  \/ \E p \in Path, v \in Name : Source(p, v)
  \/ \E p \in Path, from, to \in Name : Flow(p, from, to)
  \/ \E p \in Path, from, to \in Name : Insert(p, from, to)
  \/ \E p \in Path, x, y, to \in Name : Shuffle(p, x, y, to)
  \/ \E p \in Path, v, to \in Name : Borrow(p, v, to)
  \/ \E p \in Path, v, to \in Name : Forget(p, v, to)
  \/ \E p \in Path, v \in Name : ForgetInPlace(p, v)
  \/ \E p \in Path, v, to \in Name : Adopt(p, v, to)
  \/ \E p \in Path, arg, dest \in Name, end, ret \in MemoryState : Call(p, arg, end, dest, ret)
  \/ \E p \in Path, from, to \in Name : Phi(p, from, to)
  \/ Meet

BlockSpec == BlockInit /\ [][BlockNext]_blockVars

-----------------------------------------------------------------------------
(***************************************************************************)
(* Properties.                                                             *)
(***************************************************************************)
Disjoint(s) == \A a, b \in DOMAIN s : a # b => a \intersect b = {}
Together(s, u, v) == \E a \in DOMAIN s : {u, v} \subseteq a
Apart(s, u, v)    == \E a, b \in DOMAIN s : a # b /\ u \in a /\ v \in b

(* What state s says of the variables of e.                                *)
Heard(s, e) == UNION {Says(m) : m \in UNION {MemoryStates(s, v) : v \in e}}

(* On a path an allocation is what its comment says                        *)
(* (abstract_domain.rs:8): the variables of one piece of memory.  No       *)
(* variable is in two of them, whatever the instructions do, so what the   *)
(* code reads never depends on the order of a hash map.                    *)
OneAllocationPerVariable == \A p \in Path : Disjoint(state[p])

(* Where the paths meet nothing is lost: each variable is in an allocation *)
(* whose state is at least what either path says of the variable.          *)
JoinLosesNoState ==
  met => \A p \in Path, v \in Name : \A m \in MemoryStates(state[p], v) :
    \E n \in MemoryStates(joined, v) : AtMost(m, n)

(* Aliases of one path are aliases behind the join, unless the other path  *)
(* has the two variables in different allocations: then the walk may come  *)
(* to both of them through those, and the alias is lost.                   *)
JoinKeepsAliases ==
  met => \A p, q \in Path : p # q =>
    \A u, v \in Name :
      Together(state[p], u, v) /\ ~ Apart(state[q], u, v) => Together(joined, u, v)

(* The join puts allocations together only for a variable that is in both, *)
(* and says of an allocation only what a path says of one of its variables.*)
JoinInventsNothing ==
  met => \A e \in DOMAIN joined :
    /\ \E v \in e : \E l \in Held(state["left"], v), r \in Held(state["right"], v) : e = l \union r
    /\ Says(joined[e]) \subseteq Heard(state["left"], e) \union Heard(state["right"], e)

(* Where paths meet, what is known behind the join is what the paths know. *)
JoinIsFaithful ==
  /\ BlockTypeOK
  /\ JoinLosesNoState
  /\ JoinKeepsAliases
  /\ JoinInventsNothing
=============================================================================
