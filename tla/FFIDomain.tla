---------------------------- MODULE FFIDomain ----------------------------
(***************************************************************************)
(* The abstract domain of FFIChecker's taint analysis                      *)
(* (src/tools/FFIChecker/src/analysis/abstract_domain.rs): the memory      *)
(* state of one allocation, and the state of a basic block, which maps     *)
(* allocations to memory states.  An allocation is the set of the          *)
(* variables that stand for it.                                            *)
(*                                                                         *)
(* A block state is a hash map.  Where the code takes the first entry that *)
(* mentions a variable, or walks over the map, the definitions below yield *)
(* the set of the results over all orders of the entries.                  *)
(***************************************************************************)
EXTENDS Integers, SequencesExt

CONSTANTS
  NumNames,  \* variables of the function
  Dotted     \* variables whose name extends that of another one: <<long, short>>

ASSUME FFIDomainAssumption ==
  /\ NumNames \in Nat
  /\ Dotted \subseteq (1 .. NumNames) \X (1 .. NumNames)

Name == 1 .. NumNames

MemoryState == {"Untainted", "Tainted", "Borrowed", "Forgotten", "Unknown"}

(* MemoryState::partial_cmp, case by case.                                 *)
PartialCmp(a, b) ==
  CASE a = b           -> "Equal"
    [] a # b /\ a = "Untainted" -> "Less"
    [] a # b /\ a = "Tainted"   -> IF b = "Untainted" THEN "Greater" ELSE "Less"
    [] a # b /\ a = "Borrowed"  -> IF b \in {"Untainted", "Tainted"} THEN "Greater"
                                   ELSE IF b = "Forgotten" THEN "None" ELSE "Less"
    [] a # b /\ a = "Forgotten" -> IF b \in {"Untainted", "Tainted"} THEN "Greater"
                                   ELSE IF b = "Borrowed" THEN "None" ELSE "Less"
    [] OTHER           -> "Greater"

AtMost(a, b) == PartialCmp(a, b) \in {"Less", "Equal"}
IsLess(a, b)  == PartialCmp(a, b) = "Less"

(* MemoryState::union.                                                     *)
Union(a, b) ==
  IF AtMost(a, b) THEN b
  ELSE IF PartialCmp(a, b) \in {"Greater", "Equal"} THEN a
  ELSE "Unknown"

(* A memory state as the set of what it says of an allocation: that it is  *)
(* tracked, lent, given away.                                              *)
Says(m) ==
  CASE m = "Untainted" -> {}
    [] m = "Tainted"   -> {"tracked"}
    [] m = "Borrowed"  -> {"tracked", "lent"}
    [] m = "Forgotten" -> {"tracked", "given"}
    [] m = "Unknown"   -> {"tracked", "lent", "given"}

-----------------------------------------------------------------------------
(* Untainted is the default: it is never stored.                           *)
Allocation == (SUBSET Name) \ {{}}
BlockState == UNION {[A -> MemoryState \ {"Untainted"}] : A \in SUBSET Allocation}
EmptyState == [a \in {} |-> "Unknown"]

(* get_allocation: an entry that mentions v, or {} when there is none.     *)
Held(s, v) ==
  LET found == {a \in DOMAIN s : v \in a} IN IF found = {} THEN {{}} ELSE found

(* get_memory_state, for the entry that was found.                         *)
StateOf(s, a) == IF a = {} THEN "Untainted" ELSE s[a]

MemoryStates(s, v) == {StateOf(s, a) : a \in Held(s, v)}

Without(s, A) == [a \in DOMAIN s \ A |-> s[a]]
With(s, a, m) == [x \in DOMAIN s \union {a} |-> IF x = a THEN m ELSE s[x]]

(* The names a dotted name brings into its allocation.                     *)
WithPrefixes(v) == {v} \union {u \in Name : <<v, u>> \in Dotted}

(* set_tainted.                                                            *)
SetTainted(s, v, m) ==
  {IF m = "Untainted" THEN Without(s, {a})
   ELSE With(Without(s, {a}), a \union WithPrefixes(v), m) : a \in Held(s, v)}

MergedKeepsOld(s, fa, ta, to) == With(Without(s, {fa}), fa \union ta \union {to}, s[fa])

(* propagate_taint.  An untainted source takes `to` out of its allocation, *)
(* any other one merges the two allocations.                               *)
Detached(s, ta, to) ==
  IF ta \ {to} = {} THEN Without(s, {ta})
  ELSE With(Without(s, {ta}), ta \ {to}, s[ta])

Merged(s, fa, ta, to) == With(Without(s, {fa, ta}), fa \union ta \union {to}, s[fa])

PropagateTaint(s, from, to) ==
  {IF fa = {} THEN Detached(s, ta, to) ELSE Merged(s, fa, ta, to) :
     fa \in Held(s, from), ta \in Held(s, to)}

-----------------------------------------------------------------------------
(* Slip for UnionStep: variables are brought in without their aliases.     *)
UnionStepAlone(r, a, b, v) ==
  {IF ra # {}
   THEN With(r, ra, Union(Union(r[ra], StateOf(a, aa)), StateOf(b, ba)))
   ELSE With(r, {v}, Union(StateOf(a, aa), StateOf(b, ba))) :
     ra \in Held(r, v), aa \in Held(a, v), ba \in Held(b, v)}

(* BlockState::union.  It walks over the variables of both maps: one that  *)
(* is already in the result only raises the state of its allocation, any   *)
(* other one brings in the allocations it has on either side.              *)
UnionStep(r, a, b, v) ==
  {IF ra # {}
   THEN With(r, ra, Union(Union(r[ra], StateOf(a, aa)), StateOf(b, ba)))
   ELSE With(r, aa \union ba, Union(StateOf(a, aa), StateOf(b, ba))) :
     ra \in Held(r, v), aa \in Held(a, v), ba \in Held(b, v)}

(* The variables of a map, entry by entry; within an entry in their order. *)
Mentions(s) == {m \in (DOMAIN s) \X Name : m[2] \in m[1]}

EntryByEntry(q) ==
  \A i, j \in DOMAIN q : i < j /\ q[i][1] = q[j][1] =>
    q[i][2] < q[j][2] /\ \A k \in i .. j : q[k][1] = q[i][1]

MentionOrders(s) == {q \in SetToSeqs(Mentions(s)) : EntryByEntry(q)}

Walks(s) == {[i \in DOMAIN q |-> q[i][2]] : q \in MentionOrders(s)}

UnionAlong(a, b, walk) ==
  LET results[n \in 0 .. Len(walk)] ==
        IF n = 0 THEN {EmptyState}
        ELSE UNION {UnionStep(r, a, b, walk[n]) : r \in results[n - 1]}
  IN results[Len(walk)]

BlockUnion(a, b) ==
  UNION {UnionAlong(a, b, m[1] \o m[2]) : m \in Walks(a) \X Walks(b)}

(* BlockState::partial_cmp looks at the variables one by one; it does not  *)
(* see which of them share an allocation.                                  *)
BlockAtMost(s, t) ==
  \A v \in Name : \A m \in MemoryStates(s, v), n \in MemoryStates(t, v) : AtMost(m, n)
=============================================================================
