----------------------------- MODULE MCMirCalls -----------------------------
(***************************************************************************)
(* An entry point and two functions that may call each other, themselves   *)
(* and the entry point.                                                    *)
(***************************************************************************)
EXTENDS MirCalls

Does(what) == [do |-> what]
Dropped(i) == [do |-> "drop", of |-> i]
Calls(f)   == [do |-> "call", fn |-> f]

(* A box that is dropped, in a circle or not, an assertion, and visits that*)
(* may report something.                                                   *)
Boxed  == <<Does("alloc"), Dropped(1), Does("return")>>
Looped == <<Does("alloc"), Does("head"), Dropped(1), [do |-> "back", to |-> 2], Does("return")>>
Tests  == <<Does("assert"), Does("return")>>
Parts  == <<Does("return"), Does("assert"), Does("return")>>
Spins  == <<Does("head"), [do |-> "back", to |-> 1]>>

Warns(c)   == [do |-> "warn", cause |-> c]
Tainted    == <<Warns("Memory"), Does("return")>>
Panics     == <<Warns("Assembly"), Warns("Panic"), Does("return")>>

Between(f) == <<Does("alloc"), Calls(f), Dropped(1), Does("return")>>
Around(f)  == <<Does("head"), Calls(f), [do |-> "back", to |-> 1], Does("return")>>

Mains ==
  {<<Does("alloc"), Calls("f"), Calls(g), Dropped(1), Does("return")>> : g \in {"f", "g"}}
    \union {Around("f"), Between("g")}
Ones ==
  {Boxed, Looped, Spins, Panics}
    \union {Between(f) : f \in {"main", "f", "g", "ext"}} \union {Around("g")}
Twos == {Boxed, Tainted, Tests, Parts, Between("f"), Around("f"), <<Calls("main"), Does("assert"), Does("return")>>}

AllPrograms ==
  {[fn \in {"main", "f", "g"} |-> IF fn = "main" THEN m ELSE IF fn = "f" THEN one ELSE two] :
     m \in Mains, one \in Ones, two \in Twos}

AllOptions ==
  {[suppressed |-> {}, memory_safety_only |-> TRUE],
   [suppressed |-> {"Memory"}, memory_safety_only |-> FALSE]}
=============================================================================
