---------------------------- MODULE FFISummary ----------------------------
(***************************************************************************)
(* FFIChecker across functions: the entry points, the summaries of the     *)
(* functions they call and the cache that keeps them                       *)
(* (src/tools/FFIChecker/src/analysis/taint_analysis.rs, StaticAnalysis    *)
(* and FuncAnalysis; block_visitor.rs, analyze_normal_function and         *)
(* get_function_summary; summary.rs).                                      *)
(*                                                                         *)
(* A call is followed into the callee with the state of its argument, at   *)
(* most MaxDepth - 1 functions deep; beyond that a call is taken to do     *)
(* nothing.  The result is cached for the callee and that state, and the   *)
(* cache lives as long as the analysis of the whole crate.                 *)
(*                                                                         *)
(* A function is a straight line of statements about one value, which it   *)
(* receives from its caller and passes on; what branches and loops add is  *)
(* in FFIFixpoint.                                                         *)
(***************************************************************************)
EXTENDS Naturals, Sequences, FiniteSets

CONSTANTS
  Fn,        \* functions whose bitcode is known
  Body,      \* bodies a function can have: sequences of statements, where a
             \* function stands for the call of it
  MaxDepth,  \* MAX_DEPTH, 20 in the code
  NotCached

Level == {"Tainted", "Borrowed", "Forgotten"}
Key == Fn \X Level

(* What a statement that is not a call may do to the value.                *)
Change == {"borrow", "forget", "adopt"}

ASSUME FFISummaryAssumption ==
  /\ MaxDepth \in Nat \ {0, 1}
  /\ IsFiniteSet(Fn) /\ Body \subseteq Seq(Fn \union Change)
  /\ NotCached \notin Level

VARIABLES
  body,     \* the program
  waiting,  \* entry points that were not analysed yet
  stack,    \* analyses in progress, the innermost last: function, state it
            \* was started with, current state, next statement
  cache     \* GlobalContext.summary_cache

callsVars == <<body, waiting, stack, cache>>

Frame == [fn : Fn, init : Level, now : Level, at : Nat \ {0}]

CallsTypeOK ==
  /\ body \in [Fn -> Body]
  /\ waiting \in SUBSET Fn
  /\ stack \in Seq(Frame)
  /\ cache \in [Key -> {NotCached} \union Level]

(* Lending the value and giving it away raise a lower state; neither is    *)
(* above the other.                                                        *)
Effect(stmt, m) ==
  CASE stmt = "borrow" -> IF m = "Tainted" THEN "Borrowed" ELSE m
    [] stmt = "forget" -> IF m = "Tainted" THEN "Forgotten" ELSE m
    [] stmt = "adopt"  -> IF m = "Forgotten" THEN "Tainted" ELSE m

Top == stack[Len(stack)]
Below == SubSeq(stack, 1, Len(stack) - 1)

Enter(f, m) == [fn |-> f, init |-> m, now |-> m, at |-> 1]
Advance(frame, m) == [frame EXCEPT !.now = m, !.at = @ + 1]
Ended(frame) == frame.at > Len(body[frame.fn])
Statement(frame) == body[frame.fn][frame.at]

-----------------------------------------------------------------------------
CallsInit ==
  /\ body \in [Fn -> Body]
  /\ waiting \in SUBSET Fn
  /\ stack = << >>
  /\ cache = [k \in Key |-> NotCached]

(* StaticAnalysis::run takes the entry points as the hash map of functions *)
(* yields them.  The value is one the entry function allocates.            *)
StartEntry(f) ==
  /\ stack = << >>
  /\ f \in waiting
  /\ waiting' = waiting \ {f}
  /\ stack' = <<Enter(f, "Tainted")>>
  /\ UNCHANGED <<body, cache>>

Running == stack # << >> /\ ~ Ended(Top)

Step ==
  /\ Running
  /\ Statement(Top) \notin Fn
  /\ stack' = Append(Below, Advance(Top, Effect(Statement(Top), Top.now)))
  /\ UNCHANGED <<body, waiting, cache>>

Cached == cache[<<Statement(Top), Top.now>>]

UseSummary ==
  /\ Running
  /\ Statement(Top) \in Fn
  /\ Cached # NotCached
  /\ stack' = Append(Below, Advance(Top, Cached))
  /\ UNCHANGED <<body, waiting, cache>>

(* new_with_init refuses the depth of the callee.                          *)
TooDeep == Len(stack) + 1 >= MaxDepth

GiveUp ==
  /\ Running
  /\ Statement(Top) \in Fn
  /\ Cached = NotCached
  /\ TooDeep
  /\ stack' = Append(Below, Advance(Top, Top.now))
  /\ UNCHANGED <<body, waiting, cache>>

Follow ==
  /\ Running
  /\ Statement(Top) \in Fn
  /\ Cached = NotCached
  /\ ~ TooDeep
  /\ stack' = Append(stack, Enter(Statement(Top), Top.now))
  /\ UNCHANGED <<body, waiting, cache>>

(* Slips: the summary is stored for the function whatever its argument,    *)
(* and the caller goes back to its call.                                   *)
FinishCallForAll ==
  /\ Len(stack) > 1
  /\ Ended(Top)
  /\ cache' = [k \in Key |-> IF k[1] = Top.fn THEN Top.now ELSE cache[k]]
  /\ stack' = [Below EXCEPT ![Len(stack) - 1] = Advance(@, Top.now)]
  /\ UNCHANGED <<body, waiting>>

FinishCallAgain ==
  /\ Len(stack) > 1
  /\ Ended(Top)
  /\ stack' = [Below EXCEPT ![Len(stack) - 1].now = Top.now]
  /\ UNCHANGED <<body, waiting, cache>>

(* The summary is stored, the caller takes the state of its argument over. *)
FinishCall ==
  /\ Len(stack) > 1
  /\ Ended(Top)
  /\ cache' = [cache EXCEPT ![<<Top.fn, Top.init>>] = Top.now]
  /\ stack' = [Below EXCEPT ![Len(stack) - 1] = Advance(@, Top.now)]
  /\ UNCHANGED <<body, waiting>>

(* The analysis of an entry point leaves no summary of it behind.          *)
FinishEntry ==
  /\ Len(stack) = 1
  /\ Ended(Top)
  /\ stack' = << >>
  /\ UNCHANGED <<body, waiting, cache>>

CallsNext ==
  \/ \E f \in Fn : StartEntry(f)
  \/ Step \/ UseSummary \/ GiveUp \/ Follow
  \/ FinishCall \/ FinishEntry

CallsSpec == CallsInit /\ [][CallsNext]_callsVars /\ WF_callsVars(CallsNext)

-----------------------------------------------------------------------------
(***************************************************************************)
(* Properties.                                                             *)
(***************************************************************************)
(* What a statement does to the value when calls do what callee says, and  *)
(* the states that the value goes through in a body.                       *)
Does(stmt, m, callee) ==
  IF stmt \in Fn THEN callee[<<stmt, m>>] ELSE Effect(stmt, m)

After(k, callee) ==
  LET after[i \in 0 .. Len(body[k[1]])] ==
        IF i = 0 THEN k[2] ELSE Does(body[k[1]][i], after[i - 1], callee)
  IN after

EffectsWith(callee) == [k \in Key |-> After(k, callee)[Len(body[k[1]])]]

(* What analysing a function does to a value when d more functions may be  *)
(* entered below it, without a cache.                                      *)
NoEffect == [k \in Key |-> k[2]]

Summary[d \in 0 .. MaxDepth] == EffectsWith(IF d = 0 THEN NoEffect ELSE Summary[d - 1])

Calls(f) == {g \in Fn : \E i \in DOMAIN body[f] : body[f][i] = g}
CallClosed(S) == \A f \in S : Calls(f) \subseteq S

(* No function can come back to itself.                                    *)
Acyclic ==
  \A f \in Fn : \E S \in SUBSET Fn : CallClosed(S) /\ Calls(f) \subseteq S /\ f \notin S

(* In a program without recursion, with fewer functions than the limit, a  *)
(* cached summary is what the function does, whatever the order of the     *)
(* entry points and wherever the function was first called.                *)
SummariesExact ==
  Acyclic /\ Cardinality(Fn) < MaxDepth =>
    \A k \in Key : cache[k] # NotCached => cache[k] = Summary[MaxDepth][k]

(* The analyses that wait for each other never exceed the limit, recursion *)
(* included.                                                               *)
DepthIsBounded == Len(stack) < MaxDepth

(* Calls are analysed within the limit and their summaries are exact: a    *)
(* summary that is used again is the one a new analysis would give.        *)
CallsOK ==
  /\ CallsTypeOK
  /\ SummariesExact
  /\ DepthIsBounded

(* The analysis of a crate ends, recursion included.                       *)
CallsEnd == <>[](stack = << >> /\ waiting = {})
=============================================================================
