------------------------------ MODULE MirCalls ------------------------------
(***************************************************************************)
(* How mirchecker analyses a function and, inside it, every function it    *)
(* calls.  The analysis of a body is a frame (WtoFixPointIterator): the    *)
(* callee starts from the whole state of its caller, and what all frames   *)
(* share is the global context: which functions were checked, which heap   *)
(* blocks were dropped, and the diagnostics of each function.              *)
(*                                                                         *)
(* A body is the sequence of the blocks in the order of their visits.  A   *)
(* block is known by what its end does: "alloc" a box, "drop" the one of   *)
(* an earlier block, "call", "assert", "return", "warn" if the visit may   *)
(* report something, or the "head" and the "back" edge of a circle.  A     *)
(* state is abstracted to the names in it: a pair of the offset of a frame *)
(* and the block that assigned the name, 0 for the parameters.  Values     *)
(* that pass between frames and numbers are left out: any block may turn   *)
(* out to be unreachable, any warning may be due.  MirFixpoint is about    *)
(* the rounds of a circle, which are only bounded here.                    *)
(***************************************************************************)
EXTENDS Naturals, Sequences, FiniteSets

CONSTANTS
  Fn,        \* functions with a body (is_mir_available)
  External,  \* functions without one
  Entry,     \* the entry point
  Programs,  \* choices of the bodies
  Options,   \* what is suppressed, and memory_safety_only
  MaxRounds, \* bound on the rounds of a circle
  MaxDepth   \* bound on the frames

Cause == {"Bitwise", "Arithmetic", "Assembly", "Comparison", "DivZero", "Memory",
          "Panic", "Index", "Other"}

(* What the visit of a block may report, besides a second drop: a call of  *)
(* the panic code, an index, a condition, inline assembly, or a tainted    *)
(* variable that is dropped or returned (a "warn" before the "drop" or the *)
(* "return").                                                              *)
Warnings == {"Panic", "Index", "Other", "Assembly", "Memory"}

Block ==
  [do : {"alloc", "assert", "return", "head"}]
    \union [do : {"drop"}, of : Nat]    \* the block that made the box
    \union [do : {"back"}, to : Nat]    \* the head of the circle
    \union [do : {"call"}, fn : Fn \union External]
    \union [do : {"warn"}, cause : Warnings]

ASSUME MirCallsAssumption ==
  /\ Entry \in Fn
  /\ Fn \intersect External = {}
  /\ Programs \subseteq [Fn -> Seq(Block)]
  /\ \A p \in Programs, f \in Fn : \A i \in DOMAIN p[f] :
       p[f][i].do = "back" => p[f][i].to \in 0 .. (i - 1)
  /\ Options \subseteq [suppressed : SUBSET Cause, memory_safety_only : BOOLEAN]
  /\ MaxRounds \in Nat /\ MaxDepth \in Nat

VARIABLES
  program, \* the bodies
  options,
  phase,   \* "run", "done", or "bug": the compiler panics
  frames,  \* analyses under way, the entry point's first
  checked_def_ids, dropped_heaps, diagnostics_for,
  emitted, \* what the user sees
  said,    \* history: all reports
  drops    \* history: all visits of a drop with a known heap block

vars == <<program, options, phase, frames, checked_def_ids, dropped_heaps,
          diagnostics_for, emitted, said, drops>>
input   == <<program, options>>
context == <<checked_def_ids, dropped_heaps, diagnostics_for>>
history == <<said, drops>>

-----------------------------------------------------------------------------
(* WtoFixPointIterator::new, with the offset in units of                   *)
(* FRESH_VARIABLE_OFFSET.                                                  *)
New(fn, state, offset, call_stack) ==
  [fn |-> fn, pc |-> 1, state |-> state, before |-> {}, round |-> 1, post |-> << >>,
   heap_addresses |-> << >>, heap_address_counter |-> 0, buffered |-> {}, call_stack |-> call_stack,
   offset |-> offset, next |-> offset + 1]

Top    == frames[Len(frames)]
Lower  == SubSeq(frames, 1, Len(frames) - 1)
Body   == program[Top.fn]
AtEnd  == Top.pc = Len(Body) + 1
At(do) == phase = "run" /\ ~AtEnd /\ Body[Top.pc].do = do
Term   == Body[Top.pc]

Becomes(frame) == frames' = Append(Lower, frame)
Past(frame)    == [frame EXCEPT !.pc = @ + 1]

Init ==
  /\ program \in Programs
  /\ options \in Options
  /\ phase = "run"
  /\ frames = <<New(Entry, {}, 0, {})>>
  /\ checked_def_ids = {}
  /\ dropped_heaps = {}
  /\ diagnostics_for = << >>
  /\ emitted = {}
  /\ said = {}
  /\ drops = {}

(* get_new_heap_block: one address per location, numbered by the frame.    *)
Addressed(f) ==
  IF f.pc \in DOMAIN f.heap_addresses THEN f
  ELSE [f EXCEPT !.heap_addresses = [l \in DOMAIN @ \union {f.pc} |->
                                       IF l = f.pc THEN f.heap_address_counter ELSE @[l]],
                 !.heap_address_counter = @ + 1]

Alloc ==
  /\ At("alloc")
  /\ Becomes(Past([Addressed(Top) EXCEPT !.state = @ \union {<<Top.offset, Top.pc>>}]))
  /\ UNCHANGED <<input, phase, context, emitted, history>>

Report(cause, heap) ==
  [fn |-> Top.fn, offset |-> Top.offset, at |-> Top.pc, round |-> Top.round,
   cause |-> cause, heap |-> heap]

(* visit_drop: the heap block is found through the names in the state.     *)
RelatedHeap ==
  {Top.heap_addresses[l] : l \in {l \in DOMAIN Top.heap_addresses :
                                   l = Term.of /\ <<Top.offset, l>> \in Top.state}}

(* An address that was dropped before is reported, a new one put down.     *)
Late == RelatedHeap \intersect dropped_heaps

(* Slip: only an address that is reported is put down.                     *)
PutDownLate == dropped_heaps' = dropped_heaps \union Late

PutDown == dropped_heaps' = dropped_heaps \union RelatedHeap

Drop ==
  /\ At("drop")
  /\ Becomes(Past([Top EXCEPT !.buffered = @ \union {Report("Memory", a) : a \in Late}]))
  /\ PutDown
  /\ said' = said \union {Report("Memory", a) : a \in Late}
  /\ drops' = drops \union {Report("Memory", a) : a \in RelatedHeap}
  /\ UNCHANGED <<input, phase, checked_def_ids, diagnostics_for, emitted>>

(* handle_panic, handle_index, check_condition and visit_inline_asm; what  *)
(* they ask of the numbers is left out, so each may report.                *)
Warn ==
  /\ At("warn")
  /\ \E R \in SUBSET {Report(Term.cause, 0)} :
       /\ Becomes(Past([Top EXCEPT !.buffered = @ \union R]))
       /\ said' = said \union R
  /\ UNCHANGED <<input, phase, context, emitted, drops>>

(* A block that its numbers do not reach is not visited.  Its state counts *)
(* at the end if it is a return that an earlier round visited.  Only a     *)
(* callee may start from an unreachable state.                             *)
Skip ==
  /\ phase = "run" /\ ~AtEnd
  /\ Term.do \notin {"head", "back"}
  /\ Len(frames) > 1 \/ Top.pc > 1
  /\ Becomes(Past(IF Top.pc \in DOMAIN Top.post
                  THEN [Top EXCEPT !.post[Top.pc] = Top.state] ELSE Top))
  /\ UNCHANGED <<input, phase, context, emitted, history>>

(* visit_return; the condition of an assertion is only looked at when the  *)
(* body is checked.                                                        *)
Return ==
  /\ At("return")
  /\ Becomes(Past([Top EXCEPT
       !.post = [b \in DOMAIN @ \union {Top.pc} |-> IF b = Top.pc THEN Top.state ELSE @[b]]]))
  /\ UNCHANGED <<input, phase, context, emitted, history>>

Assert ==
  /\ At("assert")
  /\ Becomes(Past(Top))
  /\ UNCHANGED <<input, phase, context, emitted, history>>

(* A circle starts with the states before it, and every round with them    *)
(* and what the last round led to.                                         *)
CircleHead ==
  /\ At("head")
  /\ Becomes(Past([Top EXCEPT !.before = Top.state]))
  /\ UNCHANGED <<input, phase, context, emitted, history>>

Back ==
  /\ At("back")
  /\ \/ /\ Top.round < MaxRounds
        /\ Becomes([Top EXCEPT !.pc = Term.to + 1, !.round = @ + 1, !.state = @ \union Top.before])
     \/ Becomes(Past(Top))
  /\ UNCHANGED <<input, phase, context, emitted, history>>

-----------------------------------------------------------------------------
(* Slip: nobody looks at the call stack.                                   *)
CanEnterAgain(fn) == fn \in Fn

(* get_function_post_state and create_function_post_state: the callee is   *)
(* analysed in the state of this call; its parameters come on top.         *)
CanEnter(fn) == fn \in Fn \ Top.call_stack

Enter ==
  /\ At("call")
  /\ CanEnter(Term.fn)
  /\ Len(frames) < MaxDepth
  /\ frames' = Append(frames,
       New(Term.fn, Top.state \union {<<Top.next, 0>>}, Top.next, Top.call_stack \union {Term.fn}))
  /\ UNCHANGED <<input, phase, context, emitted, history>>

(* A recursive call has no post state: the caller goes on with the default *)
(* one, in which nothing is known.                                         *)
Cut ==
  /\ At("call")
  /\ Term.fn \in Fn /\ ~CanEnter(Term.fn)
  /\ Becomes(Past([Top EXCEPT !.state = {}]))
  /\ UNCHANGED <<input, phase, context, emitted, history>>

(* Without a body the state of the caller is the post state.               *)
CallExternal ==
  /\ At("call")
  /\ Term.fn \in External
  /\ Becomes(Past(Top))
  /\ UNCHANGED <<input, phase, context, emitted, history>>

(* The reports of the assertion checker: any of the assertions may fail.   *)
Asserts == {i \in DOMAIN Body : Body[i].do = "assert"}
Failed(S) ==
  {[fn |-> Top.fn, offset |-> Top.offset, at |-> i, round |-> 0,
    cause |-> "Arithmetic", heap |-> 0] : i \in S}

Store(reports) ==
  diagnostics_for' = [f \in DOMAIN diagnostics_for \union {Top.fn} |->
                        IF f = Top.fn THEN reports ELSE diagnostics_for[f]]

(* The assertions are checked, and what is buffered is stored with them.   *)
RunCheckerAlways(S) ==
  /\ checked_def_ids' = checked_def_ids \union {Top.fn}
  /\ Store(Top.buffered \union Failed(S))
  /\ said' = said \union Failed(S)

(* run_checker: the first analysis of a function that ends is kept.        *)
RunChecker(S) ==
  IF Top.fn \in checked_def_ids
  THEN S = {} /\ UNCHANGED <<checked_def_ids, diagnostics_for, said>>
  ELSE RunCheckerAlways(S)

(* Slip: all buffered diagnostics are cancelled.                           *)
LeftOverNone == {}

(* Slip: the diagnostics are copied and not cancelled.                     *)
LeftOverAlways == Top.buffered

(* A diagnostic that is neither emitted nor cancelled is a compiler bug    *)
(* when it is dropped; only the ones that were stored have been cancelled. *)
LeftOver == IF Top.fn \in checked_def_ids THEN Top.buffered ELSE {}

PostState == UNION {Top.post[b] : b \in DOMAIN Top.post}

(* Slip: the offset of the caller is not advanced.                         *)
ResumedAtOldOffset(caller) ==
  Past([caller EXCEPT !.state = PostState])

Resumed(caller) ==
  Past([caller EXCEPT !.state = PostState, !.next = Top.next])

(* The callee's body is analysed and checked; the caller goes on with the  *)
(* join of the states at the callee's returns.                             *)
Leave ==
  /\ phase = "run" /\ AtEnd /\ Len(frames) > 1
  /\ LeftOver = {} /\ DOMAIN Top.post # {}
  /\ \E S \in SUBSET Asserts : RunChecker(S)
  /\ frames' = Append(SubSeq(frames, 1, Len(frames) - 2), Resumed(frames[Len(frames) - 1]))
  /\ UNCHANGED <<input, phase, dropped_heaps, emitted, drops>>

(* fold1 of no state panics, when no return was visited, and so does the   *)
(* handler of a left-over report.                                          *)
Panic ==
  /\ phase = "run" /\ AtEnd
  /\ LeftOver # {} \/ (Len(frames) > 1 /\ DOMAIN Top.post = {})
  /\ \E S \in SUBSET Asserts : RunChecker(S)
  /\ phase' = "bug"
  /\ frames' = << >>
  /\ UNCHANGED <<input, dropped_heaps, emitted, drops>>

(* emit_diagnostics; inline assembly counts as a matter of memory safety.  *)
Wanted(r) ==
  /\ r.cause \notin options.suppressed
  /\ options.memory_safety_only => r.cause \in {"Memory", "Assembly"}

(* analyze_function: the entry point was analysed and checked.             *)
Finish ==
  /\ phase = "run" /\ AtEnd /\ Len(frames) = 1
  /\ LeftOver = {}
  /\ \E S \in SUBSET Asserts : RunChecker(S)
  /\ phase' = "done"
  /\ frames' = << >>
  /\ emitted' = {r \in UNION {diagnostics_for'[f] : f \in DOMAIN diagnostics_for'} : Wanted(r)}
  /\ UNCHANGED <<input, dropped_heaps, drops>>

Visit ==
  \/ Alloc \/ Drop \/ Warn \/ Return \/ Assert \/ CircleHead \/ Back
  \/ Enter \/ Cut \/ CallExternal \/ Leave \/ Panic \/ Finish

Next == Visit \/ Skip

(* The analyzer goes on with whatever block it is at.  Fairness is that of *)
(* the visits, so that a call at the bound MaxDepth is not passed over.    *)
Spec == Init /\ [][Next]_vars /\ WF_vars(Visit)

-----------------------------------------------------------------------------
Name  == Nat \X Nat
Reports ==
  [fn : Fn, offset : Nat, at : Nat, round : Nat, cause : Cause, heap : Nat]

FrameOK(f) ==
  /\ f.fn \in Fn
  /\ f.pc \in 1 .. Len(program[f.fn]) + 1
  /\ f.state \subseteq Name /\ f.before \subseteq Name
  /\ f.offset \in Nat /\ f.next \in Nat /\ f.offset < f.next
  /\ f.round \in Nat
  /\ f.heap_address_counter \in Nat
  /\ \A l \in DOMAIN f.heap_addresses : f.heap_addresses[l] \in Nat
  /\ f.call_stack \subseteq Fn
  /\ f.buffered \subseteq Reports
  /\ DOMAIN f.post \subseteq Nat /\ \A b \in DOMAIN f.post : f.post[b] \subseteq Name

TypeOK ==
  /\ program \in Programs /\ options \in Options
  /\ phase \in {"run", "done", "bug"}
  /\ phase = "run" <=> frames # << >>
  /\ \A i \in DOMAIN frames : FrameOK(frames[i])
  /\ checked_def_ids \subseteq Fn
  /\ DOMAIN diagnostics_for = checked_def_ids
  /\ \A f \in checked_def_ids : diagnostics_for[f] \subseteq Reports
  /\ dropped_heaps \subseteq Nat

(* No function is analysed inside its own analysis, except the entry       *)
(* point, once: nobody puts it on the call stack when the analysis starts. *)
StackIsSimple ==
  \A i, j \in DOMAIN frames : 1 < i /\ i < j => frames[i].fn # frames[j].fn

(* A callee starts with the whole state of its caller, in which there may  *)
(* be names of calls that were over long ago; none of them is taken for    *)
(* one of the callee's own.                                                *)
OffsetsAreFresh ==
  [][Len(frames') > Len(frames) =>
       \A n \in Top.state : n[1] # frames'[Len(frames')].offset]_vars

(* Of several analyses of a function the one that ended first counts: its  *)
(* reports are never replaced by those of another calling context.         *)
FirstReportKept ==
  [][\A f \in checked_def_ids :
       f \in DOMAIN diagnostics_for' /\ diagnostics_for'[f] = diagnostics_for[f]]_vars

OfDrop(r) == program[r.fn][r.at].do = "drop"

(* Of the visits of drops of one heap address all but the first are        *)
(* reported, whichever frame or round they are in, and no others           *)
(* (visit_drop, dropped_heaps).                                            *)
LateDropsAreReported ==
  \A a \in {d.heap : d \in drops} :
    Cardinality({d \in drops : d.heap = a})
      = 1 + Cardinality({r \in said : OfDrop(r) /\ r.heap = a})

(* When the checker comes to an end nothing it said has been lost, also    *)
(* not what was found in a calling context that is not checked again.      *)
NothingLost ==
  phase = "done" => emitted = {r \in said : Wanted(r)}

(* The places where a function with a body is called, and the ones among   *)
(* them that a circle comes back to.                                       *)
Sites(p) ==
  {s \in UNION {{f} \X DOMAIN p[f] : f \in Fn} :
     p[s[1]][s[2]].do = "call" /\ p[s[1]][s[2]].fn \in Fn}

Callee(p, s) == p[s[1]][s[2]].fn

Repeated(p, s) ==
  \E j \in DOMAIN p[s[1]] : p[s[1]][j].do = "back" /\ s[2] \in p[s[1]][j].to + 1 .. j

OneContext(p) ==
  /\ \A s \in Sites(p) : Callee(p, s) # Entry /\ ~Repeated(p, s)
  /\ \A s, t \in Sites(p) : Callee(p, s) = Callee(p, t) => s = t

(* In a program that calls every function at one place, outside of circles,*)
(* and the entry point nowhere, the compiler never finds a diagnostic that *)
(* was left uncancelled, whatever is reported where (run_checker).         *)
OneContextIsClean ==
  OneContext(program) /\ phase = "run" /\ AtEnd => LeftOver = {}

(* The analysis ends for every program, however its functions call each    *)
(* other.                                                                  *)
AnalysisEnds == <>(phase # "run")
=============================================================================
