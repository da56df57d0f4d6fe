# Verification of the Rust memory-safety tool chain

The repository measures how static analyzers find memory-safety bugs of Rust
programs under abnormal control flow. A Python harness runs three analyzers
(FFIChecker, Rudra and mirchecker) over a set of cases, and a second script runs
the cases themselves with `panic=unwind` and `panic=abort`. The conclusions
depend on the harness joining the right outputs and on the fixed-point
computations inside the analyzers; both are modelled here in TLA+, checked with
TLC on small instances, and proved with TLAPS where a proof is possible.

## 1. Inventory

Paths are relative to `src/`. The copies of the tools staged by the harness,
`testcases`, `latex`, the chapters, and stored results hold no logic of the system
and are left aside. Of the vendored library apron-sys the part that mirchecker
calls by default, intervals and boxes, is modelled.

| Component | Where | State | Operations | Hard | Correct when |
|---|---|---|---|---|---|
| Evaluation pipeline | `eval/run_experiment.py`, `full_run.py`, `pilot_run.py`, `normalize.py`, `metrics.py`, `report.py` | one results directory: raw files, run log, tables | run pairs, write log, normalize, aggregate, report | scripts in any order over artefacts of other runs, crash between and inside writes | a row stands for the output it names; a full run counts its own outputs |
| Case staging and runners | `eval/runners` | the staged copy of a case, its `target` | copy, run with timeout | copies survive between runs and stops of the machine | the tool sees the case as it is |
| Inventory and parsers | `eval/load_cases.py`, `config.py`, `parsers` | none | read CSV, match reports | wording of the tools | a finding is counted once |
| Panic ablation | `scripts/run_ablation.py` | selection, records in memory, published files, logs | allocate quotas, select, run twice, classify, publish | timeouts, unsupported hosts, abort in the middle | quotas fill the sample; published files are complete and agree |
| FFIChecker entry collection | `tools/FFIChecker/src/entry_collection`, `bin` | `target/entry_points`, bitcode files | one rustc process per crate writes, the analyzer reads | parallel processes, files of older builds | every entry point of this build is analysed |
| FFIChecker work list | `…/analysis/taint_analysis.rs` | list, state of each block, remembered joins | analyse a block, queue successors, give up | order of the list, self-loops, effects that lower states | it ends, with the least solution |
| FFIChecker block states | `…/analysis/abstract_domain.rs`, `block_visitor.rs` | allocations (sets of aliases) with a memory state, in hash maps | taint, flow, borrow, forget, adopt, summary, join | the order of the maps, merged and split aliases | one state per variable; a join loses no state and invents nothing |
| FFIChecker summaries | `…/analysis/summary.rs`, `block_visitor.rs` | cache shared by the crate, call stack | follow, cache, reuse, cut | recursion, the depth limit | a summary says what the callee does |
| Rudra unsafe dataflow | `tools/Rudra/src/graph.rs`, `analysis/unsafe_dataflow.rs` | sources, sinks, taint of blocks, work list | mark, propagate, collect, report | loops, joins, order of the list | taint is reachability |
| Rudra, other checkers | `analysis/send_sync_variance`, `unsafe_destructor.rs`, `Scc` in `graph.rs` | facts on types; none; component numbers | compare bounds; scan; order components | numbering, order | a report for each missing bound |
| Rudra reports, crawler | `report.rs`, `bin/cargo-rudra.rs`, `crawl/src` | buffered reports; cache directory and delay shared by threads | log, flush; download, unpack, analyse | exit without a flush, processes that outlive their parent, partial files, scheduling | what was reported is written; downloads keep their distance; a part of a file is not used |
| mirchecker iterator | `tools/mirchecker/src/analysis/wto.rs`, `mir_visitor/body_visitor.rs`, `numerical` | order, circles in progress, post conditions | order blocks, visit, widen, narrow | circles in circles, stale post conditions, switch conditions carried by states | it ends, and the post conditions cover every execution |
| mirchecker calls | `mir_visitor/call_visitor.rs`, `global_context.rs` | contexts, checked functions, dropped heaps | analyse a callee, take over its state | recursion, state kept across contexts and rounds | a call has the effect of its callee |
| mirchecker numerical values | `analysis/numerical` | a box and the numbering of paths by dimensions | assign, assume, rename, forget, join, widen, compare | two values number the same paths differently | no value a path can have is lost |
| mirchecker store and checkers | `memory`, `abstract_domain.rs`, `checker` | symbolic values of paths, buffer of diagnostics | update, join, check assertions, suppress, emit | two domains that must agree | a check is silent only if it holds |
| APRON intervals and boxes | `tools/mirchecker/apron-sys/apron` (`num`, `itv`, `box`, `apron`) | boxes of rational intervals | linearise, tighten, evaluate, meet, join, widen, change of dimensions | negated lower bounds, infinities, strictness, integers | a box keeps every point; an answer is right |

The harness calls the tools as processes and sees only their output, exit status
and timeouts. Inside FFIChecker, entry points go from the rustc processes to the
analyzer through files; the driver runs the work list for each entry point, the
work list runs the block visitor, and the block visitor calls back into a new
work list for each function it follows, with the cache shared by all. In Rudra the
marking feeds the propagation, which feeds a report buffer. In mirchecker the
iterator asks for the order once, drives the block visitor, and the block visitor
starts a new iterator for each call; all of them share the global context, and
their numerical values are boxes of APRON. Rudra's crawler runs `cargo rudra` in
each crate, which starts one process of Rudra for each target.

`PROJECT.json` lists the hazards of all of this at their lines, those that no
property covers included, with the reason. Left out of that list because one call
shows them, and a unit test would do: `analyze_phi` ends by making its result
untainted, `propagate_taint` gives a forgotten alias the weaker state of what flows
into it, and of two equally severe diagnoses of a function a hash set decides.
`Scc` of Rudra numbers components from 1 and indexes them from 0, but no checker
calls it.

## 2. Modules

| Module | Models | Run or proofs |
|---|---|---|
| `RudraTaint`, `MCRudraTaint` | marking, propagation, join at the sinks and report level for one body | `rudra_taint` |
| `RudraCampaign`, `MCRudraCampaign` | crawler, `cargo rudra` and Rudra's report buffer over several campaigns | `rudra_campaign` |
| `Rudra_proofs` | the invariants of `RudraTaint` for every body, those of `RudraCampaign` for any crates, threads and targets | proofs |
| `EvalPipeline`, `MCEvalPipeline` | the scripts over one results directory, with crashes | `eval_pipeline` |
| `EvalPipeline_proofs` | its invariants for any tools, cases and runs | proofs |
| `Sums` | the sum of a sequence | used by `AblationSampling` |
| `AblationSampling` | `allocate_strata`, as a loop | used by `Ablation` |
| `AblationBatch` | selection, execution, classification and publication of a batch | used by `Ablation` |
| `Ablation`, `MCAblation` | invocations of the script: both composed, with named cases and with a sample | `ablation` |
| `Ablation_proofs` | sampling and batches for any inventory | proofs |
| `FFIEntry`, `MCFFIEntry` | staging of a case, cargo, the entry collectors and the start of the analyzer | `ffi_entry` |
| `FFIFixpoint`, `MCFFIFixpoint` | the work list of one function | `ffi_fixpoint` |
| `FFIDomain` | memory states, allocations and their operations | used by `FFIBlock` |
| `FFIBlock` | the instructions, on two paths, and the join where these meet | `ffi_block` |
| `FFISummary`, `MCFFISummary` | calls, recursion, cache and depth limit | `ffi_summary` |
| `FFIChecker_proofs` | the invariants of `FFIEntry` for every case, of `FFIFixpoint` for every function, of `FFISummary` for any set of functions; memory states, alias sets and the join of `FFIBlock` | proofs |
| `MirWto` | the weak topological order (recursive, for TLC only) | used by `MCMirFixpoint` |
| `MirFixpoint`, `MCMirFixpoint` | the iterator over an order it is given as a constant | `mir_fixpoint` |
| `MirCalls`, `MCMirCalls` | analyses inside analyses, the global context, checks and reports | `mir_calls` |
| `MirAnalysis_proofs` | the invariants of `MirCalls` for every program, those of `MirFixpoint` for every function with a weak topological order | proofs |
| `ApronItv`, `ApronLinear` | bounds, intervals; tree and linear expressions and constraints | used by `ApronBox` |
| `ApronBox` | the operations of the box domain | used by `ApronBoxOps`, `MirNumeric` |
| `Collecting` | abstract: the points a numerical value must keep | refined by the two below |
| `ApronBoxOps`, `MCApronBox` | a client that calls the box domain in any order | `apron_box` |
| `ApronBox_proofs` | bounds are an ordered field with infinities; evaluation of expressions is sound; linear forms stay proper; every operation gives a proper box | lemmas |
| `ApronBoxOps_proofs` | the invariants of `ApronBoxOps` for any boxes and operations | proofs |
| `Bits` | bit operations of long integers | used by `MirNumeric` |
| `MirNumeric`, `MCMirNumeric` | the numerical domain of mirchecker over boxes | `mir_numeric` |
| `MirNumeric_proofs` | numbering, integer bounds, comparison and join of its values for any paths and operations | proofs |

A definition named after a function of the code stands for all of it, and
`PROJECT.json` gives its lines. Definitions introduced as a *slip* are not part
of the model: each is the form a plausible mistake would give the definition
after it, and is used to see that a property notices it.

### RudraTaint

`succ` and `term` are the body. `Mark` is one step of the loop over the
terminators, `Seed` fills the work list from the sources, `Pop` is one turn of
`propagate()`, `Drained` and `Collect` join what is at the sinks, `Report`
compares the rank with the sensitivity. The work list is a sequence: which
successors come first is open, since a graph may list them in any order.
`TaintIsEmpty` is written as the code has it: true of the *full* set.

### RudraCampaign

`phase` is where the crawler is, `at[i]` what a thread does for the index or a
crate. `since` is the time after the last request that was let through and `wait`
what a thread still has to sleep; the lock is held over the sleep. `tarball` and
`content` are the cache directory, which survives a campaign. An analysis is one
Rudra process for each target; after the timeout the process may live on as an
orphan, and writes its file of reports when its handle is dropped.

### EvalPipeline

Each file of the results directory is a variable. `plan` holds the stages the
current process still has to do; `full_run.py` and `pilot_run.py` are plans of
several stages, the other scripts of one. `RunPair` overwrites a raw file and
keeps the log row in memory, `WriteLog` publishes the rows, `Normalize` joins by
the name of the pair, `ComputeMetrics` keeps the last row of a pair. `Crash` ends
the process between steps, `CrashInWrite` inside one. `dirty` is a history
variable.

### AblationSampling, AblationBatch, Ablation

The sampling works on exact quotients and remainders. The batch has the host, the
presence of cargo and the supported cases as its environment; an outcome is what
the regular expressions of the script see in a command. The classification
(`Termination`, `Triggered`) is an operator on outcomes, and
`TriggeredMatchesKind` compares both for all of them. `Ablation` instantiates the
two: an invocation names its cases or has them drawn, and a drawn batch starts when
the quotas are allocated, with any cases that fill them (the shuffle). The text of
logs and the CSV layout are left out.

### FFIEntry

`staged`, `built` and `entries` are on disk and survive a run; contents are
version numbers, and what `built` and `entries` are defined for is what exists. The
units that a target needs (`Closure`) are the least set that holds it and what its
members depend on. `SyncChild` copies a child of the case (`_sync_path`),
`CargoClean` is the first command of the script, `CallCargo` starts cargo for the
next target. `StartUnit` is cargo's choice: a unit starts when those it depends on
are done. `CheckFile`, `CreateFile`, `WriteLine` and `Compile` are the collector in
the place of rustc: it looks for its file, opens it, writes a line at a time, and
compiles. `CargoExit` hands the exit status to `cargo-ffi-checker`. `Edit` and
`Kill` happen at any time.

### FFIFixpoint, FFIDomain, FFIBlock, FFISummary

The work list is modelled for abstract facts: the state of a block is a set,
joined by union, and a block is any function on sets. `FFIDomain` has the concrete
state: a function from disjoint or overlapping sets of variables to memory
states. Every look-up by iteration over a hash map returns *some* entry, so
operators return the set of possible results; the join walks over both maps
(`Walks`), entry by entry, in every order. `FFIBlock` runs any instructions on
two paths and joins them. `FFISummary` has a stack of analyses and one value that
is passed along; `Summary` is the reference, what a function does when the calls in
it are followed a number of levels deep and nothing is cached. The two abstractions meet in the theorem that the memory states
and their union are a join (`UnionIsLeastUpperBound`).

### MirWto, MirFixpoint

An order is flat: a sequence of blocks, where the head of a circle knows how many
of the following blocks belong to it. `active` is the stack of circles in
progress, which is the recursion of `visit_circle`. `VisitCircle`, `Grow`,
`Stabilise`, `Narrow` and `EndNarrowing` are the paths through its two loops. A
post condition is an interval of one integer together with the exit conditions,
which are kept per target block and travel with the state until two states are
merged, as in the code. Integers are `0 .. Large` and `Large` stands for everything
from there on. A switch on a value in the middle of an interval excludes nothing
from it (`Hull`); whether one at its end is excluded is up to APRON, and the model
takes the more precise answer. The nesting map of the order is not used by the
iterator and left out.

### MirCalls

`frames` is the stack of iterators. A body is its blocks in the order of their
visits, each known by what its end does. `Enter` starts the analysis of a callee in
the state of its caller, with a new offset for its names; `Leave` runs the checker
on it if it was not checked before, joins the states of its return blocks, and takes
the offset over. `dropped_heaps`, `checked_def_ids` and `diagnostics_for` are the
global context. A block that ends in "warn" stands for all else that reports while a
body is visited: `handle_panic`, `handle_index` and the conditions of intrinsics,
inline assembly, and a tainted variable that is dropped or returned; whether it
reports is open, since the numbers that decide it are left out, and so are the
iterators over promoted constants. `Skip` passes over a block whose
pre-condition is bottom, which for the same reason may be any but the first of the
entry point. `Panic` is either the compiler bug of a diagnostic that is destroyed and
was neither emitted nor cancelled, whatever reported it (`LeftOver`), or the join of
no return, because the callee has none or because none was visited. `Finish`
suppresses and emits.

### ApronItv, ApronLinear, ApronBox, ApronBoxOps

Bounds are exact rationals, as in the build that mirchecker uses, and lower bounds
are stored negated, as in the code. Tree expressions are sequences of nodes, so
that no operator has to be recursive over trees. `ApronBox` has the operations of
`ap_abstract0` over boxes: meet, join, widening, with and without thresholds,
assignment, constraints, projection, changes of dimensions, folding, rays.
`ApronBoxOps` calls them in any order on one box and a copy put aside. What the
library leaves to its client is said in `OpsAssumption`, about the arguments of the
operations, and in `Valid`, about the box they meet: dimensions fit, an integer
dimension is assigned a whole value, and no quotient is by a negative interval, on
which the library is wrong (section 4).

### Collecting, and what implements it

`Collecting` is the promise of a numerical domain: a value stands for a set of
points, and each operation keeps at least those that it can lead to. It knows
nothing of intervals. `ApronBoxOps` and `MirNumeric` each instantiate it with
`now <- Points(..)`, the integer points of the box, and the runs check the
property `Collects`, its specification, step by step.

### Bits, MirNumeric

A value is a box and `var_map`, which gives a path its dimension when it is first
mentioned. Join, widening, comparison and meet bring the dimensions and paths of
two values together first (`MergedBox`); forgetting a path removes its dimension and
numbers the others anew. The bit operations leave APRON and come back: they are
those of `interval.rs` on machine-independent integers.

## 3. What is checked

Every property has a mutant in `PROJECT.json` that breaks it. Several properties
are conjunctions of named parts; the parts are in the last column.

| Run | Instance | Shows |
|---|---|---|
| `rudra_taint` | all graphs of 3 blocks, 2 kinds of bypass, all placements | `TaintIsExact`: an edge over which taint must flow starts at a queued block, taint has a path, at the end taint is reachability (`NoFlowForgotten`, `NoFlowInvented`, `PropagationExact`). `ResultExact`: what is reported. `Terminates` |
| `rudra_campaign` | 2 crates of a library and a binary, 2 threads, delay 2, 3 campaigns, up to 1 report per process; failing downloads, crashes, hanging analyses | `PartialOnlyAfterCut`: a part of a file is only used after an earlier campaign failed on it. `ReportsAreKept`. `DownloadsAreSpaced`. `CampaignEnds` |
| `eval_pipeline` | 1 case, possibly named twice, 2 tools, 2 runs, any scripts and crashes | `LogMatchesOutput` (`TypeOK`, `LoggedPairsHaveOutput`, `MixedOnlyByCrash`). `FullRunCountsItsOutputs`. `Finishes` |
| `ablation` | 2 cases, 2 invocations; 4 strata of 0 to 7 cases, samples up to 12; all outcomes for the classification | `SampleIsFair` (`QuotasFillTheSample`, `EveryStratumServed`, `Proportional`). `PublishedOK` (`RawIsComplete`, `SummaryAddsUp`). `TriggeredMatchesKind` |
| `ffi_entry` | a library, 2 binaries and 2 crates, 2 runs, 2 edits; compile errors, stops of the machine | `StagedIsRecent`. `AnalysesThisBuild` (`EntriesAreCurrent`, `AllIsBuilt`, `TopEntriesCollected`). `RunsEnd` |
| `ffi_fixpoint` | connected graphs of 3 blocks, 2 facts, effects that are monotone and one that is not | `FixedPointReached`, `NothingInvented`, `StepsAreBounded`, `Terminates` |
| `ffi_block` | 3 variables, all instructions on 2 paths, all orders of the maps | `OneAllocationPerVariable`. `JoinIsFaithful` (`TypeOK`, `JoinLosesNoState`, `JoinKeepsAliases`, `JoinInventsNothing`) |
| `ffi_summary` | programs of 3 functions with up to one call each, depth limit 4 | `CallsOK` (`CallsTypeOK`, `SummariesExact`, `DepthIsBounded`). `CallsEnd` |
| `mir_fixpoint` | all reachable graphs of 4 blocks, all graphs of 3 with edges to the first, nested loops and matches in loops with all effects; integers 0 to 7 | `IterationOK` (`WalkTypeOK`, `OrderIsWeak`, `AlwaysAPredecessor`, `RoundsAreBounded`). `Sound`. `WalkEnds` |
| `mir_calls` | 252 programs of an entry point and 2 functions that call each other, themselves, the entry point and an unknown function, in and out of circles, with reports and with blocks that are not reached; `MaxRounds` 2, `MaxDepth` 5 | `OffsetsAreFresh`, `LateDropsAreReported`, `NothingLost`, `OneContextIsClean`, `AnalysisEnds` |
| `apron_box` | 2 calls on 38 boxes of 2 dimensions, integer or mixed; points -2 to 3 | `BoxOK` (`Canonical`, `RoundTrip`). `AnswersAreSound`. `Collects` (refinement). `WideningLosesABound` |
| `mir_numeric` | 2 calls on values over 3 paths in several numberings; points -1 to 3 | `LatticeOK` (`Numbered`, `LeqIsSound`, `JoinIsHull`). `Collects` (refinement). `OthersKept` |

Why the bounds are enough. Three blocks give chains, diamonds, loops, self-loops
and a source inside and outside a loop; two flags give the partial and the full
set, which the code treats differently. Two runs and a doubled case give all
pairs of old and new artefacts. Four strata are the number in the script; a sample
of 12 over strata of 7 has every rounding case. In `ffi_entry` an edit can fall
before, between and inside two runs, the two crates are compiled side by side, one
crate is needed by one target only, and a second run finds whatever the first one
left. In `rudra_campaign` three campaigns are needed for one that is cut, one
that fails on what was left, and one after it; with a delay of 2 a thread can come
too early, in time and late. In `ffi_fixpoint` `MaxIteration` is 22, above what a
monotone function of that size needs, so both exits of the loop occur. In
`ffi_summary` depth 4 is reached by recursion only. Four blocks have the irreducible
graphs and the circles inside circles; the templates add nested loops with a latch
each. The integers reach beyond what the delay allows to be joined, so the loop only
ends in time by widening. In `mir_calls` `MaxRounds` stands for the rounds that the
iterator of `MirFixpoint` is shown to bound, of which the second is the first to meet
what a round before it has dropped or entered, and depth 5 is more than three
functions and the second visit of the entry point can reach. Boxes have bounded,
half-bounded, point, full and empty sides; the two calls of `apron_box` and
`mir_numeric` are each one of every operation, so each operation meets the results
of each other one, rational bounds included. Three paths is the smallest number in
which the removal of one renumbers another and keeps a third.

Where the passing properties have a condition, the code really differs outside
it: `FixedPointReached` excludes a block that is its own successor, whose last
change the work list may swallow, and effects that are not monotone;
`OneAllocationPerVariable` is for `Dotted = {}`, names without a suffix, since
tainting `a.b` overlaps the allocation of `a`; `JoinKeepsAliases` is for aliases that
the other path does not have apart; `SummariesExact` is for programs
without recursion and with fewer functions than the limit; `Sound` is for functions whose switch conditions do not stray and
whose first block has no predecessor; `MixedOnlyByCrash` excludes runs cut off
before their log; `PartialOnlyAfterCut` leaves open what happens after a cut; `OneContextIsClean` is for
programs that call every function at one place, outside of circles (49 of the 252);
`NothingLost` is about runs that do not end in a panic; `AnalysesThisBuild` is for crates that
each have a name of their own (`DistinctNames` in the proofs).

What is assumed of cargo, which is external: units do not depend on each other in
circles and no target is listed after one that depends on it (`CargoAssumption`); it lists the library first, compiles a
unit after those it depends on, skips what is fresh, starts nothing after an error,
and waits for all that runs.

### Fairness

A sequential program that is not killed goes on, so `RudraTaint`, `FFIFixpoint`,
`FFISummary` and `MirFixpoint` have weak fairness of their next-state relation;
`MirCalls` has it for the visits, one of which is always possible until the analysis is
over, and not for the choice that a block is not reached: otherwise a call without end
would be passed over at the bound `MaxDepth` and count as ended. In `EvalPipeline` only the work of a started script is fair, in `FFIEntry`
only the steps of a run: starts, edits, crashes and stops of the machine are not.
`RudraCampaign` has threads and processes, hence weak fairness for each crate and
download, for the clock and for the main thread; the one-hour timeout of an
analysis is part of the step of its crate, so a hanging Rudra process needs none. A
thread that waits for the lock needs no strong fairness: each of the finitely many
requests takes it once. Nothing is strongly fair. Deadlock checking is off because
all of these programs stop when they are done.

## 4. Divergences seen while modelling

Each is what the code does, and the model does the same; the properties are stated
so that they hold beside it (section 3), and no run is spent on showing it again.

- `tools/Rudra/src/analysis/unsafe_dataflow.rs:367`: `is_empty` is written `is_all`,
  so a sink that all kinds of bypass reach is dropped from the report. `ResultExact`
  has the exception.
- `tools/FFIChecker/src/analysis/abstract_domain.rs:203`: the join of two block
  states may leave a variable in two allocations with different states, and is then
  not the least upper bound that line 181 announces: of {1, 2} forgotten on one path and
  {2, 3} borrowed on the other it may make {1, 2, 3} unknown, or {1, 2} forgotten first and
  what is read of 2 afterwards depends on the order of the map. It may also lose an
  alias: of {1, 2} and {3, 4} on one path and {2, 4} on the other it makes {1, 2} and
  {3, 4}, since 2 and 4 are in the result by the time they come up, and with the paths
  exchanged it keeps the alias. Three variables are too few for this, and
  `JoinKeepsAliases` once held there without its condition; the attempt to prove it for
  any number of them failed, and gave it the condition it has now.
- `tools/FFIChecker/src/entry_collection/callback.rs:138`: a library and a binary of
  the same name share a file of entry points, and only the one compiled first is in
  it, although "all the public functions and the main function" are collected
  (`bin/cargo-ffi-checker.rs:287`).
- `scripts/run_ablation.py:443`: on POSIX the error output of a timed-out command is
  bytes there, so the handler raises and the batch ends without publishing, although
  "unsupported or failed cases are logged and skipped without interrupting the
  remaining batch" (`scripts/README_ablation.md:77`). No property claims that it goes on;
  `PublishedOK` is checked over batches that end there, too.
- `tools/mirchecker/src/analysis/mir_visitor/block_visitor.rs:1228`: exit conditions
  that are overwritten (two patterns of one arm) or inherited (an if without else)
  make a reached block bottom, which stands for unreachable (`abstract_domain.rs:50`).
- `block_visitor.rs:1317` with `memory/constant_value.rs:391`: heap addresses start
  anew in every frame and dropped ones are kept for all, so a drop in a loop, or in
  two functions, is reported as a double free. `LateDropsAreReported` says exactly
  when.
- `mir_visitor/body_visitor.rs:166`: a function that was checked in one context is not
  checked in another one, and what the visits of that context reported, drops or
  anything else, is never cancelled, although "if not, the compiler will emit a bug
  when dropping them" (`body_visitor.rs:181`). `OneContextIsClean` says for which
  programs it cannot happen.
- `mir_visitor/call_visitor.rs:190`: "the join of all the basic blocks that contain a
  return terminator" (line 184) expects that one was visited, and panics for a callee
  that never returns or whose return has a bottom state in this context. No property
  excludes it, since the numbers that decide what is reached are not in `MirCalls`.
- `block_visitor.rs:2360`: the root that stands for a path while it is moved is
  replaced with an offset that it was not given.
- `numerical/apron_domain.rs:444`: a value whose paths were inserted out of order may
  not be included in itself, so that a fixed point is found later than it could be.
- `apron-sys/apron/itv/itv.c:521`: an interval with both signs is divided by a
  negative one without a change of sign; the result misses values, although an
  operation returns a correct approximation (`apron/rationale.texi:140`). The runs
  exclude such divisors by name (`Assignable` in `ApronBoxOps`, whose constraints
  have no quotients, and `DividesByPositive` in `MirNumeric`).
- `tools/Rudra/crawl/src/lib.rs:55`: the distance is kept between the moments at
  which downloads are let through, not between requests, since the lock is released
  before the request is sent. `lib.rs:202`: what failed to download is never
  downloaded again, and an error page is stored like a tarball; an index that was cut
  off makes every later campaign fail or miss crates (`lib.rs:145`).
  `PartialOnlyAfterCut` says from which campaign on.

## 5. What is proved

With TLAPS, for every value of the constants, from the named assumptions in
the modules, which TLC also evaluates: `NumBlocksAssumption`, `FlagAssumption`,
`EvalPipelineAssumption`, `AblationAssumption`, `AblationBatchAssumption`,
`FFIFixpointAssumption`, `FFISummaryAssumption`, `FFIDomainAssumption`,
`FFIEntryAssumption`, `CargoAssumption`, `MirCallsAssumption`,
`MirFixpointAssumption`, `RudraCampaignAssumption`, `MirNumericAssumption`,
`ApronBoxOpsAssumption`, and the `OpsAssumption` of `MirNumeric` and of `ApronBoxOps`.
`CargoAssumption` says what cargo is given, and the `OpsAssumption` of `ApronBoxOps`
what the library takes for granted of its arguments: expressions over the dimensions
they are said to use, permutations that are permutations, dimensions to remove that
are there. The others only say what kind of value a constant is and that sets are
finite.

**`Rudra_proofs`**, the taint of a body — for any number of blocks, any finite set of flags and any
queueing order: `TypeCorrect`, `Complete` (`NoFlowForgotten`), `Sound`
(`NoFlowInvented`), `Exact` (`PropagationExact`), `TaintExact` (`TaintIsExact`, all
three) and `ReportExact` (`ResultExact`). The inductive invariant adds to the
checked ones what each phase has established: the marks so far agree with the
terminators, the taint of sources is in place once they are seeded, and a block
whose taint has not yet reached a successor is in the list. The last part cannot be
left out: without it nothing relates an empty list to closed taint. `Reaches` is
the least closed set, so that exactness follows from an intersection and needs no
induction over paths.

**`EvalPipeline_proofs`** — for any tools, cases, runs and crashes: `TypeCorrect`;
`LogMatches` (`LogMatchesOutput`: a row of the log has its output, and rows and outputs
of different runs stand side by side only after a crash); `FullRunExact`
(`FullRunCountsItsOutputs`). The invariant speaks about what is still in memory: a
record is of this run, and so is the output of its pair (`RecordsOK`). `FullOK` says
what `full_run.py` has established at each of its stages: the rows, first in memory,
then in the log, then in the normalized table, are those of the pairs this run has
executed, and the last row of a pair is of the execution whose output was kept.

**`Ablation_proofs`** — `FairSample` (`SampleIsFair`): for any inventory and sample size
the quotas fill the sample, leave out no stratum of a sample that is large enough, and
stay proportional. The invariant says for each step how far the quotas are from the
exact shares: rounded down, then rounded with the rest given to the larger strata, then
at most one behind a smaller one while the empty ones are filled; that the sum stays the
sample rests on lemmas about sums of sequences, among them that the rest after rounding
down is less than the number of strata. `PublishedFitsTogether` (`PublishedOK`)
and `ClassificationsAgree` (`TriggeredMatchesKind`) are about batches: the records in memory and the pairs
still to do are together the selection, in order (`ProgressOK`), and which of the files
are of this invocation follows from the stage (`RawOK`, `SummaryOK`).

**`FFIChecker_proofs`**, the work list — for any graph, facts, effects and limit:
`TypeCorrect`; `Least` (`NothingInvented`: no block exceeds any solution, in any
order); `UpToDate` (`NoChangeMissed`); `Solved` (`FixedPointReached`); `Bounded`
(`StepsAreBounded`); `SmallFunctionsAreSolved`, a consequence: a function whose bound
is within the limit of iterations is never cut off. The invariant says that a result
is the effect of the join that is remembered, that the join is at most what the
predecessors hold now, and that a block that is not queued has seen all of it. It
needs monotone effects and no self-loops, which are the conditions of the
properties. For the bound every turn of the loop is paid for (`Paid`): by a block of the
initial list, or by an edge over which a larger state came, and a state grows at most
as many times as there are facts.

**`FFIChecker_proofs`**, the summaries — for any functions with straight bodies of
any length: `SummariesAreExact` (`CallsOK`) and `EveryAnalysisEndsExact`. First about
the reference: below the number of functions that a function leads to, one more level
changes nothing (`SettledByDepth`), so that at the limit the summaries solve their own
equations (`SummaryIsFixed`). Then the invariant: an analysis waits at the call of the
one above it, with the state that one was started with (`Chained`); every function on
the stack is one that those below it lead to (`AllLead`); the state of an analysis is
the one that the value has at that statement, and a cached value is the solution for
its key (`Correct`). Without recursion the functions on the stack and the one that is
called are all different, so that there are fewer of them than the limit
(`NotTooDeep`, by the pigeonhole principle) and no call is given up. None of the parts
can be left out: a summary is stored by the callee, and that it is the one the caller
asked for is only known from `Chained`.

**`FFIChecker_proofs`**, the instructions — `AllocationsStayApart` (`OneAllocationPerVariable`): for any
number of variables without dotted names no sequence of instructions puts one
variable into two allocations. The invariant adds that a block state is a function
from sets of names, without which removing or adding an entry says nothing about
the others; names without dots matter because tainting a dotted one adds its
prefixes to a set without looking for the entries these are in. `JoinFaithful`
(`JoinIsFaithful`): whatever order the hash maps have, the join of two such states
forgets no state, keeps the aliases that the other path does not have apart, and
invents nothing, by an induction along the walk over the entries. `OrderIsInclusion`
and `UnionIsUnion` show that memory states are sets of facts, `UnionIsLeastUpperBound`
that `union` is the join of their order.

**`FFIChecker_proofs`**, the entries — for any case, crates, runs and edits, wherever
runs stop: `EntryTypeCorrect`; `Recent` (`StagedIsRecent`); `CurrentEntries` (`EntriesAreCurrent`);
`ThisBuild` (`AnalysesThisBuild`, for crates with names of their own). The invariant:
versions only grow (`SourceOK`); a child that is no longer to be copied is as recent as
the run (`StagedOK`); after the cleaning every line of every file, also of one that is
being written, is of the staged code (`EntriesOK`, `WritingOK`), which holds since
cargo, and with it every collector, only runs after the copy. For `ThisBuild` also: a
unit that is done is built from the copy (`UnitsOK`), a target that is compiled is
collected (`TargetOK`), what no target so far needs has left nothing behind
(`UntouchedOK`), and once a call of cargo ends without an error its target is done
(`CallIsDone`): among the units that are not, one depends on none of the others, since
there are no circles, and cargo could start it.

**`MirAnalysis_proofs`**, the calls — for every program, option and bound: `TypeCorrect`;
`StackSimple` (no function but the entry point is analysed inside its own analysis);
`Fresh` (`OffsetsAreFresh`); `NothingIsLost` (`NothingLost`); `FirstKept` (reports of
the first complete analysis are never replaced); `LateDrops` (`LateDropsAreReported`);
`OneContextClean` (`OneContextIsClean`). The invariant: all names in a frame
are below its next offset (`FramesOK`), and a frame starts above what the frames
under it have handed out (`Ordered`), which is what makes a new offset new although
states are passed around as a whole; the call stack knows all functions under a
frame (`StackKnown`); what was said is stored or in the buffer of a frame (`Kept`).
A second invariant (`VInv`) follows the visits of drops: each visit of a frame is of an
earlier round or an earlier block than the frame is at (`Visits`), so no two visits are
one, and of those of one address exactly the first was not reported (`OneSilent`).
A third one (`OInv`) is about programs that call every function at one place, outside
of circles: the functions with a frame are all different and not checked, and a
function that was started was called at its place, which a frame is past, or waits at,
or is in a function that is checked (`Called`). The last part is what carries over
the calls that are long over: with it the function of a call that is about to be made
cannot have been started, so that no analysis ever finds its function checked. It
needs the circles to be without calls, or going back would undo that a place was passed.

**`MirAnalysis_proofs`**, the iterator — for any function, range of the integers, start
values, widening delay and number of narrowing rounds: `IterationHolds` (`IterationOK`)
and `WalkSoundness` (`Sound`). Both have one hypothesis, that the order is a weak
topological order when the walk begins (`OrderIsWeak`): what `Wto::new` computes is
recursive, and that its orders are such orders is what TLC checks in `mir_fixpoint`.
The invariant (`WalkInv`) has four parts. The active circles are exactly those around
the place that is visited (`Around`), so that an edge that leads back leads to the head of
one of them. Every place so far has a post condition, and that of a head is of the state
before it (`Known`). A circle that is not being narrowed has made fewer rounds than the
delay and the bounds it has given up account for (`Ranked`), which needs that it counts no
more rounds than `num_iter` does over all visits. And what the post conditions say
(`Flow`): each behind the current place allows for what every block says to it, except
over the edges back to active heads (`CoveredBehind`); the conditions a state carries are
of switches before its block (`Conditions`); and in a circle that is being narrowed all
edges are allowed for, back edges too, and no active circle inside it can grow
(`Narrowing`). The last part is what makes narrowing sound although the code does not
restore the post conditions of a round: analysing a block again with what it is told can
only shrink its post condition (`AnalysedAgain`), and what it said before was more
(`ShrinkKeeps`). Without the last clause of `Narrowing` an inner circle could be widened
again within a round of the outer one, and what was refined would be lost to the
invariant. At the end no circle is active, so the pairs of a block and a value that the
post conditions allow are closed under the steps of the function, and `Reachable` lies
within them (`ReachableWithin`, by the least element of a measure).

**`Rudra_proofs`**, the campaigns — for any crates, targets, threads, delay and
campaigns: `CampaignTypeCorrect`; `Spaced` (`DownloadsAreSpaced`); `OnlyAfterCut`
(`PartialOnlyAfterCut`); `Kept` (`ReportsAreKept`). The invariant: who sleeps has the
lock and sleeps long enough (`Sleeping`); which places items can be at in which
phase (`Phases`); a partial directory was being unpacked when a campaign failed on
it, and that campaign is over when it is used (`Cuts`); a target has one Rudra
process in a campaign, running, orphaned or ended (`OneProcess`), without which two
of them could write the same file.

**`MirNumeric_proofs`** — for any paths, any sequence of operations and any values to
start from that number their paths: `ValuesAreNumbered` (`Numbered`); `LatticeHolds`
(`LatticeOK`); `ArithmeticKeepsOthers` (`OthersKept`). The invariant is `Numbered` with
the paths known (`Good`): n paths have the numbers 0 to n - 1, and the box has exactly
these dimensions. It needs a lemma for each operation that renumbers: a new path takes
the next number; a removed one moves those above it down by one, in step with
`ap_abstract0_remove_dimensions`; and the two permutations of `merge_var_map` are
permutations, since the places that are left over on one side are as many as on the
other (`PlacesAreOneToOne`, `PlacementFollowsPaths`). What a value says of a path is then
the same before and after each of them, and comparison and join work path by path. A
comparison of two intervals says what it should when all their bounds are whole numbers
or infinite, as they should be for integer dimensions. That they stay so is the second
half of the invariant (`ProperValue`): the box of each value is a proper one in the sense
of `ApronBox_proofs`, and one lemma per operation shows that the operation keeps it. What
has to be shown for it is that the domain hands the library what it takes for granted: an
expression over dimensions the box has (`AssignIsProper`), conditions that become sums of
products of integers (`ToTexprIsSum`, `ToTconsIs`), permutations that are onto
(`MergedBoxIsProper`), and, since bit operations go through intervals outside the
library, ends of such an interval that are integers (`BitOpHasNumbers`). The hypothesis
of `LatticeHolds`, that the values to start from are proper, is met by every value made
with `Top`, `Bottom` and `Box` of intervals of integers, as in `MCMirNumeric`.
`ArithmeticKeepsOthers` leaves out bit operations; for these `OthersKept` is checked by
the run.

**`ApronBox_proofs`**, the arithmetic — lemmas on bounds, intervals and linear
forms, for any values. Bounds are fractions in lowest terms or infinite; they are
totally ordered, sums and products keep that order (with the sign that a lower bound is
stored under), and equal fractions are equal records. From this, evaluation is sound:
if every variable lies in its interval, each value the expression can have lies in the
interval that `EvalNodes` gives (`EvalIsSound`, for expressions without quotients). And
the ways a linear form is made, from tree expressions (`intlinearize`), by integer
reduction and by common factors, only make forms whose coefficients are proper intervals
other than zero, on the dimensions of the expression.

**`ApronBox_proofs`**, the operations — a box is proper (`GoodBox`) when every dimension
has an interval of proper bounds that is not empty, with whole bounds where the dimension
is integer, or when there is no array at all; every operation gives a proper box. There
is one lemma per operation. The long ones are those that walk over constraints:
`DeduceBounds` narrows one dimension after the other, and a step either leaves an
interval proper or finds that it is empty, which ends the walk with the NULL array.

**`ApronBoxOps_proofs`** — for boxes of any dimensions and any sequence of the operations
of `ApronBoxOps`, from any boxes that are proper: `BoxesStayCanonical` (`Canonical`),
`BoxesAreProper` (`BoxOK`, with `RoundTrip`), `BoxesAnswerSoundly` (`AnswersAreSound`) and
`WideningsEnd` (`WideningLosesABound`). The invariant is `GoodBox` of both boxes. For
`RoundTrip`, a constraint that a box gives out has one variable and the coefficient 1 or
-1; it is unchanged by reduction (`UnitReduces`), and what is deduced from it is that
bound and nothing else (`UnitDeduced`). Starting from the whole space, every bound is
then either infinite still or that of the box (`Between`), and once a constraint has
been seen its bound is there for good (`Tells`). `AnswersAreSound` is about points with
coordinates in `Window`, any set of integers. For `WideningsEnd` each bound is kept or
lost (`WideningKeepsOrLoses`), and the finite ones are counted.

The prover cannot use an induction theorem that takes an operator. Where the argument
is by induction over numbers (sums, the walk of a join, the steps of a body, the depth
of a summary), it is by the least element of a set instead (`WFMin` with
`NatLessThanWellFounded`).

Only model-checked: all liveness; `OrderIsWeak` for the orders of `MirWto`, which is
recursive and out of reach of the prover (this is why `MirFixpoint` receives the order
as a constant); `OthersKept` for bit operations of `MirNumeric`; the refinement of
`Collecting` by the two numerical modules.

## 6. Plan

Order of work so far: the propagation of Rudra first, as the smallest complete
fixed point; the harness, whose artefacts carry the results; FFIChecker from the
inside out (domain, block, work list, calls, entry collection with staging);
mirchecker's iterator, its calls and global context, and its numerical domain down
to the boxes of APRON; the campaigns of Rudra. What would follow:

1. Proofs: `OthersKept` of `MirNumeric` for bit operations, from exact values of what
   is deduced from the bounds of an interval; the steps of `Collects`, operation by operation, from
   the soundness of `EvalNodes`, and of the linear forms made from an expression.
2. `MirFixpoint` over the values of `MirNumeric` instead of intervals of one
   variable, and inside `MirCalls` instead of bounded rounds.
3. Polyhedra (`newpolka`) as a second implementation of `Collecting`.
4. A results directory that is replaced as a whole, as the abstract specification
   of `EvalPipeline` in runs without crash.

## 7. Not modelled

The parsers and the case inventory are text processing, which `EvalPipeline`
takes as a choice of outcome. `inspect_outputs.py` and `verify_runners.py` only
print. Name tables, diagnoses and report wording change no state. In Rudra the
unsafe destructor checker is one pass without state, the answers of the send/sync
variance checker are each one pass over what the compiler knows of a type, and
`Scc` is not called by any checker. The symbolic store of mirchecker holds
expressions under a simplifier of some fifty rewrite rules: without these a model
shows nothing, and with them it is longer than the code; the condition that decides
about an assertion is a question to a solver. Type visitors, option parsing and
drivers are glue to the compiler.

Most lines of C in the repository are the vendored APRON. Octagons are in it as stubs
only, their sources are missing; `newpolka` and its equalities are compiled but chosen
by an option that the harness does not set; `fppol`, `avoct`, `taylor1plus`,
`products`, `ppl` and the bindings for other languages are not compiled. They are
third-party code that the system does not reach. Of what it does reach,
substitution, generators, memory management and printing are left out of the box
domain, and floating-point bounds are not in the build.

Where the first block of a function is the head of a circle, the iterator takes the
states after the first round from its predecessors alone (`body_visitor.rs:980`);
`Sound` excludes these functions. `PROJECT.json` names everything component by
component.
