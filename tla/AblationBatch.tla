--------------------------- MODULE AblationBatch ---------------------------
(***************************************************************************)
(* The batch of src/scripts/run_ablation.py: every selected case is run    *)
(* with panic=unwind and with panic=abort, the outcome is classified, and  *)
(* the records, kept in memory until the end, are written to the raw,      *)
(* summary and metadata files.  The selection file is written first.       *)
(***************************************************************************)
EXTENDS Naturals, Sequences, FiniteSets, SequencesExt, Sums

CONSTANTS
  Case,
  ScenarioOf,  \* scenario of each case
  All,         \* the group of all scenarios ("ALL")
  Outcomes,    \* what a cargo run may come to (a subset of Outcome)
  MaxSelected, \* length of --case-ids (bound)
  MaxRuns,     \* invocations (bound)
  Absent       \* content of a file that was never written

Modes == <<"unwind", "abort">>
Mode  == {"unwind", "abort"}

ExitCode == {"0", "1", "101", "-1", "0xC0000005", "0xC0000374", "0xC0000409"}

(* A finished or timed-out command as the regular expressions see it: what *)
(* its output says, and whether cargo asked for a binary to be named.      *)
Outcome ==
  {o \in [timeout : BOOLEAN, exit : ExitCode, panic : BOOLEAN, memory : BOOLEAN,
          build : BOOLEAN, bin : {"not_asked", "unnamed", "named"}, output : BOOLEAN] :
     /\ o.timeout => o.exit = "-1"
     /\ o.bin # "not_asked" => ~ o.timeout /\ o.exit # "0"
     /\ o.panic \/ o.memory \/ o.build \/ o.bin # "not_asked" => o.output}

ASSUME AblationBatchAssumption ==
  /\ Outcomes \subseteq Outcome
  /\ IsFiniteSet(Case) /\ MaxSelected \in Nat /\ MaxRuns \in Nat
  /\ DOMAIN ScenarioOf = Case /\ \A c \in Case : ScenarioOf[c] # All

Kind == {"unsupported", "timeout", "build_failed", "access_violation",
         "heap_corruption", "memory_error", "panic_unwind", "panic_abort",
         "panic_caught", "success", "abort", "nonzero_exit"}

Record ==
  [case : Case, mode : Mode, supported : BOOLEAN, executed : BOOLEAN,
   success : BOOLEAN, triggered : BOOLEAN, kind : Kind, run : 1 .. MaxRuns]

VARIABLES
  host,      \* operating system: decides what a TimeoutExpired carries
  cargo,     \* find_cargo() found one
  supported, \* cases that classify_case() calls runnable
  run,       \* invocations so far
  selected,  \* cases of this invocation, in order
  todo,      \* (case, mode) pairs still to execute
  records,
  pc,
  selection, \* ablation_selection.json
  rawFile,   \* ablation_raw.csv and .json
  summary,   \* ablation_summary.csv and .json
  metadata,  \* ablation_run_metadata.json
  logs,      \* ablation_logs: pairs with a log file, and the run that wrote it
  cutOff     \* history: an invocation died while it published its results

vars == <<host, cargo, supported, run, selected, todo, records, pc, selection,
          rawFile, summary, metadata, logs, cutOff>>
environment == <<host, cargo, supported>>
results == <<rawFile, summary, metadata>>

-----------------------------------------------------------------------------
MemoryError(o) == o.memory \/ o.exit \in {"0xC0000005", "0xC0000374"}

(* Slip: a panic hides the memory error that caused it.                    *)
TerminationPanicFirst(o) ==
  CASE o.timeout -> "timeout"
    [] ~ o.timeout /\ o.panic -> IF o.exit = "101" THEN "panic_unwind" ELSE "panic_abort"
    [] ~ o.timeout /\ ~ o.panic /\ o.build -> "build_failed"
    [] ~ o.timeout /\ ~ o.panic /\ ~ o.build /\ MemoryError(o) -> "memory_error"
    [] OTHER ->
         IF o.exit = "0" THEN "success"
         ELSE IF o.exit = "0xC0000409" THEN "abort" ELSE "nonzero_exit"

(* classify_termination for a case that was executed.                      *)
Termination(o) ==
  CASE o.timeout -> "timeout"
    [] ~ o.timeout /\ o.build -> "build_failed"
    [] ~ o.timeout /\ ~ o.build /\ MemoryError(o) ->
         IF o.exit = "0xC0000005" THEN "access_violation"
         ELSE IF o.exit = "0xC0000374" THEN "heap_corruption" ELSE "memory_error"
    [] ~ o.timeout /\ ~ o.build /\ ~ MemoryError(o) /\ o.panic ->
         IF o.exit = "101" THEN "panic_unwind"
         ELSE IF o.exit # "0" THEN "panic_abort" ELSE "panic_caught"
    [] OTHER ->
         IF o.exit = "0" THEN "success"
         ELSE IF o.exit = "0xC0000409" THEN "abort" ELSE "nonzero_exit"

Triggered(o) ==
  ~ o.build /\ ~ o.timeout /\ (o.panic \/ MemoryError(o) \/ o.exit # "0")

NotExecuted(pair, isSupported) ==
  [case |-> pair[1], mode |-> pair[2], supported |-> isSupported, executed |-> FALSE,
   success |-> FALSE, triggered |-> FALSE, kind |-> "unsupported", run |-> run]

Executed(pair, o) ==
  [case |-> pair[1], mode |-> pair[2], supported |-> TRUE, executed |-> TRUE,
   success |-> ~ o.timeout /\ o.exit = "0", triggered |-> Triggered(o),
   kind |-> Termination(o), run |-> run]

(* A timeout that carries output does so as bytes on POSIX hosts, also for *)
(* a command run with text=True; joining it with text raises.              *)
Raises(o) == host = "posix" /\ o.timeout /\ o.output

(* cargo run is repeated once, with the binary that cargo named.           *)
AsksForBin(o) == ~ o.timeout /\ o.exit # "0" /\ o.bin = "named"

(* make_summary: one row of counts per group and panic strategy.           *)
Tally(rows, subset) ==
  [records   |-> Cardinality(subset),
   supported |-> Cardinality({i \in subset : rows[i].supported}),
   executed  |-> Cardinality({i \in subset : rows[i].executed}),
   success   |-> Cardinality({i \in subset : rows[i].success}),
   triggered |-> Cardinality({i \in subset : rows[i].triggered}),
   timeout   |-> Cardinality({i \in subset : rows[i].kind = "timeout"})]

Groups == {All} \union {ScenarioOf[c] : c \in Case}

MakeSummary(rows) ==
  LET members(g, m) == {i \in DOMAIN rows :
                          /\ rows[i].mode = m
                          /\ g = All \/ ScenarioOf[rows[i].case] = g}
  IN [row \in {gm \in Groups \X Mode : members(gm[1], gm[2]) # {}} |->
        Tally(rows, members(row[1], row[2]))]

-----------------------------------------------------------------------------
Init ==
  /\ host \in {"windows", "posix"}
  /\ cargo \in BOOLEAN
  /\ supported \in SUBSET Case
  /\ run = 0
  /\ selected = << >>
  /\ todo = << >>
  /\ records = << >>
  /\ pc = "idle"
  /\ selection = Absent
  /\ rawFile = Absent
  /\ summary = Absent
  /\ metadata = Absent
  /\ logs = [p \in Case \X Mode |-> 0]
  /\ cutOff = FALSE

(* main() with the cases chosen: write the selection file; --dry-run stops *)
(* there.                                                                  *)
Select(ids, dryRun) ==
  /\ pc = "idle"
  /\ run < MaxRuns
  /\ run' = run + 1
  /\ selection' = [run |-> run', cases |-> ids]
  /\ IF dryRun
     THEN /\ UNCHANGED <<selected, todo, pc>>
     ELSE /\ selected' = ids
          /\ todo' = [i \in 1 .. 2 * Len(ids) |->
                        <<ids[(i + 1) \div 2], Modes[2 - (i % 2)]>>]
          /\ pc' = "execute"
  /\ records' = << >>
  /\ UNCHANGED <<environment, results, logs, cutOff>>

(* The process ends and with it what it had in memory.                     *)
Exit ==
  /\ pc' = "idle"
  /\ selected' = << >>
  /\ todo' = << >>
  /\ records' = << >>

Keep(record) ==
  /\ records' = Append(records, record)
  /\ logs' = [logs EXCEPT ![Head(todo)] = run]
  /\ todo' = Tail(todo)
  /\ pc' = IF todo' = << >> THEN "raw" ELSE "execute"
  /\ UNCHANGED <<environment, run, selected, selection, results, cutOff>>

(* Slip: a case that cannot be run leaves no record.                       *)
SkipSilently ==
  /\ pc = "execute"
  /\ ~ (Head(todo)[1] \in supported /\ cargo)
  /\ todo' = Tail(todo)
  /\ pc' = IF todo' = << >> THEN "raw" ELSE "execute"
  /\ UNCHANGED <<environment, run, selected, records, selection, results, logs, cutOff>>

(* execute_case() of a case that cannot be run here.                       *)
SkipCase ==
  /\ pc = "execute"
  /\ ~ (Head(todo)[1] \in supported /\ cargo)
  /\ Keep(NotExecuted(Head(todo), FALSE))

(* execute_case(): the command ran, was repeated if cargo asked for it,    *)
(* and its last outcome is classified.                                     *)
ExecuteCase ==
  /\ pc = "execute"
  /\ Head(todo)[1] \in supported /\ cargo
  /\ \E first \in Outcomes :
       \E o \in IF AsksForBin(first) THEN Outcomes ELSE {first} :
         /\ ~ Raises(o)
         /\ Keep(Executed(Head(todo), o))

(* An exception leaves execute_case() and main(): nothing is published.    *)
Abort ==
  /\ pc = "execute"
  /\ Head(todo)[1] \in supported /\ cargo
  /\ \E first \in Outcomes :
       \E o \in IF AsksForBin(first) THEN Outcomes ELSE {first} : Raises(o)
  /\ pc' = "aborted"
  /\ UNCHANGED <<environment, run, selected, todo, records, selection, results, logs, cutOff>>

(* git_commit() lets a timeout of git through, before anything is written. *)
GitTimesOut ==
  /\ pc = "raw"
  /\ pc' = "aborted"
  /\ UNCHANGED <<environment, run, selected, todo, records, selection, results, logs, cutOff>>

Restart ==
  /\ pc = "aborted"
  /\ Exit
  /\ UNCHANGED <<environment, run, selection, results, logs, cutOff>>

WriteRaw ==
  /\ pc = "raw"
  /\ rawFile' = [run |-> run, rows |-> records]
  /\ pc' = "summary"
  /\ UNCHANGED <<environment, run, selected, todo, records, selection, summary, metadata,
                 logs, cutOff>>

WriteSummary ==
  /\ pc = "summary"
  /\ summary' = [run |-> run, rows |-> MakeSummary(records)]
  /\ pc' = "metadata"
  /\ UNCHANGED <<environment, run, selected, todo, records, selection, rawFile, metadata,
                 logs, cutOff>>

WriteMetadata ==
  /\ pc = "metadata"
  /\ metadata' = [run |-> run, records |-> Len(records),
                  triggered |-> Cardinality({i \in DOMAIN records : records[i].triggered})]
  /\ Exit
  /\ cutOff' = FALSE
  /\ UNCHANGED <<environment, run, selection, rawFile, summary, logs>>

(* The process is killed.                                                  *)
Crash ==
  /\ pc \in {"execute", "raw", "summary", "metadata"}
  /\ cutOff' = (cutOff \/ pc \in {"summary", "metadata"})
  /\ Exit
  /\ UNCHANGED <<environment, run, selection, results, logs>>

(* What an invocation does once its cases are chosen.                      *)
Batch ==
  \/ SkipCase \/ ExecuteCase \/ Abort \/ GitTimesOut \/ Restart
  \/ WriteRaw \/ WriteSummary \/ WriteMetadata
  \/ Crash

-----------------------------------------------------------------------------
Counts == [records : Nat, supported : Nat, executed : Nat, success : Nat,
           triggered : Nat, timeout : Nat]

TypeOK ==
  /\ run \in 0 .. MaxRuns
  /\ selected \in Seq(Case)
  /\ todo \in Seq(Case \X Mode)
  /\ records \in Seq(Record)
  /\ pc \in {"idle", "execute", "raw", "summary", "metadata", "aborted"}
  /\ rawFile # Absent => rawFile.rows \in Seq(Record)
  /\ summary # Absent => \E R \in SUBSET (Groups \X Mode) : summary.rows \in [R -> Counts]
  /\ logs \in [Case \X Mode -> 0 .. MaxRuns]

(* The two classifications of a run agree, whatever the next command comes *)
(* to: what counts as triggered is exactly what has a termination kind     *)
(* other than a clean exit, a failed build or a timeout.                   *)
TriggeredMatchesKind ==
  todo # << >> => \A o \in Outcome :
    LET record == Executed(Head(todo), o)
    IN record.triggered <=> record.kind \notin {"success", "build_failed", "timeout"}

(* What a batch publishes has one record for every selected case and panic *)
(* strategy, in the order of the selection file, each backed by a log of   *)
(* the same invocation; only a later invocation that published nothing     *)
(* leaves a selection file beside raw records of another one.              *)
RawIsComplete ==
  rawFile # Absent /\ rawFile.run = run =>
    LET ids == selection.cases
    IN /\ selection.run = run
       /\ [i \in DOMAIN rawFile.rows |-> <<rawFile.rows[i].case, rawFile.rows[i].mode>>] =
            [i \in 1 .. 2 * Len(ids) |-> <<ids[(i + 1) \div 2], Modes[2 - (i % 2)]>>]
       /\ \A i \in DOMAIN rawFile.rows :
            logs[<<rawFile.rows[i].case, rawFile.rows[i].mode>>] = run

(* The rows of a published summary add up: the scenarios partition the     *)
(* overall row of each strategy, and the summary is of the raw file beside *)
(* it unless an invocation died while it published.                        *)
SummaryAddsUp ==
  summary # Absent /\ pc \notin {"summary", "metadata"} /\ ~ cutOff =>
    /\ rawFile.run = summary.run /\ metadata.run = summary.run
    /\ \A m \in Mode :
         LET scenarios == SetToSeq({row \in DOMAIN summary.rows : row[2] = m /\ row[1] # All})
             all == summary.rows[<<All, m>>]
         IN /\ SeqSum([i \in DOMAIN scenarios |-> summary.rows[scenarios[i]].records]) =
                 all.records
            /\ SeqSum([i \in DOMAIN scenarios |-> summary.rows[scenarios[i]].triggered]) =
                 all.triggered
            /\ all.records = Cardinality({i \in DOMAIN rawFile.rows : rawFile.rows[i].mode = m})

(* What lies in the output directory fits together: a complete raw file    *)
(* with the logs behind it, and a summary that adds up to it.              *)
PublishedOK ==
  /\ TypeOK
  /\ RawIsComplete
  /\ SummaryAddsUp
=============================================================================
