--------------------------- MODULE EvalPipeline ---------------------------
(***************************************************************************)
(* The evaluation harness: src/eval/run_experiment.py, full_run.py,        *)
(* pilot_run.py, normalize.py, metrics.py and report.py.                   *)
(*                                                                         *)
(* The scripts share one results directory.  A run writes one raw file per *)
(* (case, tool) pair, overwriting the file of an earlier run, and only     *)
(* after the last pair the log that names the pairs.  normalize.py joins   *)
(* log and raw files by name, metrics.py counts the joined rows, report.py *)
(* counts them again.  full_run.py and pilot_run.py do all of it in one    *)
(* process.  A process may die at any point, also inside a write, which    *)
(* leaves an empty file.                                                   *)
(***************************************************************************)
EXTENDS Naturals, Sequences, FiniteSets, SequencesExt

CONSTANTS
  Case,        \* load_cases()
  Tool,        \* TOOL_SPECS
  Outcomes,    \* what running a pair can end in: status and detection
  MaxSelected, \* length of the --cases list (bound)
  MaxRuns,     \* invocations that run tools (bound)
  Absent       \* content of a file that was never written

Pair    == Case \X Tool
Status  == {"success", "error", "timeout"}
RawFile == [run : 1 .. MaxRuns, status : Status, detected : BOOLEAN]

ASSUME EvalPipelineAssumption ==
  /\ Outcomes \subseteq [status : Status, detected : BOOLEAN]
  /\ MaxSelected \in Nat /\ MaxRuns \in Nat
  /\ IsFiniteSet(Tool)
  /\ Absent \notin RawFile

(* --cases may name a case twice, --tools drops repetitions.               *)
CaseLists == UNION {[1 .. n -> Case] : n \in 1 .. MaxSelected}
ToolLists == {s \in UNION {[1 .. n -> Tool] : n \in 1 .. Cardinality(Tool)} :
                IsInjective(s)}

(* The nested loops over cases and tools.                                  *)
Combinations(cases, tools) ==
  [i \in 1 .. Len(cases) * Len(tools) |->
     <<cases[1 + ((i - 1) \div Len(tools))], tools[1 + ((i - 1) % Len(tools))]>>]

VARIABLES
  cmd,        \* script that ran last or is running
  plan,       \* its stages that are still to be done
  run,        \* number of runs started so far
  todo,       \* pairs the run still has to execute
  records,    \* rows the run keeps in memory for the log
  raw,        \* results/raw/<tool>_<case>.txt
  log,        \* results/run_log.csv
  normalized, \* results/normalized.csv
  summary,    \* results/metrics_summary.json
  report,     \* results/report_table.csv and report_summary.md
  dirty       \* history: raw files were written after the log was

vars == <<cmd, plan, run, todo, records, raw, log, normalized, summary, report, dirty>>
memory == <<todo, records>>

LogRow  == [pair : Pair, status : Status, run : 1 .. MaxRuns]
NormRow == [pair : Pair, status : Status, detected : BOOLEAN, run : 1 .. MaxRuns]
Counts  == [success : Nat, detected : Nat, observed : Nat]

Commands ==
  [full       |-> <<"run", "log", "normalize", "metrics", "report">>,
   experiment |-> <<"run", "log">>,
   dry_run    |-> <<"log">>,
   normalize  |-> <<"normalize">>,
   metrics    |-> <<"metrics">>,
   report     |-> <<"report">>]

TypeOK ==
  /\ cmd \in DOMAIN Commands \union {"none"}
  /\ plan \in UNION {Suffixes(Commands[c]) : c \in DOMAIN Commands}
  /\ run \in 0 .. MaxRuns
  /\ todo \in Seq(Pair)
  /\ records \in Seq(LogRow)
  /\ raw \in [Pair -> RawFile \union {Absent}]
  /\ log = Absent \/ log \in Seq(LogRow)
  /\ normalized = Absent \/ normalized \in Seq(NormRow)
  /\ \A f \in {summary, report} : f = Absent \/ \E T \in SUBSET Tool : f \in [T -> Counts]
  /\ dirty \in BOOLEAN

-----------------------------------------------------------------------------
(* normalize.py: one row of the log joined with the raw file of its name.  *)
JoinedRow(row) ==
  LET file == raw[row.pair]
  IN [pair     |-> row.pair,
      status   |-> IF file = Absent THEN "error" ELSE row.status,
      detected |-> file # Absent /\ file.detected,
      run      |-> row.run]

(* Slip: the first row of a pair wins.                                     *)
FirstRows(rows) ==
  {rows[i] : i \in {i \in DOMAIN rows :
                      \A j \in DOMAIN rows : rows[j].pair = rows[i].pair => j >= i}}

(* metrics.py: rows are keyed by (tool, case), the last one wins.          *)
LastRows(rows) ==
  {rows[i] : i \in {i \in DOMAIN rows :
                      \A j \in DOMAIN rows : rows[j].pair = rows[i].pair => j <= i}}

Metrics(rows) ==
  LET kept == LastRows(rows)
      of(t) == {r \in kept : r.pair[2] = t}
  IN [t \in {r.pair[2] : r \in kept} |->
        [success  |-> Cardinality({r \in of(t) : r.status = "success"}),
         detected |-> Cardinality({r \in of(t) : r.detected}),
         observed |-> Cardinality(of(t))]]

-----------------------------------------------------------------------------
Init ==
  /\ cmd = "none"
  /\ plan = << >>
  /\ run = 0
  /\ todo = << >>
  /\ records = << >>
  /\ raw = [p \in Pair |-> Absent]
  /\ log = Absent
  /\ normalized = Absent
  /\ summary = Absent
  /\ report = Absent
  /\ dirty = FALSE

Idle == plan = << >>
At(stage) == plan # << >> /\ Head(plan) = stage

(* run_experiment.py, full_run.py and pilot_run.py: the planned pairs.     *)
StartRun(c) ==
  /\ Idle
  /\ c \in {"full", "experiment"}
  /\ run < MaxRuns
  /\ cmd' = c
  /\ plan' = Commands[c]
  /\ run' = run + 1
  /\ \E cases \in CaseLists, tools \in ToolLists : todo' = Combinations(cases, tools)
  /\ records' = << >>
  /\ UNCHANGED <<raw, log, normalized, summary, report, dirty>>

(* The scripts that only read and write results; run_experiment --dry-run  *)
(* writes the log of no pairs.                                             *)
StartCommand(c) ==
  /\ Idle
  /\ c \in {"dry_run", "normalize", "metrics", "report"}
  /\ cmd' = c
  /\ plan' = Commands[c]
  /\ todo' = << >>
  /\ records' = << >>
  /\ UNCHANGED <<run, raw, log, normalized, summary, report, dirty>>

(* The raw file and the log row of the pair that is being run.             *)
Output(o) == [run |-> run, status |-> o.status, detected |-> o.detected]
Row(o)    == [pair |-> Head(todo), status |-> o.status, run |-> run]

(* Slip: no raw file for a tool that timed out.                            *)
RunPairSkipsTimeout ==
  /\ At("run")
  /\ todo # << >>
  /\ \E o \in Outcomes :
       /\ raw' = IF o.status = "timeout" THEN raw
                 ELSE [raw EXCEPT ![Head(todo)] = Output(o)]
       /\ records' = Append(records, Row(o))
  /\ todo' = Tail(todo)
  /\ dirty' = TRUE
  /\ UNCHANGED <<cmd, plan, run, log, normalized, summary, report>>

(* Slip: a tool that timed out is tried again after the other pairs.       *)
RunPairRetriesTimeout ==
  /\ At("run")
  /\ todo # << >>
  /\ \E o \in Outcomes :
       /\ raw' = [raw EXCEPT ![Head(todo)] = Output(o)]
       /\ IF o.status = "timeout"
          THEN /\ todo' = Append(Tail(todo), Head(todo))
               /\ UNCHANGED records
          ELSE /\ records' = Append(records, Row(o))
               /\ todo' = Tail(todo)
  /\ dirty' = TRUE
  /\ UNCHANGED <<cmd, plan, run, log, normalized, summary, report>>

(* One pair: the runner returns, times out, or raises; every outcome is    *)
(* written to the raw file and remembered for the log.  A missing case or  *)
(* a runner that did not initialise is an error.                           *)
RunPair ==
  /\ At("run")
  /\ todo # << >>
  /\ \E o \in Outcomes :
       /\ raw' = [raw EXCEPT ![Head(todo)] = Output(o)]
       /\ records' = Append(records, Row(o))
  /\ todo' = Tail(todo)
  /\ dirty' = TRUE
  /\ UNCHANGED <<cmd, plan, run, log, normalized, summary, report>>

RunDone ==
  /\ At("run")
  /\ todo = << >>
  /\ plan' = Tail(plan)
  /\ UNCHANGED <<cmd, run, memory, raw, log, normalized, summary, report, dirty>>

(* _write_run_log: the log is replaced.                                    *)
WriteLog ==
  /\ At("log")
  /\ log' = records
  /\ records' = << >>     \* not read again
  /\ dirty' = FALSE
  /\ plan' = Tail(plan)
  /\ UNCHANGED <<cmd, run, todo, raw, normalized, summary, report>>

Normalize ==
  /\ At("normalize")
  /\ log # Absent
  /\ normalized' = [i \in DOMAIN log |-> JoinedRow(log[i])]
  /\ plan' = Tail(plan)
  /\ UNCHANGED <<cmd, run, memory, raw, log, summary, report, dirty>>

ComputeMetrics ==
  /\ At("metrics")
  /\ normalized # Absent
  /\ summary' = Metrics(normalized)
  /\ plan' = Tail(plan)
  /\ UNCHANGED <<cmd, run, memory, raw, log, normalized, report, dirty>>

(* generate_report computes the metrics again, which rewrites the summary. *)
GenerateReport ==
  /\ At("report")
  /\ normalized # Absent
  /\ summary' = Metrics(normalized)
  /\ report' = summary'
  /\ plan' = Tail(plan)
  /\ UNCHANGED <<cmd, run, memory, raw, log, normalized, dirty>>

(* normalize.py and metrics.py raise FileNotFoundError.                    *)
InputMissing ==
  /\ \/ At("normalize") /\ log = Absent
     \/ (At("metrics") \/ At("report")) /\ normalized = Absent
  /\ plan' = << >>
  /\ cmd' = "none"
  /\ UNCHANGED <<run, memory, raw, log, normalized, summary, report, dirty>>

(* The process dies between two writes...                                  *)
Crash ==
  /\ ~ Idle
  /\ plan' = << >>
  /\ cmd' = "none"
  /\ todo' = << >> /\ records' = << >>
  /\ UNCHANGED <<run, raw, log, normalized, summary, report, dirty>>

(* ... or after a file was opened for writing and before it was filled.    *)
CrashInWrite ==
  /\ plan' = << >>
  /\ cmd' = "none"
  /\ todo' = << >> /\ records' = << >>
  /\ \/ /\ At("run") /\ todo # << >>
        /\ raw' = [raw EXCEPT ![Head(todo)] =
                     [run |-> run, status |-> "error", detected |-> FALSE]]
        /\ dirty' = TRUE
        /\ UNCHANGED <<log, normalized>>
     \/ /\ At("log")
        /\ log' = << >>
        /\ dirty' = FALSE
        /\ UNCHANGED <<raw, normalized>>
     \/ /\ At("normalize") /\ log # Absent
        /\ normalized' = << >>
        /\ UNCHANGED <<raw, log, dirty>>
  /\ UNCHANGED <<run, summary, report>>

Work ==
  RunPair \/ RunDone \/ WriteLog \/ Normalize \/ ComputeMetrics \/ GenerateReport
    \/ InputMissing

Next ==
  \/ \E c \in DOMAIN Commands : StartRun(c) \/ StartCommand(c)
  \/ Work
  \/ Crash
  \/ CrashInWrite

Spec == Init /\ [][Next]_vars /\ WF_vars(Work)

-----------------------------------------------------------------------------
(* A pair is logged after its raw file was written: whatever was crashed,  *)
(* repeated or planned dry, no row of the log or of the normalized table   *)
(* stands for an execution whose output is older or missing.               *)
LoggedPairsHaveOutput ==
  \A file \in {log, normalized} : file # Absent =>
    \A i \in DOMAIN file :
      raw[file[i].pair] # Absent /\ raw[file[i].pair].run >= file[i].run

(* Log and raw files of different runs are mixed only by a run that was    *)
(* cut off between its first raw file and its log; in every other idle     *)
(* state the rows of the log and the raw files they name are of one run.   *)
MixedOnlyByCrash ==
  ~ dirty /\ log # Absent =>
    \A i \in DOMAIN log : raw[log[i].pair].run = log[i].run

(* The files of the pipeline fit each other after any sequence of commands *)
(* and crashes: every logged row has its output, and rows and outputs of   *)
(* different runs stand side by side only after a crash.                   *)
LogMatchesOutput ==
  /\ TypeOK
  /\ LoggedPairsHaveOutput
  /\ MixedOnlyByCrash

(* What full_run.py leaves behind counts exactly the outputs it has just   *)
(* written: a case named twice is counted once, with its last execution,   *)
(* and no output of an earlier run is counted.                             *)
FullRunCountsItsOutputs ==
  Idle /\ cmd = "full" =>
    LET mine(t) == {p \in Pair : p[2] = t /\ raw[p] # Absent /\ raw[p].run = run}
    IN /\ report = summary
       /\ DOMAIN summary = {t \in Tool : mine(t) # {}}
       /\ \A t \in DOMAIN summary :
            summary[t] =
              [success  |-> Cardinality({p \in mine(t) : raw[p].status = "success"}),
               detected |-> Cardinality({p \in mine(t) : raw[p].detected}),
               observed |-> Cardinality(mine(t))]

(* A process that is not killed comes to its end, however its pairs fail:  *)
(* timeouts and errors of a tool are recorded, not retried.                *)
Finishes == ~ Idle ~> Idle
=============================================================================
