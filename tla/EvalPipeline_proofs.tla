------------------------ MODULE EvalPipeline_proofs ------------------------
(***************************************************************************)
(* Proofs about EvalPipeline, for any cases, tools, outcomes and runs.     *)
(***************************************************************************)
EXTENDS EvalPipeline, FiniteSetTheorems, TLAPS

-----------------------------------------------------------------------------
(* What is left of the scripts.                                            *)
FullPlans ==
  {<<"run", "log", "normalize", "metrics", "report">>,
   <<"log", "normalize", "metrics", "report">>,
   <<"normalize", "metrics", "report">>,
   <<"metrics", "report">>,
   <<"report">>,
   << >>}

OtherPlans ==
  {<<"run", "log">>, <<"log">>, <<"normalize">>, <<"metrics">>, <<"report">>, << >>}

PlanOK ==
  /\ cmd \in {"full", "experiment", "dry_run", "normalize", "metrics", "report", "none"}
  /\ plan \in IF cmd = "full" THEN FullPlans ELSE OtherPlans
  /\ plan = <<"run", "log">> => cmd = "experiment"

LEMMA CommandsDomain ==
  DOMAIN Commands = {"full", "experiment", "dry_run", "normalize", "metrics", "report"}
BY DEF Commands

(* Every such plan is a suffix of a command.                               *)
LEMMA PlansAreSuffixes ==
  FullPlans \union OtherPlans \subseteq UNION {Suffixes(Commands[c]) : c \in DOMAIN Commands}
<1>1. FullPlans \subseteq Suffixes(Commands["full"])
  <2>1. /\ <<"run", "log", "normalize", "metrics", "report">> \in Suffixes(Commands["full"])
        /\ <<"log", "normalize", "metrics", "report">> \in Suffixes(Commands["full"])
        /\ <<"normalize", "metrics", "report">> \in Suffixes(Commands["full"])
    BY DEF Suffixes, Commands
  <2>2. /\ <<"metrics", "report">> \in Suffixes(Commands["full"])
        /\ <<"report">> \in Suffixes(Commands["full"])
        /\ << >> \in Suffixes(Commands["full"])
    BY DEF Suffixes, Commands
  <2> QED BY <2>1, <2>2 DEF FullPlans
<1>2. /\ <<"run", "log">> \in Suffixes(Commands["experiment"])
      /\ <<"log">> \in Suffixes(Commands["dry_run"])
      /\ <<"normalize">> \in Suffixes(Commands["normalize"])
      /\ <<"metrics">> \in Suffixes(Commands["metrics"])
      /\ <<"report">> \in Suffixes(Commands["report"])
      /\ << >> \in Suffixes(Commands["report"])
  BY DEF Suffixes, Commands
<1>3. ASSUME NEW p \in OtherPlans
      PROVE  \E c \in DOMAIN Commands : p \in Suffixes(Commands[c])
  BY <1>2, CommandsDomain DEF OtherPlans
<1>4. ASSUME NEW p \in FullPlans
      PROVE  \E c \in DOMAIN Commands : p \in Suffixes(Commands[c])
  BY <1>1, CommandsDomain
<1> QED BY <1>3, <1>4

(* The next stage of a plan.                                               *)
LEMMA NextStage ==
  /\ Tail(<<"run", "log", "normalize", "metrics", "report">>) =
       <<"log", "normalize", "metrics", "report">>
  /\ Tail(<<"log", "normalize", "metrics", "report">>) = <<"normalize", "metrics", "report">>
  /\ Tail(<<"normalize", "metrics", "report">>) = <<"metrics", "report">>
  /\ Tail(<<"metrics", "report">>) = <<"report">>
  /\ Tail(<<"report">>) = << >>
  /\ Tail(<<"run", "log">>) = <<"log">>
  /\ Tail(<<"log">>) = << >>
  /\ Tail(<<"normalize">>) = << >>
  /\ Tail(<<"metrics">>) = << >>
OBVIOUS

LEMMA OnlyFirstIsRun ==
  \A p \in {<<"log", "normalize", "metrics", "report">>, <<"normalize", "metrics", "report">>,
            <<"metrics", "report">>, <<"report">>, <<"log">>, <<"normalize">>, << >>} :
    p # <<"run", "log">>
<1>1. Head(<<"run", "log">>) = "run" /\ Len(<<"run", "log">>) = 2
  OBVIOUS
<1> QED BY <1>1

LEMMA TailOfPlan ==
  ASSUME PlanOK, ~ Idle
  PROVE  /\ Tail(plan) \in IF cmd = "full" THEN FullPlans ELSE OtherPlans
         /\ Tail(plan) = <<"run", "log">> => cmd = "experiment"
<1>1. CASE cmd = "full"
  <2>1. plan \in FullPlans \ {<< >>}
    BY <1>1 DEF PlanOK, Idle
  <2> QED BY <1>1, <2>1, NextStage, OnlyFirstIsRun DEF FullPlans
<1>2. CASE cmd # "full"
  <2>1. plan \in OtherPlans \ {<< >>}
    BY <1>2 DEF PlanOK, Idle
  <2> QED BY <1>2, <2>1, NextStage, OnlyFirstIsRun DEF OtherPlans
<1> QED BY <1>1, <1>2

-----------------------------------------------------------------------------
(* The pairs of a run are pairs of a case and a tool.                      *)
LEMMA QuotientAndRest ==
  ASSUME NEW m \in Nat, NEW n \in Nat \ {0}, NEW i \in 1 .. m * n
  PROVE  /\ 1 + ((i - 1) \div n) \in 1 .. m
         /\ 1 + ((i - 1) % n) \in 1 .. n
<1> DEFINE q == (i - 1) \div n
           r == (i - 1) % n
<1>1. q \in Int /\ r \in 0 .. n - 1 /\ i - 1 = n * q + r
  OBVIOUS
<1>2. q \in 0 .. m - 1
  OBVIOUS
<1> QED BY <1>1, <1>2

LEMMA CombinationsType ==
  ASSUME NEW cases \in CaseLists, NEW tools \in ToolLists
  PROVE  Combinations(cases, tools) \in Seq(Pair)
<1>1. cases \in Seq(Case) /\ tools \in Seq(Tool) /\ Len(tools) # 0
  <2>1. PICK m \in 1 .. MaxSelected : cases \in [1 .. m -> Case]
    BY DEF CaseLists
  <2>2. PICK n \in 1 .. Cardinality(Tool) : tools \in [1 .. n -> Tool]
    BY DEF ToolLists
  <2>3. MaxSelected \in Nat /\ Cardinality(Tool) \in Nat
    BY EvalPipelineAssumption, FS_CardinalityType
  <2>4. m \in Nat /\ n \in Nat /\ n # 0
    BY <2>3
  <2> QED BY <2>1, <2>2, <2>4
<1>2. ASSUME NEW i \in 1 .. Len(cases) * Len(tools)
      PROVE  <<cases[1 + ((i - 1) \div Len(tools))], tools[1 + ((i - 1) % Len(tools))]>> \in Pair
  <2>1. Len(cases) \in Nat /\ Len(tools) \in Nat \ {0}
    BY <1>1
  <2>2. /\ 1 + ((i - 1) \div Len(tools)) \in 1 .. Len(cases)
        /\ 1 + ((i - 1) % Len(tools)) \in 1 .. Len(tools)
    BY <2>1, QuotientAndRest
  <2>3. /\ cases[1 + ((i - 1) \div Len(tools))] \in Case
        /\ tools[1 + ((i - 1) % Len(tools))] \in Tool
    BY <1>1, <2>2
  <2> QED BY <2>3 DEF Pair
<1>3. Len(cases) * Len(tools) \in Nat
  BY <1>1
<1> QED BY <1>2, <1>3 DEF Combinations

-----------------------------------------------------------------------------
(* The rows that are counted.                                              *)
IsLast(rows, i) ==
  i \in DOMAIN rows /\ \A j \in DOMAIN rows : rows[j].pair = rows[i].pair => j <= i

LEMMA LastRowsAre ==
  ASSUME NEW rows, NEW r
  PROVE  r \in LastRows(rows) <=> \E i \in DOMAIN rows : IsLast(rows, i) /\ r = rows[i]
BY DEF LastRows, IsLast

LEMMA LastRowsFinite ==
  ASSUME NEW R, NEW rows \in Seq(R)
  PROVE  IsFiniteSet(LastRows(rows)) /\ LastRows(rows) \subseteq R
<1> DEFINE S == {i \in DOMAIN rows : IsLast(rows, i)}
           f == [i \in S |-> rows[i]]
<1>1. IsFiniteSet(S)
  <2>1. DOMAIN rows = 1 .. Len(rows) /\ Len(rows) \in Nat
    OBVIOUS
  <2>2. IsFiniteSet(1 .. Len(rows))
    BY <2>1, FS_Interval
  <2> QED BY <2>1, <2>2, FS_Subset
<1>2. f \in Surjection(S, LastRows(rows))
  BY LastRowsAre DEF Surjection
<1> HIDE DEF S, f
<1>3. IsFiniteSet(LastRows(rows))
  BY <1>1, <1>2, FS_Surjection
<1>4. LastRows(rows) \subseteq R
  BY LastRowsAre
<1> QED BY <1>3, <1>4

(* Different rows that are counted are of different pairs, and each pair   *)
(* that has a row has one.                                                 *)
LEMMA OneRowPerPair ==
  ASSUME NEW R, NEW rows \in Seq(R),
         NEW r \in LastRows(rows), NEW s \in LastRows(rows), r.pair = s.pair
  PROVE  r = s
<1>1. PICK i \in DOMAIN rows : IsLast(rows, i) /\ r = rows[i]
  BY LastRowsAre
<1>2. PICK j \in DOMAIN rows : IsLast(rows, j) /\ s = rows[j]
  BY LastRowsAre
<1>3. i = j
  BY <1>1, <1>2 DEF IsLast
<1> QED BY <1>1, <1>2, <1>3

LEMMA LastExists ==
  ASSUME NEW R, NEW rows \in Seq(R), NEW k \in DOMAIN rows
  PROVE  \E i \in DOMAIN rows : IsLast(rows, i) /\ rows[i].pair = rows[k].pair
<1> DEFINE S == {i \in DOMAIN rows : rows[i].pair = rows[k].pair}
<1>1. S # {} /\ \A i \in S : i \in 1 .. Len(rows)
  OBVIOUS
<1>2. PICK i \in S : \A j \in S : j <= i
  <2>1. Len(rows) \in Nat
    OBVIOUS
  <2> HIDE DEF S
  <2> DEFINE D == {Len(rows) - j : j \in S}
  <2>2. D # {} /\ D \subseteq Nat
    BY <1>1, <2>1
  <2>3. PICK d \in D : \A e \in D : ~ (<<e, d>> \in OpToRel(<, Nat))
    <3> HIDE DEF D
    <3> QED BY <2>2, WFMin, NatLessThanWellFounded
  <2>4. PICK i \in S : d = Len(rows) - i
    OBVIOUS
  <2>5. ASSUME NEW j \in S PROVE j <= i
    <3>1. Len(rows) - j \in D
      OBVIOUS
    <3>2. ~ (Len(rows) - j < Len(rows) - i)
      BY <2>2, <2>3, <2>4, <3>1 DEF OpToRel
    <3> QED BY <1>1, <2>1, <3>2
  <2> QED BY <2>5
<1> QED BY <1>2 DEF IsLast

(* Sets whose members correspond through their pairs are of one size.      *)
LEMMA SameCount ==
  ASSUME NEW S, IsFiniteSet(S), NEW T,
         \A r, s \in S : r.pair = s.pair => r = s,
         \A r \in S : r.pair \in T,
         \A p \in T : \E r \in S : r.pair = p
  PROVE  Cardinality(S) = Cardinality(T)
<1> DEFINE f == [r \in S |-> r.pair]
<1>1. f \in Bijection(S, T)
  BY DEF Bijection, Injection, Surjection, IsInjective
<1>2. ExistsBijection(S, T)
  BY <1>1 DEF ExistsBijection
<1> QED BY <1>2, FS_Bijection

LEMMA MetricsType ==
  ASSUME NEW rows \in Seq(NormRow)
  PROVE  \E T \in SUBSET Tool : Metrics(rows) \in [T -> Counts]
<1> DEFINE kept == LastRows(rows)
           of(t) == {r \in kept : r.pair[2] = t}
           T == {r.pair[2] : r \in kept}
<1>1. IsFiniteSet(kept) /\ kept \subseteq NormRow
  BY LastRowsFinite
<1>2. T \subseteq Tool
  BY <1>1 DEF NormRow, Pair
<1>3. ASSUME NEW U, U \subseteq kept
      PROVE  Cardinality(U) \in Nat
  <2> HIDE DEF kept
  <2> QED BY <1>1, <1>3, FS_Subset, FS_CardinalityType
<1>4. ASSUME NEW t \in T
      PROVE  /\ Cardinality({r \in of(t) : r.status = "success"}) \in Nat
             /\ Cardinality({r \in of(t) : r.detected}) \in Nat
             /\ Cardinality(of(t)) \in Nat
  <2>1. /\ {r \in of(t) : r.status = "success"} \subseteq kept
        /\ {r \in of(t) : r.detected} \subseteq kept
        /\ of(t) \subseteq kept
    OBVIOUS
  <2> QED BY <2>1, <1>3
<1>5. Metrics(rows) \in [T -> Counts]
  BY <1>4 DEF Metrics, Counts
<1> QED BY <1>2, <1>5

-----------------------------------------------------------------------------
(***************************************************************************)
(* The inductive invariant.                                                *)
(***************************************************************************)
(* No raw file is of a run to come, and only a run that was started runs.  *)
RunsOK ==
  /\ \A p \in Pair : raw[p] # Absent => raw[p].run <= run
  /\ cmd \in {"full", "experiment"} => run >= 1

(* A row in memory is of this run, and so is the output of its pair.       *)
RecordsOK ==
  \A i \in DOMAIN records :
    /\ records[i].run = run
    /\ raw[records[i].pair] # Absent
    /\ raw[records[i].pair].run = run

OfThisRun(p) == raw[p] # Absent /\ raw[p].run = run

(* The rows are of the pairs that this run has executed, and the last row  *)
(* of a pair is of the execution whose output was kept.                    *)
Matches(rows) ==
  /\ \A p \in Pair : OfThisRun(p) <=> \E i \in DOMAIN rows : rows[i].pair = p
  /\ \A i \in DOMAIN rows : IsLast(rows, i) => rows[i].status = raw[rows[i].pair].status

Detects(rows) ==
  \A i \in DOMAIN rows : rows[i].detected = raw[rows[i].pair].detected

(* What full_run.py has established at each of its stages.                 *)
FullOK ==
  cmd = "full" =>
    /\ plan # << >> /\ Head(plan) \in {"run", "log"} => Matches(records)
    /\ plan # << >> /\ Head(plan) = "normalize" => log \in Seq(LogRow) /\ Matches(log)
    /\ (plan # << >> /\ Head(plan) \in {"metrics", "report"}) \/ plan = << >> =>
         normalized \in Seq(NormRow) /\ Matches(normalized) /\ Detects(normalized)
    /\ plan = << >> => summary = Metrics(normalized) /\ report = summary

IInv ==
  /\ TypeOK /\ PlanOK
  /\ RunsOK /\ RecordsOK
  /\ LoggedPairsHaveOutput /\ MixedOnlyByCrash
  /\ FullOK

(* TypeOK without the place in the plan, which PlanOK knows better.        *)
DataOK ==
  /\ run \in 0 .. MaxRuns
  /\ todo \in Seq(Pair)
  /\ records \in Seq(LogRow)
  /\ raw \in [Pair -> RawFile \union {Absent}]
  /\ log = Absent \/ log \in Seq(LogRow)
  /\ normalized = Absent \/ normalized \in Seq(NormRow)
  /\ \A f \in {summary, report} : f = Absent \/ \E T \in SUBSET Tool : f \in [T -> Counts]
  /\ dirty \in BOOLEAN

LEMMA TypeFromData == PlanOK /\ DataOK => TypeOK
BY PlansAreSuffixes, CommandsDomain DEF PlanOK, DataOK, TypeOK

LEMMA TypeFromDataNext == PlanOK' /\ DataOK' => TypeOK'
BY PlansAreSuffixes, CommandsDomain DEF PlanOK, DataOK, TypeOK

LEMMA DataFromType == TypeOK => DataOK
BY DEF TypeOK, DataOK

-----------------------------------------------------------------------------
LEMMA InitIInv == Init => IInv
<1> SUFFICES ASSUME Init PROVE IInv
  OBVIOUS
<1> USE DEF Init
<1>1. PlanOK
  BY DEF PlanOK, OtherPlans
<1>2. DataOK
  <2>1. run \in 0 .. MaxRuns
    BY EvalPipelineAssumption
  <2>2. raw \in [Pair -> RawFile \union {Absent}]
    OBVIOUS
  <2>3. todo \in Seq(Pair) /\ records \in Seq(LogRow)
    OBVIOUS
  <2> QED BY <2>1, <2>2, <2>3 DEF DataOK
<1>3. RunsOK /\ RecordsOK
  BY DEF RunsOK, RecordsOK
<1>4. LoggedPairsHaveOutput /\ MixedOnlyByCrash /\ FullOK
  BY DEF LoggedPairsHaveOutput, MixedOnlyByCrash, FullOK
<1> QED BY <1>1, <1>2, <1>3, <1>4, TypeFromData DEF IInv

(* A step that leaves the raw files, the rows in memory and the run alone. *)
LEMMA StartRunStep ==
  ASSUME IInv, NEW c \in DOMAIN Commands, StartRun(c)
  PROVE  IInv'
<1> USE DEF StartRun, IInv
<1>0. DataOK
  BY DataFromType
<1>1. PlanOK'
  BY DEF PlanOK, Commands, FullPlans, OtherPlans
<1>2. DataOK'
  <2>1. todo' \in Seq(Pair)
    BY CombinationsType
  <2>2. run' \in 0 .. MaxRuns
    BY <1>0, EvalPipelineAssumption DEF DataOK
  <2> QED BY <1>0, <2>1, <2>2 DEF DataOK
<1>3. RunsOK' /\ RecordsOK'
  BY <1>0, EvalPipelineAssumption DEF RunsOK, RecordsOK, DataOK, RawFile
<1>4. LoggedPairsHaveOutput' /\ MixedOnlyByCrash'
  BY DEF LoggedPairsHaveOutput, MixedOnlyByCrash
<1>5. FullOK'
  <2>1. \A p \in Pair : ~ OfThisRun(p)'
    BY <1>0, EvalPipelineAssumption DEF RunsOK, OfThisRun, DataOK, RawFile
  <2>2. Matches(records)'
    BY <2>1 DEF Matches
  <2> QED BY <2>2 DEF FullOK, Commands
<1> QED BY <1>1, <1>2, <1>3, <1>4, <1>5, TypeFromDataNext

LEMMA StartCommandStep ==
  ASSUME IInv, NEW c \in DOMAIN Commands, StartCommand(c)
  PROVE  IInv'
<1> USE DEF StartCommand, IInv
<1>0. DataOK
  BY DataFromType
<1>1. PlanOK'
  BY DEF PlanOK, Commands, FullPlans, OtherPlans
<1>2. DataOK'
  BY <1>0 DEF DataOK
<1>3. RunsOK' /\ RecordsOK'
  BY DEF RunsOK, RecordsOK
<1>4. LoggedPairsHaveOutput' /\ MixedOnlyByCrash' /\ FullOK'
  BY DEF LoggedPairsHaveOutput, MixedOnlyByCrash, FullOK
<1> QED BY <1>1, <1>2, <1>3, <1>4, TypeFromDataNext

LEMMA RunPairStep ==
  ASSUME IInv, RunPair
  PROVE  IInv'
<1> USE DEF IInv
<1>0. DataOK
  BY DataFromType
<1>1. PICK o \in Outcomes :
        /\ raw' = [raw EXCEPT ![Head(todo)] = Output(o)]
        /\ records' = Append(records, Row(o))
  BY DEF RunPair
<1> DEFINE p == Head(todo)
<1>2. p \in Pair /\ Tail(todo) \in Seq(Pair)
  BY <1>0 DEF DataOK, RunPair
<1>3. run \in 1 .. MaxRuns
  <2>1. cmd \in {"full", "experiment"}
    BY DEF RunPair, At, PlanOK, OtherPlans
  <2> QED
    BY <2>1, <1>0 DEF RunsOK, DataOK
<1>4. o.status \in Status /\ o.detected \in BOOLEAN
  BY EvalPipelineAssumption
<1>5. /\ Output(o) \in RawFile /\ Output(o) # Absent
      /\ Output(o).run = run /\ Output(o).status = o.status
      /\ Row(o) \in LogRow /\ Row(o).pair = p /\ Row(o).status = o.status /\ Row(o).run = run
  BY <1>2, <1>3, <1>4, EvalPipelineAssumption DEF Output, Row, RawFile, LogRow
<1> HIDE DEF p
<1>6. /\ raw' = [raw EXCEPT ![p] = Output(o)]
      /\ raw'[p] = Output(o)
      /\ \A q \in Pair : q # p => raw'[q] = raw[q]
  BY <1>0, <1>1, <1>2 DEF DataOK, p
<1>7. /\ DOMAIN records' = 1 .. Len(records) + 1
      /\ DOMAIN records = 1 .. Len(records)
      /\ Len(records) \in Nat
      /\ records'[Len(records) + 1] = Row(o)
      /\ \A i \in DOMAIN records : records'[i] = records[i] /\ records[i] \in LogRow
  BY <1>0, <1>1, <1>5 DEF DataOK
<1>8. \A i \in DOMAIN records : records[i].pair \in Pair
  BY <1>7 DEF LogRow
<1>9. UNCHANGED <<cmd, plan, run, log, normalized, summary, report>> /\ dirty' = TRUE
  BY DEF RunPair
<1>10. PlanOK'
  BY <1>9 DEF PlanOK
<1>11. DataOK'
  <2>1. records' \in Seq(LogRow)
    BY <1>0, <1>1, <1>5 DEF DataOK
  <2>2. raw' \in [Pair -> RawFile \union {Absent}]
    BY <1>0, <1>5, <1>6 DEF DataOK
  <2>3. todo' \in Seq(Pair)
    BY <1>2 DEF RunPair
  <2> QED BY <1>0, <1>9, <2>1, <2>2, <2>3 DEF DataOK
<1>12. RunsOK'
  BY <1>0, <1>3, <1>5, <1>6, <1>9 DEF RunsOK, DataOK
<1>13. RecordsOK'
  BY <1>5, <1>6, <1>7, <1>8, <1>9 DEF RecordsOK
<1>14. LoggedPairsHaveOutput'
  <2> SUFFICES ASSUME NEW file \in {log, normalized}, file # Absent, NEW i \in DOMAIN file
               PROVE  raw'[file[i].pair] # Absent /\ raw'[file[i].pair].run >= file[i].run
    BY <1>9 DEF LoggedPairsHaveOutput
  <2>1. file[i].pair \in Pair /\ file[i].run \in 1 .. MaxRuns
    <3>1. file \in Seq(LogRow) \/ file \in Seq(NormRow)
      BY <1>0 DEF DataOK
    <3>2. file[i] \in LogRow \/ file[i] \in NormRow
      BY <3>1
    <3> QED BY <3>2 DEF LogRow, NormRow
  <2>2. raw[file[i].pair] # Absent /\ raw[file[i].pair].run >= file[i].run
    BY DEF LoggedPairsHaveOutput
  <2>3. raw[file[i].pair].run <= run /\ raw[file[i].pair].run \in Nat
    BY <1>0, <2>1, <2>2 DEF RunsOK, DataOK, RawFile
  <2>4. run >= file[i].run
    BY <2>1, <2>2, <2>3, <1>3
  <2> QED BY <2>1, <2>2, <2>4, <1>5, <1>6
<1>15. MixedOnlyByCrash'
  BY <1>9 DEF MixedOnlyByCrash
<1>16. FullOK'
  <2>1. At("run")
    BY DEF RunPair
  <2> SUFFICES ASSUME cmd = "full" PROVE Matches(records)'
    BY <1>9, <2>1 DEF FullOK, At
  <2>2. Matches(records)
    BY <2>1 DEF FullOK, At
  <2>3. ASSUME NEW q \in Pair
        PROVE  OfThisRun(q)' <=> \E i \in DOMAIN records' : records'[i].pair = q
    <3>1. CASE q = p
      BY <3>1, <1>5, <1>6, <1>7, <1>9 DEF OfThisRun
    <3>2. CASE q # p
      <4>1. OfThisRun(q)' <=> OfThisRun(q)
        BY <3>2, <1>6, <1>9 DEF OfThisRun
      <4>2. (\E i \in DOMAIN records' : records'[i].pair = q) <=>
              \E i \in DOMAIN records : records[i].pair = q
        BY <3>2, <1>5, <1>7
      <4> QED BY <4>1, <4>2, <2>2 DEF Matches
    <3> QED BY <3>1, <3>2
  <2>4. ASSUME NEW i \in DOMAIN records', IsLast(records', i)
        PROVE  records'[i].status = raw'[records'[i].pair].status
    <3>1. CASE i = Len(records) + 1
      BY <3>1, <1>5, <1>6, <1>7
    <3>2. CASE i \in DOMAIN records
      <4>1. records'[i].pair # p
        BY <2>4, <3>2, <1>5, <1>7 DEF IsLast
      <4>2. IsLast(records, i)
        BY <2>4, <3>2, <1>7 DEF IsLast
      <4> QED BY <4>1, <4>2, <3>2, <2>2, <1>6, <1>7, <1>8 DEF Matches
    <3> QED BY <3>1, <3>2, <1>7
  <2> QED BY <2>3, <2>4 DEF Matches
<1> QED BY <1>10, <1>11, <1>12, <1>13, <1>14, <1>15, <1>16, TypeFromDataNext

(* Steps of the plan that leave the raw files and the run alone.           *)
LEMMA NextStagePlan ==
  ASSUME PlanOK, ~ Idle, plan' = Tail(plan), cmd' = cmd
  PROVE  PlanOK'
BY TailOfPlan DEF PlanOK

LEMMA RunDoneStep ==
  ASSUME IInv, RunDone
  PROVE  IInv'
<1> USE DEF IInv
<1>0. DataOK /\ ~ Idle
  BY DataFromType DEF RunDone, At, Idle
<1>1. PlanOK'
  BY <1>0, NextStagePlan DEF RunDone
<1>2. DataOK' /\ RunsOK' /\ RecordsOK'
  BY <1>0 DEF RunDone, DataOK, RunsOK, RecordsOK, memory
<1>3. LoggedPairsHaveOutput' /\ MixedOnlyByCrash'
  BY DEF RunDone, LoggedPairsHaveOutput, MixedOnlyByCrash
<1>4. FullOK'
  <2> SUFFICES ASSUME cmd = "full" PROVE FullOK'
    BY DEF RunDone, FullOK
  <2>1. plan = <<"run", "log", "normalize", "metrics", "report">>
    BY DEF RunDone, At, PlanOK, FullPlans
  <2>2. plan' # << >> /\ Head(plan') = "log"
    BY <2>1, NextStage DEF RunDone
  <2>3. Matches(records)
    BY <2>1 DEF FullOK
  <2>4. Matches(records)'
    BY <2>3 DEF Matches, OfThisRun, RunDone, memory
  <2> QED BY <2>2, <2>4 DEF FullOK
<1> QED BY <1>1, <1>2, <1>3, <1>4, TypeFromDataNext

LEMMA WriteLogStep ==
  ASSUME IInv, WriteLog
  PROVE  IInv'
<1> USE DEF IInv
<1>0. DataOK /\ ~ Idle
  BY DataFromType DEF WriteLog, At, Idle
<1>1. PlanOK'
  BY <1>0, NextStagePlan DEF WriteLog
<1>2. DataOK'
  <2>1. log' \in Seq(LogRow) /\ records' \in Seq(LogRow)
    BY <1>0 DEF WriteLog, DataOK
  <2> QED BY <1>0, <2>1 DEF WriteLog, DataOK
<1>3. ASSUME NEW i \in DOMAIN records
      PROVE  raw[records[i].pair] # Absent /\ raw[records[i].pair].run >= records[i].run
  <2>1. run \in Nat
    BY <1>0, EvalPipelineAssumption DEF DataOK
  <2> QED BY <2>1 DEF RecordsOK
<1>4. LoggedPairsHaveOutput'
  BY <1>3 DEF WriteLog, LoggedPairsHaveOutput
<1>5. MixedOnlyByCrash' /\ RunsOK' /\ RecordsOK'
  BY DEF WriteLog, MixedOnlyByCrash, RunsOK, RecordsOK
<1>6. FullOK'
  <2> SUFFICES ASSUME cmd = "full" PROVE FullOK'
    BY DEF WriteLog, FullOK
  <2>1. plan = <<"log", "normalize", "metrics", "report">>
    BY DEF WriteLog, At, PlanOK, FullPlans
  <2>2. plan' # << >> /\ Head(plan') = "normalize"
    BY <2>1, NextStage DEF WriteLog
  <2>3. Matches(records)
    BY <2>1 DEF FullOK
  <2>4. log' \in Seq(LogRow) /\ Matches(log)'
    BY <2>3, <1>0 DEF Matches, OfThisRun, WriteLog, DataOK
  <2> QED BY <2>2, <2>4 DEF FullOK
<1> QED BY <1>1, <1>2, <1>4, <1>5, <1>6, TypeFromDataNext

LEMMA JoinedRowType ==
  ASSUME DataOK, NEW row \in LogRow
  PROVE  /\ JoinedRow(row) \in NormRow
         /\ JoinedRow(row).pair = row.pair /\ JoinedRow(row).run = row.run
         /\ raw[row.pair] # Absent =>
              /\ JoinedRow(row).status = row.status
              /\ JoinedRow(row).detected = raw[row.pair].detected
<1>1. row.pair \in Pair /\ row.status \in Status /\ row.run \in 1 .. MaxRuns
  BY DEF LogRow
<1>2. raw[row.pair] = Absent \/ raw[row.pair] \in RawFile
  BY <1>1 DEF DataOK
<1>3. raw[row.pair] # Absent => raw[row.pair].detected \in BOOLEAN
  BY <1>2 DEF RawFile
<1> QED BY <1>1, <1>3 DEF JoinedRow, NormRow, Status

LEMMA NormalizeStep ==
  ASSUME IInv, Normalize
  PROVE  IInv'
<1> USE DEF IInv
<1>0. DataOK /\ ~ Idle /\ log \in Seq(LogRow)
  BY DataFromType DEF Normalize, At, Idle, DataOK
<1>1. PlanOK'
  BY <1>0, NextStagePlan DEF Normalize
<1>2. /\ normalized' \in Seq(NormRow)
      /\ DOMAIN normalized' = DOMAIN log
      /\ \A i \in DOMAIN log : log[i] \in LogRow /\ normalized'[i] = JoinedRow(log[i])
  <2>1. normalized' = [i \in 1 .. Len(log) |-> JoinedRow(log[i])] /\ Len(log) \in Nat
    BY <1>0 DEF Normalize
  <2>2. \A i \in 1 .. Len(log) : log[i] \in LogRow
    BY <1>0
  <2>3. \A i \in 1 .. Len(log) : JoinedRow(log[i]) \in NormRow
    BY <2>2, <1>0, JoinedRowType
  <2> QED BY <2>1, <2>2, <2>3, <1>0
<1>3. DataOK' /\ RunsOK' /\ RecordsOK'
  BY <1>0, <1>2 DEF Normalize, DataOK, RunsOK, RecordsOK, memory
<1>4. \A i \in DOMAIN log : raw[log[i].pair] # Absent /\ raw[log[i].pair].run >= log[i].run
  BY DEF LoggedPairsHaveOutput, Normalize
<1>5. \A i \in DOMAIN log :
        /\ normalized'[i].pair = log[i].pair /\ normalized'[i].run = log[i].run
        /\ normalized'[i].status = log[i].status
        /\ normalized'[i].detected = raw[log[i].pair].detected
  BY <1>0, <1>2, <1>4, JoinedRowType
<1>6. LoggedPairsHaveOutput'
  <2>1. log' = log /\ raw' = raw
    BY DEF Normalize
  <2> QED BY <1>2, <1>4, <1>5, <2>1 DEF LoggedPairsHaveOutput
<1>7. MixedOnlyByCrash'
  BY DEF Normalize, MixedOnlyByCrash
<1>8. FullOK'
  <2> SUFFICES ASSUME cmd = "full" PROVE FullOK'
    BY DEF Normalize, FullOK
  <2>1. plan = <<"normalize", "metrics", "report">>
    BY DEF Normalize, At, PlanOK, FullPlans
  <2>2. plan' # << >> /\ Head(plan') = "metrics"
    BY <2>1, NextStage DEF Normalize
  <2>3. Matches(log)
    BY <2>1 DEF FullOK
  <2>4. raw' = raw /\ run' = run
    BY DEF Normalize
  <2>5. \A i \in DOMAIN log : IsLast(normalized', i) => IsLast(log, i)
    BY <1>2, <1>5 DEF IsLast
  <2>6. Matches(normalized)' /\ Detects(normalized)'
    BY <1>2, <1>5, <2>3, <2>4, <2>5 DEF Matches, Detects, OfThisRun
  <2> QED BY <1>2, <2>2, <2>6 DEF FullOK
<1> QED BY <1>1, <1>3, <1>6, <1>7, <1>8, TypeFromDataNext

LEMMA ComputeMetricsStep ==
  ASSUME IInv, ComputeMetrics
  PROVE  IInv'
<1> USE DEF IInv
<1>0. DataOK /\ ~ Idle /\ normalized \in Seq(NormRow)
  BY DataFromType DEF ComputeMetrics, At, Idle, DataOK
<1>1. PlanOK'
  BY <1>0, NextStagePlan DEF ComputeMetrics
<1>2. DataOK'
  BY <1>0, MetricsType DEF ComputeMetrics, DataOK, memory
<1>3. RunsOK' /\ RecordsOK' /\ LoggedPairsHaveOutput' /\ MixedOnlyByCrash'
  BY DEF ComputeMetrics, RunsOK, RecordsOK, LoggedPairsHaveOutput, MixedOnlyByCrash, memory
<1>4. FullOK'
  <2> SUFFICES ASSUME cmd = "full" PROVE FullOK'
    BY DEF ComputeMetrics, FullOK
  <2>1. plan = <<"metrics", "report">>
    BY DEF ComputeMetrics, At, PlanOK, FullPlans
  <2>2. plan' # << >> /\ Head(plan') = "report"
    BY <2>1, NextStage DEF ComputeMetrics
  <2>3. Matches(normalized) /\ Detects(normalized)
    BY <2>1 DEF FullOK
  <2>4. Matches(normalized)' /\ Detects(normalized)' /\ normalized' = normalized
    BY <2>3 DEF Matches, Detects, OfThisRun, ComputeMetrics
  <2> QED BY <1>0, <2>2, <2>4 DEF FullOK
<1> QED BY <1>1, <1>2, <1>3, <1>4, TypeFromDataNext

LEMMA GenerateReportStep ==
  ASSUME IInv, GenerateReport
  PROVE  IInv'
<1> USE DEF IInv
<1>0. DataOK /\ ~ Idle /\ normalized \in Seq(NormRow)
  BY DataFromType DEF GenerateReport, At, Idle, DataOK
<1>1. PlanOK'
  BY <1>0, NextStagePlan DEF GenerateReport
<1>2. DataOK'
  <2>1. \E T \in SUBSET Tool : summary' \in [T -> Counts] /\ report' \in [T -> Counts]
    BY <1>0, MetricsType DEF GenerateReport
  <2> QED BY <1>0, <2>1 DEF GenerateReport, DataOK, memory
<1>3. RunsOK' /\ RecordsOK' /\ LoggedPairsHaveOutput' /\ MixedOnlyByCrash'
  BY DEF GenerateReport, RunsOK, RecordsOK, LoggedPairsHaveOutput, MixedOnlyByCrash, memory
<1>4. FullOK'
  <2> SUFFICES ASSUME cmd = "full" PROVE FullOK'
    BY DEF GenerateReport, FullOK
  <2>1. plan = <<"report">>
    BY DEF GenerateReport, At, PlanOK, FullPlans
  <2>2. plan' = << >>
    BY <2>1, NextStage DEF GenerateReport
  <2>3. Matches(normalized) /\ Detects(normalized)
    BY <2>1 DEF FullOK
  <2>4. Matches(normalized)' /\ Detects(normalized)'
    BY <2>3 DEF Matches, Detects, OfThisRun, GenerateReport
  <2>5. normalized' = normalized /\ summary' = Metrics(normalized) /\ report' = summary'
    BY DEF GenerateReport
  <2>6. summary' = Metrics(normalized')
    BY <2>5
  <2> QED BY <1>0, <2>2, <2>4, <2>5, <2>6 DEF FullOK
<1> QED BY <1>1, <1>2, <1>3, <1>4, TypeFromDataNext

(* The process gives up or dies: nothing is left of what a full run has    *)
(* established.                                                            *)
LEMMA EndsEarly ==
  ASSUME plan' = << >>, cmd' = "none"
  PROVE  PlanOK' /\ FullOK'
BY OnlyFirstIsRun DEF PlanOK, OtherPlans, FullOK

LEMMA InputMissingStep ==
  ASSUME IInv, InputMissing
  PROVE  IInv'
<1> USE DEF IInv
<1>1. PlanOK' /\ FullOK'
  BY EndsEarly DEF InputMissing
<1>2. DataOK'
  BY DataFromType DEF InputMissing, DataOK, memory
<1>3. RunsOK' /\ RecordsOK' /\ LoggedPairsHaveOutput' /\ MixedOnlyByCrash'
  BY DEF InputMissing, RunsOK, RecordsOK, LoggedPairsHaveOutput, MixedOnlyByCrash, memory
<1> QED BY <1>1, <1>2, <1>3, TypeFromDataNext

LEMMA CrashStep ==
  ASSUME IInv, Crash
  PROVE  IInv'
<1> USE DEF IInv
<1>1. PlanOK' /\ FullOK'
  BY EndsEarly DEF Crash
<1>2. DataOK'
  BY DataFromType DEF Crash, DataOK
<1>3. RunsOK' /\ RecordsOK' /\ LoggedPairsHaveOutput' /\ MixedOnlyByCrash'
  BY DEF Crash, RunsOK, RecordsOK, LoggedPairsHaveOutput, MixedOnlyByCrash
<1> QED BY <1>1, <1>2, <1>3, TypeFromDataNext

LEMMA CrashInWriteStep ==
  ASSUME IInv, CrashInWrite
  PROVE  IInv'
<1> USE DEF IInv
<1>0. DataOK
  BY DataFromType
<1>1. PlanOK' /\ FullOK'
  BY EndsEarly DEF CrashInWrite
<1>2. RecordsOK'
  BY DEF CrashInWrite, RecordsOK
<1>3. CASE /\ At("run") /\ todo # << >>
           /\ raw' = [raw EXCEPT ![Head(todo)] =
                        [run |-> run, status |-> "error", detected |-> FALSE]]
           /\ dirty' = TRUE
           /\ UNCHANGED <<log, normalized>>
  <2> DEFINE p == Head(todo)
             torn == [run |-> run, status |-> "error", detected |-> FALSE]
  <2>1. p \in Pair
    BY <1>0, <1>3 DEF DataOK
  <2>2. run \in 1 .. MaxRuns
    <3>1. cmd \in {"full", "experiment"}
      BY <1>3 DEF At, PlanOK, OtherPlans
    <3> QED BY <3>1, <1>0 DEF RunsOK, DataOK
  <2>3. torn \in RawFile /\ torn # Absent /\ torn.run = run
    <3>1. torn \in RawFile /\ torn.run = run
      BY <2>2 DEF RawFile, Status
    <3> HIDE DEF torn
    <3> QED BY <3>1, EvalPipelineAssumption
  <2> HIDE DEF p, torn
  <2>4. /\ raw' = [raw EXCEPT ![p] = torn]
        /\ raw'[p] = torn
        /\ \A q \in Pair : q # p => raw'[q] = raw[q]
    BY <1>0, <1>3, <2>1 DEF DataOK, p, torn
  <2>5. DataOK'
    <3>1. raw' \in [Pair -> RawFile \union {Absent}]
      BY <1>0, <2>3, <2>4 DEF DataOK
    <3>2. todo' \in Seq(Pair) /\ records' \in Seq(LogRow)
      BY DEF CrashInWrite
    <3> QED BY <1>0, <1>3, <3>1, <3>2 DEF CrashInWrite, DataOK
  <2>6. RunsOK'
    BY <1>0, <2>2, <2>3, <2>4 DEF RunsOK, CrashInWrite, DataOK
  <2>7. LoggedPairsHaveOutput'
    <3> SUFFICES ASSUME NEW file \in {log, normalized}, file # Absent, NEW i \in DOMAIN file
                 PROVE  raw'[file[i].pair] # Absent /\ raw'[file[i].pair].run >= file[i].run
      BY <1>3 DEF LoggedPairsHaveOutput
    <3>1. file[i].pair \in Pair /\ file[i].run \in 1 .. MaxRuns
      <4>1. file \in Seq(LogRow) \/ file \in Seq(NormRow)
        BY <1>0 DEF DataOK
      <4>2. file[i] \in LogRow \/ file[i] \in NormRow
        BY <4>1
      <4> QED BY <4>2 DEF LogRow, NormRow
    <3>2. raw[file[i].pair] # Absent /\ raw[file[i].pair].run >= file[i].run
      BY DEF LoggedPairsHaveOutput
    <3>3. raw[file[i].pair].run <= run /\ raw[file[i].pair].run \in Nat
      BY <1>0, <3>1, <3>2 DEF RunsOK, DataOK, RawFile
    <3>4. run >= file[i].run
      BY <3>1, <3>2, <3>3, <2>2
    <3> QED BY <3>1, <3>2, <3>4, <2>3, <2>4
  <2>8. MixedOnlyByCrash'
    BY <1>3 DEF MixedOnlyByCrash
  <2> QED BY <1>1, <1>2, <2>5, <2>6, <2>7, <2>8, TypeFromDataNext
<1>4. CASE /\ At("log")
           /\ log' = << >>
           /\ dirty' = FALSE
           /\ UNCHANGED <<raw, normalized>>
  <2>1. DataOK'
    <3>1. todo' \in Seq(Pair) /\ records' \in Seq(LogRow) /\ log' \in Seq(LogRow)
      BY <1>4 DEF CrashInWrite
    <3> QED BY <1>0, <1>4, <3>1 DEF CrashInWrite, DataOK
  <2>2. RunsOK' /\ LoggedPairsHaveOutput' /\ MixedOnlyByCrash'
    BY <1>4 DEF RunsOK, LoggedPairsHaveOutput, MixedOnlyByCrash, CrashInWrite
  <2> QED BY <1>1, <1>2, <2>1, <2>2, TypeFromDataNext
<1>5. CASE /\ At("normalize") /\ log # Absent
           /\ normalized' = << >>
           /\ UNCHANGED <<raw, log, dirty>>
  <2>1. DataOK'
    <3>1. todo' \in Seq(Pair) /\ records' \in Seq(LogRow) /\ normalized' \in Seq(NormRow)
      BY <1>5 DEF CrashInWrite
    <3> QED BY <1>0, <1>5, <3>1 DEF CrashInWrite, DataOK
  <2>2. RunsOK' /\ LoggedPairsHaveOutput' /\ MixedOnlyByCrash'
    BY <1>5 DEF RunsOK, LoggedPairsHaveOutput, MixedOnlyByCrash, CrashInWrite
  <2> QED BY <1>1, <1>2, <2>1, <2>2, TypeFromDataNext
<1> QED BY <1>3, <1>4, <1>5 DEF CrashInWrite

LEMMA Stutter ==
  ASSUME IInv, UNCHANGED vars
  PROVE  IInv'
<1> USE DEF vars, IInv
<1>1. TypeOK' /\ PlanOK'
  BY DEF TypeOK, PlanOK
<1>2. RunsOK' /\ RecordsOK' /\ LoggedPairsHaveOutput' /\ MixedOnlyByCrash'
  BY DEF RunsOK, RecordsOK, LoggedPairsHaveOutput, MixedOnlyByCrash
<1>3. FullOK'
  BY DEF FullOK, Matches, Detects, OfThisRun
<1> QED BY <1>1, <1>2, <1>3

LEMMA IInvStep == IInv /\ [Next]_vars => IInv'
<1> SUFFICES ASSUME IInv, [Next]_vars PROVE IInv'
  OBVIOUS
<1>1. CASE Next
  BY <1>1, StartRunStep, StartCommandStep, RunPairStep, RunDoneStep, WriteLogStep,
     NormalizeStep, ComputeMetricsStep, GenerateReportStep, InputMissingStep, CrashStep,
     CrashInWriteStep
     DEF Next, Work
<1>2. CASE UNCHANGED vars
  BY <1>2, Stutter
<1> QED BY <1>1, <1>2

LEMMA Invariant == Spec => []IInv
<1> QED BY InitIInv, IInvStep, PTL DEF Spec

-----------------------------------------------------------------------------
(* The tables of a full run: the rows that metrics.py counts are one for   *)
(* each pair of the run, with the status and the detection of its output.  *)
LEMMA FullRunCounts == IInv => FullRunCountsItsOutputs
<1> SUFFICES ASSUME IInv, Idle, cmd = "full"
             PROVE  FullRunCountsItsOutputs
  BY DEF FullRunCountsItsOutputs
<1> USE DEF IInv
<1> DEFINE kept == LastRows(normalized)
           of(t) == {r \in kept : r.pair[2] = t}
           mine(t) == {p \in Pair : p[2] = t /\ raw[p] # Absent /\ raw[p].run = run}
<1>1. /\ normalized \in Seq(NormRow) /\ Matches(normalized) /\ Detects(normalized)
      /\ summary = Metrics(normalized) /\ report = summary
  BY DEF FullOK, Idle
<1>2. IsFiniteSet(kept) /\ kept \subseteq NormRow
  BY <1>1, LastRowsFinite
<1>3. ASSUME NEW r \in kept
      PROVE  /\ r.pair \in Pair /\ OfThisRun(r.pair)
             /\ r.status = raw[r.pair].status /\ r.detected = raw[r.pair].detected
  <2>1. PICK i \in DOMAIN normalized : IsLast(normalized, i) /\ r = normalized[i]
    BY LastRowsAre
  <2>2. r.pair \in Pair
    BY <1>2 DEF NormRow
  <2> QED BY <1>1, <2>1, <2>2 DEF Matches, Detects
<1>4. ASSUME NEW p \in Pair, OfThisRun(p)
      PROVE  \E r \in kept : r.pair = p
  <2>1. PICK k \in DOMAIN normalized : normalized[k].pair = p
    BY <1>1, <1>4 DEF Matches
  <2>2. PICK i \in DOMAIN normalized : IsLast(normalized, i) /\ normalized[i].pair = p
    BY <1>1, <2>1, LastExists
  <2> QED BY <2>2, LastRowsAre
<1>5. \A r, s \in kept : r.pair = s.pair => r = s
  BY <1>1, OneRowPerPair
<1> HIDE DEF kept
<1>6. ASSUME NEW t, NEW S, NEW U,
             S \subseteq of(t), U \subseteq mine(t),
             \A r \in of(t) : r \in S <=> r.pair \in U
      PROVE  Cardinality(S) = Cardinality(U)
  <2>1. IsFiniteSet(S)
    BY <1>2, <1>6, FS_Subset
  <2>2. \A r, s \in S : r.pair = s.pair => r = s
    BY <1>5, <1>6
  <2>3. \A r \in S : r.pair \in U
    BY <1>6
  <2>4. \A p \in U : \E r \in S : r.pair = p
    BY <1>4, <1>6 DEF OfThisRun
  <2> QED BY <2>1, <2>2, <2>3, <2>4, SameCount
<1>7. ASSUME NEW t
      PROVE  /\ Cardinality({r \in of(t) : r.status = "success"}) =
                  Cardinality({p \in mine(t) : raw[p].status = "success"})
             /\ Cardinality({r \in of(t) : r.detected}) =
                  Cardinality({p \in mine(t) : raw[p].detected})
             /\ Cardinality(of(t)) = Cardinality(mine(t))
  <2>0. \A r \in of(t) : r.pair \in mine(t)
    BY <1>3 DEF OfThisRun
  <2>1. Cardinality({r \in of(t) : r.status = "success"}) =
          Cardinality({p \in mine(t) : raw[p].status = "success"})
    <3> DEFINE S == {r \in of(t) : r.status = "success"}
               U == {p \in mine(t) : raw[p].status = "success"}
    <3>1. S \subseteq of(t) /\ U \subseteq mine(t) /\ \A r \in of(t) : r \in S <=> r.pair \in U
      BY <1>3, <2>0
    <3> HIDE DEF S, U, of, mine
    <3>2. Cardinality(S) = Cardinality(U)
      BY <3>1, <1>6
    <3> QED BY <3>2 DEF S, U
  <2>2. Cardinality({r \in of(t) : r.detected}) =
          Cardinality({p \in mine(t) : raw[p].detected})
    <3> DEFINE S == {r \in of(t) : r.detected}
               U == {p \in mine(t) : raw[p].detected}
    <3>1. S \subseteq of(t) /\ U \subseteq mine(t) /\ \A r \in of(t) : r \in S <=> r.pair \in U
      BY <1>3, <2>0
    <3> HIDE DEF S, U, of, mine
    <3>2. Cardinality(S) = Cardinality(U)
      BY <3>1, <1>6
    <3> QED BY <3>2 DEF S, U
  <2>3. Cardinality(of(t)) = Cardinality(mine(t))
    <3> HIDE DEF of, mine
    <3> QED BY <2>0, <1>6
  <2> QED BY <2>1, <2>2, <2>3
<1>8. DOMAIN summary = {t \in Tool : mine(t) # {}}
  <2>1. DOMAIN summary = {r.pair[2] : r \in kept}
    BY <1>1 DEF Metrics, kept
  <2>2. ASSUME NEW r \in kept
        PROVE  r.pair[2] \in Tool /\ r.pair \in mine(r.pair[2])
    BY <1>3 DEF Pair, OfThisRun
  <2>3. ASSUME NEW t \in Tool, NEW p \in mine(t)
        PROVE  \E r \in kept : r.pair[2] = t
    BY <1>4 DEF OfThisRun
  <2> QED BY <2>1, <2>2, <2>3
<1>9. ASSUME NEW t \in DOMAIN summary
      PROVE  summary[t] = [success  |-> Cardinality({p \in mine(t) : raw[p].status = "success"}),
                           detected |-> Cardinality({p \in mine(t) : raw[p].detected}),
                           observed |-> Cardinality(mine(t))]
  <2>1. summary[t] = [success  |-> Cardinality({r \in of(t) : r.status = "success"}),
                      detected |-> Cardinality({r \in of(t) : r.detected}),
                      observed |-> Cardinality(of(t))]
    BY <1>1 DEF Metrics, kept
  <2> QED BY <2>1, <1>7
<1> QED BY <1>1, <1>8, <1>9 DEF FullRunCountsItsOutputs

-----------------------------------------------------------------------------
(* Whatever is crashed, repeated or planned dry, the quantities of the     *)
(* pipeline keep their types.                                              *)
THEOREM TypeCorrect == Spec => []TypeOK
<1> QED BY Invariant, PTL DEF IInv

(* The files fit each other after any sequence of scripts and crashes      *)
(* (run_experiment.py, normalize.py): every row of the log and of the      *)
(* normalized table has its output, and rows and outputs of different runs *)
(* stand side by side only after a crash.                                  *)
THEOREM LogMatches == Spec => []LogMatchesOutput
<1>1. IInv => LogMatchesOutput
  BY DEF IInv, LogMatchesOutput
<1> QED BY <1>1, Invariant, PTL

(* A run of full_run.py that ends leaves tables behind that count exactly  *)
(* the outputs it has written: no case twice, none of an earlier run.      *)
THEOREM FullRunExact == Spec => []FullRunCountsItsOutputs
<1> QED BY FullRunCounts, Invariant, PTL

=============================================================================
