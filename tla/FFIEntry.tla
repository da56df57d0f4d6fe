------------------------------ MODULE FFIEntry ------------------------------
(***************************************************************************)
(* One FFIChecker case, run after run: the runner stages a copy of the     *)
(* case (src/eval/runners/base.py), the script cleans it, cargo-ffi-checker *)
(* has cargo compile each target with the entry collector in the place of  *)
(* rustc, lists the bitcode, and starts the analyzer, which reads what the *)
(* collectors left in target/entry_points.                                 *)
(*                                                                         *)
(* Cargo compiles the units of a target side by side, after the units they *)
(* depend on, and skips the ones that are fresh.  The user may edit the    *)
(* case, and the machine may stop, at any moment; what is on disk stays.   *)
(* The code of a unit is in one child of the case; contents are version    *)
(* numbers.                                                                *)
(***************************************************************************)
EXTENDS Integers, Sequences, FiniteSets

CONSTANTS
  Children,        \* the files and directories at the top of the case
  Targets,         \* the library and the binaries, as cargo metadata lists them
  Dependencies,    \* the other crates of the case
  Child,           \* Child[u]: where the code of a unit is
  CrateName,       \* CrateName[u]: the name of its crate
  DependsOn,       \* DependsOn[u]: the units it is compiled after
  Public,          \* Public[u]: its public functions, main for a binary
  Foreign,         \* Foreign[u]: the functions of other languages it declares
  PublicForeign,   \* PublicForeign[u]: those that are public
  Missing,         \* no copy
  MaxRuns, MaxEdits

TopUnits == {Targets[k] : k \in DOMAIN Targets}
Units == TopUnits \union Dependencies

ASSUME FFIEntryAssumption ==
  /\ MaxRuns \in Nat /\ MaxEdits \in Nat
  /\ Len(Targets) \in Nat /\ DOMAIN Targets = 1 .. Len(Targets)
  /\ \A u \in Units : Child[u] \in Children /\ PublicForeign[u] \subseteq Foreign[u]
  /\ Missing \notin Nat

(* The units a unit is compiled from: itself and all it depends on.        *)
DownwardClosed(S) == \A u \in S : DependsOn[u] \subseteq S

Closure ==
  [t \in Units |-> {u \in Units : \A S \in SUBSET Units : t \in S /\ DownwardClosed(S) => u \in S}]

(* Of cargo: dependencies have no cycle, and no target is listed after one *)
(* that depends on it, since the library comes first.                      *)
ASSUME CargoAssumption ==
  /\ \A u \in Units : DependsOn[u] \subseteq Units
  /\ \A S \in SUBSET Units : S # {} => \E u \in S : DependsOn[u] \intersect S = {}
  /\ \A i, j \in DOMAIN Targets : i < j => Targets[j] \notin Closure[Targets[i]]

VARIABLES
  source,   \* the case: the version of each child
  staged,   \* the copy: the version of each child
  built,    \* target/: the code each unit in it was compiled from
  entries,  \* target/entry_points: the lines of each file that exists
  pc,       \* what the run is at
  todo,     \* the children that are still to be copied
  asked,    \* the case when the run began
  at,       \* the target that cargo is called for
  procs,    \* what the compilation of each unit is at
  runs, edits

disk == <<staged, built, entries>>
entryVars == <<source, staged, built, entries, pc, todo, asked, at, procs, runs, edits>>

-----------------------------------------------------------------------------
(* Cargo: what a unit is compiled from, and which units are fresh.         *)
CodeOf(u) == [c \in {Child[d] : d \in Closure[u]} |-> staged[c]]
Fresh(u)  == u \in DOMAIN built /\ built[u] = CodeOf(u)

Idle == [u \in Units |-> "idle"]
Busy == {"check", "create", "write", "compile"}

(* The state of a cargo command when it starts.                            *)
Called(t) ==
  [u \in Units |-> IF u \notin Closure[t] THEN "idle" ELSE IF Fresh(u) THEN "done" ELSE "waiting"]

-----------------------------------------------------------------------------
(* The lines the collector writes for a unit.  Only the crate whose name   *)
(* is that of the target is not a dependency (inside_cargo_rustc).         *)
Line(kind, f, u) == [kind |-> kind, function |-> f, unit |-> u, version |-> staged[Child[u]]]

IsDependency(u) == CrateName[u] # CrateName[Targets[at]]

PubFuncs(u) == (IF IsDependency(u) THEN {} ELSE Public[u]) \union PublicForeign[u]
LinesOf(u) ==
  {Line("Entry", f, u) : f \in PubFuncs(u)} \union {Line("FFI", f, u) : f \in Foreign[u]}

-----------------------------------------------------------------------------
EntryInit ==
  /\ source \in [Children -> {0}]
  /\ staged = [c \in Children |-> Missing]
  /\ built = << >> /\ entries = << >>
  /\ pc = "off" /\ todo = {} /\ asked = source /\ at = 0 /\ procs = Idle
  /\ runs = 0 /\ edits = 0

(* The user changes a child of the case.                                   *)
Edit(c) ==
  /\ edits < MaxEdits
  /\ source' = [source EXCEPT ![c] = @ + 1]
  /\ edits' = edits + 1
  /\ UNCHANGED <<disk, pc, todo, asked, at, procs, runs>>

(* FFICheckerRunner.run.                                                   *)
Begin ==
  /\ pc = "off" /\ runs < MaxRuns
  /\ pc' = "sync" /\ todo' = Children /\ asked' = source /\ runs' = runs + 1
  /\ UNCHANGED <<source, disk, at, procs, edits>>

(* Slip for SyncChild: a child that is there is left alone.                *)
SyncChildMissing(c) ==
  /\ pc = "sync" /\ c \in todo
  /\ staged' = [staged EXCEPT ![c] = IF @ = Missing THEN source[c] ELSE @]
  /\ todo' = todo \ {c}
  /\ UNCHANGED <<source, built, entries, pc, asked, at, procs, runs, edits>>

(* _sync_path: a child that is there is removed and copied again; the      *)
(* build directory is not touched.                                         *)
SyncChild(c) ==
  /\ pc = "sync" /\ c \in todo
  /\ staged' = [staged EXCEPT ![c] = source[c]]
  /\ todo' = todo \ {c}
  /\ UNCHANGED <<source, built, entries, pc, asked, at, procs, runs, edits>>

Synced ==
  /\ pc = "sync" /\ todo = {}
  /\ pc' = "clean"
  /\ UNCHANGED <<source, disk, todo, asked, at, procs, runs, edits>>

(* Slip for CargoClean: the build directory is kept.                       *)
CargoCleanNot ==
  /\ pc = "clean"
  /\ pc' = "next" /\ at' = 0
  /\ UNCHANGED <<source, disk, todo, asked, procs, runs, edits>>

(* The script runs cargo clean before the checker.                         *)
CargoClean ==
  /\ pc = "clean"
  /\ built' = << >> /\ entries' = << >>
  /\ pc' = "next" /\ at' = 0
  /\ UNCHANGED <<source, staged, todo, asked, procs, runs, edits>>

(* in_cargo_ffi_checker: cargo rustc for the next target.                  *)
CallCargo ==
  /\ pc = "next" /\ at < Len(Targets)
  /\ at' = at + 1 /\ procs' = Called(Targets[at + 1]) /\ pc' = "cargo"
  /\ UNCHANGED <<source, disk, todo, asked, runs, edits>>

(* Cargo starts a unit when the units it depends on are done, and none     *)
(* after an error.                                                         *)
CanStart(u) ==
  /\ procs[u] = "waiting"
  /\ \A d \in DependsOn[u] : procs[d] = "done"
  /\ \A v \in Units : procs[v] # "failed"

StartUnit(u) ==
  /\ pc = "cargo" /\ CanStart(u)
  /\ procs' = [procs EXCEPT ![u] = "check"]
  /\ UNCHANGED <<source, disk, pc, todo, asked, at, runs, edits>>

(* run_analysis: nothing is written for a crate without entries, or when   *)
(* the file of the crate exists.                                           *)
CheckFile(u) ==
  /\ procs[u] = "check"
  /\ procs' = [procs EXCEPT ![u] = IF PubFuncs(u) = {} \/ CrateName[u] \in DOMAIN entries
                                   THEN "compile" ELSE "create"]
  /\ UNCHANGED <<source, disk, pc, todo, asked, at, runs, edits>>

CreateFile(u) ==
  /\ procs[u] = "create"
  /\ entries' = [n \in DOMAIN entries \union {CrateName[u]} |->
                 IF n = CrateName[u] THEN {} ELSE entries[n]]
  /\ procs' = [procs EXCEPT ![u] = "write"]
  /\ UNCHANGED <<source, staged, built, pc, todo, asked, at, runs, edits>>

WriteLine(u) ==
  /\ procs[u] = "write"
  /\ IF LinesOf(u) \subseteq entries[CrateName[u]]
     THEN procs' = [procs EXCEPT ![u] = "compile"] /\ UNCHANGED entries
     ELSE /\ \E l \in LinesOf(u) \ entries[CrateName[u]] :
               entries' = [entries EXCEPT ![CrateName[u]] = @ \union {l}]
          /\ UNCHANGED procs
  /\ UNCHANGED <<source, staged, built, pc, todo, asked, at, runs, edits>>

(* The rest of the compilation, which may find an error.                   *)
Compile(u) ==
  /\ procs[u] = "compile"
  /\ \/ /\ procs' = [procs EXCEPT ![u] = "done"]
        /\ built' = [v \in DOMAIN built \union {u} |-> IF v = u THEN CodeOf(u) ELSE built[v]]
     \/ procs' = [procs EXCEPT ![u] = "failed"] /\ UNCHANGED built
  /\ UNCHANGED <<source, staged, entries, pc, todo, asked, at, runs, edits>>

(* Slip for CargoExit: cargo is waited for until every unit is done.       *)
CargoExitWhenDone ==
  /\ pc = "cargo"
  /\ \A u \in Units : procs[u] \in {"idle", "done"}
  /\ pc' = "next"
  /\ procs' = Idle
  /\ UNCHANGED <<source, disk, todo, asked, at, runs, edits>>

(* Cargo ends when nothing is running and nothing can be started; when it  *)
(* reports an error, so does cargo-ffi-checker, and the run is over.       *)
CargoExit ==
  /\ pc = "cargo"
  /\ \A u \in Units : procs[u] \notin Busy /\ ~CanStart(u)
  /\ pc' = IF \E u \in Units : procs[u] = "failed" THEN "off" ELSE "next"
  /\ procs' = Idle
  /\ UNCHANGED <<source, disk, todo, asked, at, runs, edits>>

(* generate_llvm_bitcode, which may fail, and then the analyzer.           *)
GenerateBitcode ==
  /\ pc = "next" /\ at = Len(Targets)
  /\ pc' \in {"analyze", "off"}
  /\ UNCHANGED <<source, disk, todo, asked, at, procs, runs, edits>>

Analyze ==
  /\ pc = "analyze"
  /\ pc' = "off"
  /\ UNCHANGED <<source, disk, todo, asked, at, procs, runs, edits>>

(* The machine stops, and the run with all its programs.                   *)
Kill ==
  /\ pc # "off"
  /\ pc' = "off" /\ todo' = {} /\ procs' = Idle
  /\ UNCHANGED <<source, disk, asked, at, runs, edits>>

Collector(u) == CheckFile(u) \/ CreateFile(u) \/ WriteLine(u) \/ Compile(u)

RunStep ==
  \/ \E c \in Children : SyncChild(c)
  \/ Synced \/ CargoClean \/ CallCargo \/ CargoExit \/ GenerateBitcode \/ Analyze
  \/ \E u \in Units : StartUnit(u) \/ Collector(u)

EntryNext == Begin \/ Kill \/ RunStep \/ \E c \in Children : Edit(c)

(* Each program of the run goes on until it ends.                          *)
EntrySpec == EntryInit /\ [][EntryNext]_entryVars /\ WF_entryVars(RunStep)

-----------------------------------------------------------------------------
Versions == 0 .. MaxEdits

EntryTypeOK ==
  /\ source \in [Children -> Versions] /\ asked \in [Children -> Versions]
  /\ staged \in [Children -> Versions \union {Missing}]
  /\ todo \subseteq Children /\ at \in 0 .. Len(Targets)
  /\ procs \in [Units -> Busy \union {"idle", "waiting", "done", "failed"}]
  /\ pc \in {"off", "sync", "clean", "next", "cargo", "analyze"}
  /\ pc # "cargo" => procs = Idle
  /\ pc # "sync" => todo = {}

(* What the checker compiles is the case as it was when the run began, or  *)
(* newer, although an earlier run may have stopped while it was copied     *)
(* (base.py:132-163).                                                      *)
StagedIsRecent ==
  pc \in {"clean", "next", "cargo", "analyze"} =>
    \A c \in Children : staged[c] # Missing /\ staged[c] >= asked[c]

(* The analyzer starts from the functions of the code that was compiled,   *)
(* although files of entry points are never replaced (callback.rs:138) and *)
(* earlier runs may have failed or stopped while writing them.             *)
EntriesAreCurrent ==
  pc = "analyze" =>
    \A n \in DOMAIN entries : \A l \in entries[n] : l.version = staged[Child[l.unit]]

(* "It will collect all the public functions and the main function (if the *)
(* crate is a binary), and the FFI functions" (cargo-ffi-checker.rs:287):  *)
(* those of every target have been collected when the analyzer starts.     *)
TopEntriesCollected ==
  pc = "analyze" =>
    \A u \in TopUnits :
      \A f \in Public[u] : \E n \in DOMAIN entries : \E l \in entries[n] :
        l.kind = "Entry" /\ l.function = f /\ l.unit = u

(* The analyzer only ever sees a case all of whose targets were compiled   *)
(* from the staged code.                                                   *)
AllIsBuilt == pc = "analyze" => \A t \in TopUnits : Fresh(t)

(* When the analyzer starts, everything it reads is of this build: all     *)
(* targets are compiled from the staged code, and their entry points are   *)
(* collected from the same code, neither missing nor old.                  *)
AnalysesThisBuild ==
  /\ EntryTypeOK
  /\ EntriesAreCurrent
  /\ AllIsBuilt
  /\ TopEntriesCollected

(* A run ends, whatever fails in it.                                       *)
RunsEnd == (pc # "off") ~> (pc = "off")
=============================================================================
