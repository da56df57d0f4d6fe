------------------------------ MODULE Ablation ------------------------------
(***************************************************************************)
(* Invocations of src/scripts/run_ablation.py: the cases of a batch are    *)
(* named on the command line (--case-ids) or drawn by the sampling, from   *)
(* the whole inventory or from the cases that run on this host.            *)
(***************************************************************************)
EXTENDS AblationBatch

CONSTANTS
  NumScenarios, \* length of SCENARIOS
  MaxCases,     \* cases of a scenario in the inventories that are only sampled (bound)
  MaxSample     \* --n (bound)

VARIABLES
  pool, \* cases that are drawn from; none for an inventory that is only sampled
  available, target, quotas, remaining, next, step

sampling == <<pool, available, target, quotas, remaining, next, step>>

Sampling == INSTANCE AblationSampling WITH pc <- step

ASSUME AblationAssumption ==
  /\ ScenarioOf \in [Case -> 1 .. NumScenarios]
  /\ NumScenarios \in Nat /\ MaxCases \in Nat /\ MaxSample \in Nat

InScenario(cases, s) == {c \in cases : ScenarioOf[c] = s}

AblationInit ==
  /\ Init
  /\ Sampling!Init
  /\ pool = {}

(* resolve_case_ids: as on the command line, a case may come twice.        *)
SelectByIds ==
  /\ step = "idle"
  /\ \E n \in 1 .. MaxSelected, dryRun \in BOOLEAN : \E ids \in [1 .. n -> Case] :
       Select(ids, dryRun)
  /\ UNCHANGED sampling

Sizes(cases) == [s \in 1 .. NumScenarios |-> Cardinality(InScenario(cases, s))]

(* pick_sample: --sample-scope all or runnable.                            *)
DrawSample ==
  /\ pc = "idle" /\ run < MaxRuns
  /\ pool' \in {Case, supported}
  /\ \E n \in 1 .. MaxSelected : Sampling!Start(Sizes(pool'), n)
  /\ UNCHANGED vars

(* Every other inventory is followed to its quotas only, and, since the    *)
(* sampling reads nothing but the pool, on one host before any batch.      *)
SampleInventory ==
  /\ step = "idle"
  /\ run = 0 /\ host = "windows" /\ cargo /\ supported = Case
  /\ \E sizes \in [1 .. NumScenarios -> 0 .. MaxCases], n \in 1 .. MaxSample :
       Sampling!Start(sizes, n)
  /\ pool' = {}
  /\ UNCHANGED vars

AllocateStrata ==
  /\ Sampling!Allocate
  /\ UNCHANGED <<vars, pool>>

(* candidates[: quota] of each scenario, shuffled, one scenario after the  *)
(* other.                                                                  *)
Picked(ids) ==
  /\ \A i, j \in DOMAIN ids : i < j => /\ ids[i] # ids[j]
                                       /\ ScenarioOf[ids[i]] <= ScenarioOf[ids[j]]
  /\ \A s \in 1 .. NumScenarios :
       Cardinality({i \in DOMAIN ids : ScenarioOf[ids[i]] = s}) =
         IF quotas[s] <= Sizes(pool)[s] THEN quotas[s] ELSE Sizes(pool)[s]

SelectSample ==
  /\ pool # {}
  /\ \E n \in 1 .. Cardinality(pool), dryRun \in BOOLEAN : \E ids \in [1 .. n -> pool] :
       Picked(ids) /\ Select(ids, dryRun)
  /\ Sampling!Return
  /\ pool' = {}

RunBatch == Batch /\ UNCHANGED sampling

AblationNext ==
  \/ SelectByIds
  \/ DrawSample \/ SampleInventory \/ AllocateStrata \/ SelectSample
  \/ RunBatch

AblationSpec == AblationInit /\ [][AblationNext]_<<vars, sampling>>

-----------------------------------------------------------------------------
(* The quotas ask for the whole sample and never for more cases than a     *)
(* stratum has (allocate_strata).                                          *)
QuotasFillTheSample == Sampling!QuotasFillTheSample

(* When the sample is large enough no stratum that has cases is left out.  *)
EveryStratumServed == Sampling!EveryStratumServed

(* The sample stays proportional to the strata.                            *)
Proportional == Sampling!Proportional

(* The quantities of the sampling stay in their ranges.                    *)
SamplingTypeOK == Sampling!TypeOK /\ pool \subseteq Case

(* The sample is as the script promises: filled, with every stratum served,*)
(* and proportional (allocate_strata).                                     *)
SampleIsFair ==
  /\ SamplingTypeOK
  /\ QuotasFillTheSample
  /\ EveryStratumServed
  /\ Proportional
=============================================================================
