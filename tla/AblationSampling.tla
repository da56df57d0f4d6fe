------------------------- MODULE AblationSampling -------------------------
(***************************************************************************)
(* The stratified sampling of src/scripts/run_ablation.py (pick_sample and *)
(* allocate_strata): how many cases of each scenario are drawn.  The       *)
(* sample is shared out in proportion to the size of the strata, what      *)
(* rounding left over goes to the largest remainders, and strata that got  *)
(* nothing take one case each from the best served stratum.                *)
(***************************************************************************)
EXTENDS Naturals, FiniteSets, FiniteSetsExt, Sums

CONSTANT NumScenarios \* length of SCENARIOS (four in the code)

Scenario == 1 .. NumScenarios

Total(q) == SeqSum(q)

VARIABLES
  available, \* cases of each scenario in the pool
  target,    \* min(sample_size, total_available)
  quotas,
  remaining, \* left over after rounding down
  next,      \* scenario the last loop looks at
  pc

vars == <<available, target, quotas, remaining, next, pc>>

Nonempty == {s \in Scenario : available[s] > 0}

(* target * size / total_available, its integer part and its remainder     *)
(* (in units of 1 / total_available).                                      *)
Base(s)      == (target * available[s]) \div Total(available)
Remainder(s) == (target * available[s]) % Total(available)

TypeOK ==
  /\ available \in [Scenario -> Nat]
  /\ target \in 0 .. Total(available)
  /\ quotas \in [Scenario -> Nat]
  /\ remaining \in 0 .. NumScenarios
  /\ next \in 1 .. NumScenarios + 1
  /\ pc \in {"idle", "round_down", "left_over", "fill", "done"}

Init ==
  /\ available = [s \in Scenario |-> 0]
  /\ target = 0
  /\ quotas = [s \in Scenario |-> 0]
  /\ remaining = 0
  /\ next = 1
  /\ pc = "idle"

(* An empty pool is an error.                                              *)
Start(pool, sample_size) ==
  /\ pc = "idle"
  /\ Total(pool) > 0
  /\ available' = pool
  /\ target' = Min({sample_size, Total(pool)})
  /\ pc' = "round_down"
  /\ UNCHANGED <<quotas, remaining, next>>

RoundDown ==
  /\ pc = "round_down"
  /\ quotas' = [s \in Scenario |-> Min({Base(s), available[s]})]
  /\ remaining' = target - Total(quotas')
  /\ pc' = "left_over"
  /\ UNCHANGED <<available, target, next>>

(* One more for the strata with the largest remainders.  Equal remainders  *)
(* are told apart by floating-point noise or by size and name: any order.  *)
LeftOver ==
  /\ pc = "left_over"
  /\ LET open == {s \in Nonempty : quotas[s] < available[s]}
     IN \E lucky \in SUBSET open :
          /\ Cardinality(lucky) = Min({remaining, Cardinality(open)})
          /\ \A s \in lucky, t \in open \ lucky : Remainder(s) >= Remainder(t)
          /\ quotas' = [s \in Scenario |-> quotas[s] + IF s \in lucky THEN 1 ELSE 0]
          /\ remaining' = remaining - Cardinality(lucky)
  /\ pc' = "fill"
  /\ UNCHANGED <<available, target, next>>

(* max(donors, key=(quotas, available, name))                              *)
BetterServed(s, t) ==
  \/ quotas[s] > quotas[t]
  \/ quotas[s] = quotas[t] /\ available[s] > available[t]
  \/ quotas[s] = quotas[t] /\ available[s] = available[t] /\ s >= t

(* Slip: a donor must keep two cases.                                      *)
RichDonors == {d \in Nonempty : quotas[d] > 2 /\ quotas[d] <= available[d]}

Donors == {d \in Nonempty : quotas[d] > 1 /\ quotas[d] <= available[d]}

(* One iteration of the loop over the strata that must not stay empty.     *)
Fill ==
  /\ pc = "fill"
  /\ next <= NumScenarios
  /\ next' = next + 1
  /\ IF /\ target >= Cardinality(Nonempty)
        /\ next \in Nonempty /\ quotas[next] = 0
        /\ Donors # {}
     THEN \E donor \in Donors :
            /\ \A d \in Donors : BetterServed(donor, d)
            /\ quotas' = [quotas EXCEPT ![donor] = @ - 1, ![next] = @ + 1]
     ELSE UNCHANGED quotas
  /\ UNCHANGED <<available, target, remaining, pc>>

Filled ==
  /\ pc = "fill"
  /\ next > NumScenarios
  /\ pc' = "done"
  /\ UNCHANGED <<available, target, quotas, remaining, next>>

Allocate == RoundDown \/ LeftOver \/ Fill \/ Filled

(* The quotas are read and the function returns.                           *)
Return ==
  /\ pc = "done"
  /\ available' = [s \in Scenario |-> 0]
  /\ target' = 0
  /\ quotas' = [s \in Scenario |-> 0]
  /\ remaining' = 0
  /\ next' = 1
  /\ pc' = "idle"

-----------------------------------------------------------------------------
(* The quotas ask for the whole sample and never for more cases than a     *)
(* stratum has, so that `candidates[: quota]` is never cut short.          *)
QuotasFillTheSample ==
  pc \in {"fill", "done"} =>
    /\ Total(quotas) = target
    /\ \A s \in Scenario : quotas[s] <= available[s]

(* When the sample is large enough no stratum that has cases is left out:  *)
(* a donor is found for every one of them.                                 *)
EveryStratumServed ==
  pc = "done" /\ target >= Cardinality(Nonempty) =>
    \A s \in Nonempty : quotas[s] > 0

(* The sample stays proportional: before strata are filled up each quota   *)
(* is its exact share rounded up or down and a larger stratum gets at      *)
(* least as much as a smaller one; at the end it is at most one behind.    *)
Proportional ==
  /\ pc = "fill" /\ next = 1 =>
       \A s, t \in Scenario :
         /\ quotas[s] \in {Base(s), Base(s) + 1}
         /\ available[s] > available[t] => quotas[s] >= quotas[t]
  /\ pc = "done" =>
       \A s, t \in Scenario : available[s] > available[t] => quotas[s] + 1 >= quotas[t]
=============================================================================
