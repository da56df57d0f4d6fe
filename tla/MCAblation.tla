----------------------------- MODULE MCAblation -----------------------------
(* Instances of Ablation for TLC.                                          *)
EXTENDS Ablation

MCScenarioOf == [c \in Case |-> IF c = "panic_guard" THEN 1 ELSE 2]

Plain(x) ==
  [timeout |-> FALSE, exit |-> x, panic |-> FALSE, memory |-> FALSE, build |-> FALSE,
   bin |-> "not_asked", output |-> TRUE]

(* A panic that unwinds and a timeout with output.  The classification of  *)
(* all outcomes is checked in each state with a command to run.            *)
FewOutcomes ==
  {[Plain("101") EXCEPT !.panic = TRUE], [Plain("-1") EXCEPT !.timeout = TRUE]}

AllOutcomes == Outcome
=============================================================================
