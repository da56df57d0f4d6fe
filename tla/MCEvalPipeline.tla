-------------------------- MODULE MCEvalPipeline --------------------------
(* Instances of EvalPipeline for TLC.                                      *)
EXTENDS EvalPipeline

(* Two outcomes that differ in status and detection.                       *)
TwoOutcomes ==
  {[status |-> "success", detected |-> FALSE], [status |-> "timeout", detected |-> TRUE]}
=============================================================================
