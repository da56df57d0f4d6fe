-------------------------- MODULE MCRudraCampaign --------------------------
(* Instances of RudraCampaign for TLC.                                     *)
EXTENDS RudraCampaign

MCTargets == <<"lib", "bin">>
=============================================================================
