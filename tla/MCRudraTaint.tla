--------------------------- MODULE MCRudraTaint ---------------------------
(* Instances of RudraTaint for TLC.                                        *)
EXTENDS RudraTaint

(* One representative of the terminators the marking loop ignores is       *)
(* enough: they leave the same state behind.                               *)
Representative(t) ==
  /\ t.call \in {"bypass", "generic", "no_call"}
  /\ t.call = "bypass" /\ t.exempt => t.flag \in High

MCInit == Init /\ \A n \in Node : Representative(term[n])
MCSpec == MCInit /\ [][Next]_vars /\ WF_vars(Next)
=============================================================================
