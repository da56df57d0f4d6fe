--------------------------- MODULE MCFFISummary ---------------------------
(* Small programs for FFISummary.                                          *)
EXTENDS FFISummary

(* Bodies with at most one call, alone, after something that changes the   *)
(* argument, or before something that changes the result.                  *)
OneCall ==
  {<< >>} \union {<<s>> : s \in Change \union Fn}
    \union ({"borrow", "forget"} \X Fn) \union (Fn \X Change)
=============================================================================
