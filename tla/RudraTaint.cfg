SPECIFICATION MCSpec
CONSTANTS
  NumBlocks = 3
  Flag = {"vec_set_len", "read_flow"}
  High = {"vec_set_len"}
  Med = {"read_flow"}
  Sensitivity = 1
INVARIANTS
  TaintIsExact
  ResultExact
PROPERTIES
  Terminates
CHECK_DEADLOCK FALSE
