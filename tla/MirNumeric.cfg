CONSTANTS
  KeyOrder <- Names
  Window <- Reach
  Ops <- Calls
  MaxCalls = 2
SPECIFICATION Spec
INVARIANTS
  LatticeOK
PROPERTIES
  Collects
  OthersKept
CHECK_DEADLOCK FALSE
