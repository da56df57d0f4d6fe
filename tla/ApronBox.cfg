CONSTANTS
  Window <- Reach
  Ops <- Calls
  MaxCalls = 2
SPECIFICATION Spec
INVARIANTS
  BoxOK
  AnswersAreSound
PROPERTIES
  Collects
  WideningLosesABound
CHECK_DEADLOCK FALSE
