SPECIFICATION BlockSpec
CONSTANTS
  NumNames = 3
  Dotted = {}
INVARIANTS
  OneAllocationPerVariable
  JoinIsFaithful
CHECK_DEADLOCK FALSE
