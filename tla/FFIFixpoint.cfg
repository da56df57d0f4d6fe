SPECIFICATION MCSpec
CONSTANTS
  NumBlocks = 3
  Fact = {"lent", "given"}
  Transfer <- Sample
  MaxIteration = 22
  None = None
  Graphs <- Connected
  Entry <- Constant
INVARIANTS
  FixedPointReached
  NothingInvented
  StepsAreBounded
PROPERTIES
  Terminates
CHECK_DEADLOCK FALSE
