SPECIFICATION WalkSpec
CONSTANTS
  Large = 7
  Functions <- All
  InitVals <- Start
  WideningDelay = 1
  NarrowingIteration = 2
  Schedule <- Wto
INVARIANTS
  IterationOK
  Sound
PROPERTIES
  WalkEnds
CHECK_DEADLOCK FALSE
