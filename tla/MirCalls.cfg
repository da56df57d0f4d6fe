CONSTANTS
  Fn = {"main", "f", "g"}
  External = {"ext"}
  Entry = "main"
  Programs <- AllPrograms
  Options <- AllOptions
  MaxRounds = 2
  MaxDepth = 5
SPECIFICATION Spec
INVARIANTS
  LateDropsAreReported
  NothingLost
  OneContextIsClean
PROPERTIES
  OffsetsAreFresh
  AnalysisEnds
CHECK_DEADLOCK FALSE
