CONSTANTS
  Children <- AllChildren
  Targets <- AllTargets
  Dependencies <- Deps
  Child <- Where
  CrateName <- OwnNames
  DependsOn <- After
  Public <- Pub
  Foreign <- Ffi
  PublicForeign <- PubFfi
  Missing = Missing
  MaxRuns = 2
  MaxEdits = 2
SPECIFICATION EntrySpec
INVARIANTS
  StagedIsRecent
  AnalysesThisBuild
PROPERTIES
  RunsEnd
CHECK_DEADLOCK FALSE
