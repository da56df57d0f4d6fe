SPECIFICATION AblationSpec
CONSTANTS
  Absent = Absent
  All = All
  Case = {"panic_guard", "uaf"}
  ScenarioOf <- MCScenarioOf
  Outcomes <- FewOutcomes
  MaxSelected = 2
  MaxRuns = 2
  NumScenarios = 4
  MaxCases = 7
  MaxSample = 12
INVARIANTS
  SampleIsFair
  PublishedOK
  TriggeredMatchesKind
CHECK_DEADLOCK FALSE
