SPECIFICATION Spec
CONSTANTS
  Absent = Absent
  Case = {"c1"}
  Tool = {"rudra", "mirchecker"}
  Outcomes <- TwoOutcomes
  MaxSelected = 2
  MaxRuns = 2
INVARIANTS
  LogMatchesOutput
  FullRunCountsItsOutputs
PROPERTIES
  Finishes
CHECK_DEADLOCK FALSE
