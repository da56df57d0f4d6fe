SPECIFICATION CallsSpec
CONSTANTS
  Fn = {"f", "g", "h"}
  Body <- OneCall
  MaxDepth = 4
  NotCached = NotCached
INVARIANTS
  CallsOK
PROPERTIES
  CallsEnd
CHECK_DEADLOCK FALSE
