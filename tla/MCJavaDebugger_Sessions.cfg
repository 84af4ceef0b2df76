SPECIFICATION Spec
CONSTANTS
  Node <- Statements
  Class = {"A", "B"}
  Location <- Statements
  ClassOf <- ClassOfStatement
  LocationOf <- LineOfStatement
  References <- BothClasses
  Acts = {"toggle", "probe", "track", "go", "step"}
  MaxBreakpoints = 3
  MaxSessions = 2
INVARIANTS
  SetIsKnown
  EachOnce
  WaitsForClass
  EventKnownAtRest
PROPERTY UserStops
CHECK_DEADLOCK FALSE
