SPECIFICATION Spec
CONSTANTS
  Node <- Statements
  Class = {"A", "B"}
  Location <- Statements
  ClassOf <- ClassOfStatement
  LocationOf <- LineOfStatement
  References <- BothClasses
  Acts = {"toggle", "probe", "go"}
  MaxBreakpoints = 3
  MaxSessions = 1
INVARIANT EventKnown
CHECK_DEADLOCK FALSE
