SPECIFICATION Spec
CONSTANTS
  Node <- Statements
  Class = {"A", "B"}
  Location <- Statements
  ClassOf <- ClassOfStatement
  LocationOf <- LineOfStatement
  References <- BothClasses
  Acts = {"toggle", "probe"}
  MaxBreakpoints = 2
  MaxSessions = 1
INVARIANT BreakpointsBacked
CHECK_DEADLOCK FALSE
