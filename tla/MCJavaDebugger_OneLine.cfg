SPECIFICATION Spec
CONSTANTS
  Node <- Statements
  Class = {"A", "B"}
  Location <- Statements
  ClassOf <- ClassOfStatement
  LocationOf <- LineOfClass
  References <- BothClasses
  Acts = {"toggle", "probe", "go"}
  MaxBreakpoints = 2
  MaxSessions = 1
PROPERTY UserStops
CHECK_DEADLOCK FALSE
