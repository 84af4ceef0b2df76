SPECIFICATION Spec
CONSTANTS
  Node <- Statements
  Class = {"A", "B"}
  Location <- Statements
  ClassOf <- ClassOfStatement
  LocationOf <- LineOfStatement
  References <- BothClasses
  Acts = {"track"}
  MaxBreakpoints = 2
  MaxSessions = 1
PROPERTY OverlayThere
CHECK_DEADLOCK FALSE
