SPECIFICATION Spec
CONSTANTS
  Composites <- StopAndProbe
  UserCommand = {}
  Ends = {}
  Restart = "clean"
  MaxEvents = 2
  MaxId = 5
  MaxConnections = 1
PROPERTY AllAgree
CHECK_DEADLOCK FALSE
