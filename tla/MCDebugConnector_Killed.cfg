SPECIFICATION Spec
CONSTANTS
  Composites <- Several
  UserCommand = {}
  Ends = {"crash"}
  Restart = "clean"
  MaxEvents = 2
  MaxId = 5
  MaxConnections = 1
INVARIANT VmAliveTrue
CHECK_DEADLOCK FALSE
