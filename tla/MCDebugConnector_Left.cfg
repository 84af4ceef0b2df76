SPECIFICATION Spec
CONSTANTS
  Composites <- Several
  UserCommand = {"resume"}
  Ends = {}
  Restart = "clean"
  MaxEvents = 2
  MaxId = 5
  MaxConnections = 1
INVARIANT NoEventEverLeft
CHECK_DEADLOCK FALSE
