SPECIFICATION Spec
CONSTANTS
  Composites <- Several
  UserCommand = {"resume"}
  Ends = {}
  Restart = "any"
  MaxEvents = 2
  MaxId = 5
  MaxConnections = 2
INVARIANT OnlyThisVM
CHECK_DEADLOCK FALSE
