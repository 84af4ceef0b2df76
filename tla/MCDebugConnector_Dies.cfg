SPECIFICATION FairSpec
CONSTANTS
  Composites <- Several
  UserCommand = {"query"}
  Ends = {"exit"}
  Restart = "clean"
  MaxEvents = 2
  MaxId = 5
  MaxConnections = 1
PROPERTY RequestAlwaysReturns
CHECK_DEADLOCK FALSE
