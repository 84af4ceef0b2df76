SPECIFICATION FairSpec
CONSTANTS
  Composites <- Several
  UserCommand = {"query", "suspend", "resume", "step"}
  Ends = {"exit", "crash"}
  Restart = "clean"
  MaxEvents = 3
  MaxId = 7
  MaxConnections = 2
INVARIANTS
  ResumesItsOwn
  EventsInOrder
  RepliesExpected
  NoEventForReply
PROPERTIES
  RequestReturns
  EventsHandled
CHECK_DEADLOCK FALSE
