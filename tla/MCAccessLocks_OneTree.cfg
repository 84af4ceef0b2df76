SPECIFICATION FairSpec
CONSTANTS
  m1 = m1
  m2 = m2
  u1 = u1
  u2 = u2
  a = a
  b = b
  c = c
  d = d
  NoThread = NoThread
  NoLock = NoLock
  Thread = {a, b, c}
  Manager = {m1}
  Unit = {u1, u2}
  ManagerOf <- OneTree
  Writer = {a, b}
  LocalReader = {a, b, c}
  GlobalReader = {a, b, c}
  Interruptible = {c}
  Nested = FALSE
  MaxReads = 2
INVARIANTS
  TypeOK
  WritesAlone
  ReadersRegistered
  NoDeadlock
PROPERTIES
  ModesSpec
  SessionGetsUnit
  SessionBegins
