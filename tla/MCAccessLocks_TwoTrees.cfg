SPECIFICATION Spec
CONSTANTS
  m1 = m1
  m2 = m2
  u1 = u1
  u2 = u2
  a = a
  b = b
  c = c
  d = d
  NoThread = NoThread
  NoLock = NoLock
  Thread = {a, b, c, d}
  Manager = {m1, m2}
  Unit = {u1, u2}
  ManagerOf <- TwoTrees
  Writer = {a, b}
  LocalReader = {c, d}
  GlobalReader = {}
  Interruptible = {}
  Nested = FALSE
  MaxReads = 2
INVARIANT NoDeadlock
CHECK_DEADLOCK FALSE
