SPECIFICATION Spec
CONSTANTS
  m1 = m1
  m2 = m2
  u1 = u1
  u2 = u2
  a = a
  b = b
  c = c
  d = d
  NoThread = NoThread
  NoLock = NoLock
  Thread = {a, c}
  Manager = {m1}
  Unit = {u1, u2}
  ManagerOf <- OneTree
  Writer = {a}
  LocalReader = {c}
  GlobalReader = {}
  Interruptible = {c}
  Nested = FALSE
  MaxReads = 1
INVARIANT ReadersSignalled
