SPECIFICATION Spec
CONSTANTS
  top = top
  one = one
  two = two
  three = three
  v1 = v1
  v2 = v2
  NoNode = NoNode
  Node = {top, one, two}
  Value = {v1}
  Root = top
  Unit = {one}
  ListNode = {top, one}
  FieldNode = {two}
  Initial <- ListTree
  UndoLimit = 2
  Client = {"move"}
  MaxMacro = 2
  MaxRevision = 2
INVARIANTS
  TypeOK
  HistoryRestored
  TreeWellFormed
  TargetLocked
PROPERTIES
  EditsUnderLock
  IdsStay
  ChangesReported
CHECK_DEADLOCK FALSE
