SPECIFICATION Spec
CONSTANTS
  top = top
  one = one
  two = two
  three = three
  v1 = v1
  v2 = v2
  NoNode = NoNode
  Node = {top, one, two, three}
  Value = {v1}
  Root = top
  Unit = {one}
  ListNode = {one, two}
  FieldNode = {}
  Initial <- PartsTree
  UndoLimit = 1
  Client = {"close", "build"}
  MaxMacro = 2
  MaxRevision = 2
INVARIANTS
  NoUseAfterDelete
  NothingDangles
  NoLeak
CHECK_DEADLOCK FALSE
