SPECIFICATION Spec
CONSTANTS
  top = top
  one = one
  two = two
  three = three
  v1 = v1
  v2 = v2
  NoNode = NoNode
  Node = {top, one, two}
  Value = {v1}
  Root = top
  Unit = {}
  ListNode = {top, one}
  FieldNode = {}
  Initial <- ListTree
  UndoLimit = 2
  Client = {"move", "close"}
  MaxMacro = 4
  MaxRevision = 4
INVARIANT NoUseAfterDelete
CHECK_DEADLOCK FALSE
