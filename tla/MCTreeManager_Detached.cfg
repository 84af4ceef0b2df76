SPECIFICATION Spec
CONSTANTS
  top = top
  one = one
  two = two
  three = three
  v1 = v1
  v2 = v2
  NoNode = NoNode
  Node = {top, one, two}
  Value = {v1, v2}
  Root = top
  Unit = {}
  ListNode = {top, one}
  FieldNode = {two}
  Initial <- DeepTree
  UndoLimit = 1
  Client = {"detached"}
  MaxMacro = 3
  MaxRevision = 3
INVARIANT HistoryRestored
