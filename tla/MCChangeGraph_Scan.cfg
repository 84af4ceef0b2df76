SPECIFICATION Spec
CONSTANTS
  root = root
  a = a
  b = b
  c = c
  u = u
  v = v
  none = none
  absent = absent
  Id = {a, b, c}
  RootId = root
  Label = {0, 1}
  Content = {u, v}
  NoContent = none
  Absent = absent
  MaxMoved = 3
  MaxChanged = 4
  MaxEdited = 1
  Bases <- OneBase
  Inputs <- MCInputs
INVARIANT ScanEnds
CHECK_DEADLOCK FALSE
