SPECIFICATION Spec
CONSTANTS
  root = root
  A = A
  B = B
  X = X
  Y = Y
  all = all
  one = one
  plain = plain
  prefix = prefix
  suffix = suffix
  a = a
  b = b
  x = x
  w = w
  z = z
  NoNode = NoNode
  Decl = {root, A, B, X, Y}
  Ref = {all, one, plain, prefix, suffix}
  Name = {a, b, x, w, z}
  Root = root
  Prefix <- PrefixOf
  ImportOrder <- Order
  ImportAll = {all}
  Cloned = {}
  InitParent <- Parents
  InitName <- Names
  InitTarget <- Targets
  NewNames <- ModuleNames
  Movable = {Y}
  Homes = {B}
  Asked = {}
  MaxChanges = 2
  MaxSessions = 1
INVARIANT RoundsAreEnough
CHECK_DEADLOCK FALSE
