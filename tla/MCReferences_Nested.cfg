SPECIFICATION Spec
CONSTANTS
  root = root
  A = A
  B = B
  X = X
  Y = Y
  all = all
  one = one
  plain = plain
  prefix = prefix
  suffix = suffix
  a = a
  b = b
  x = x
  w = w
  z = z
  NoNode = NoNode
  Decl = {root, A, B, X, Y}
  Ref = {one, plain, prefix}
  Name = {a, b, x, w, z}
  Root = root
  Prefix <- NestedPrefix
  ImportOrder <- NestedOrder
  ImportAll = {}
  Cloned = {}
  InitParent <- NestedParents
  InitName <- NestedNames
  InitTarget <- NestedTargets
  NewNames <- NestedNewNames
  Movable = {}
  Homes = {}
  Asked = {one}
  MaxChanges = 2
  MaxSessions = 2
INVARIANTS
  TypeOK
  UnresolvedPending
  TargetsAreRight
PROPERTY AllResolved
