SPECIFICATION Spec
CONSTANTS
  root = root
  A = A
  B = B
  X = X
  Y = Y
  all = all
  one = one
  plain = plain
  prefix = prefix
  suffix = suffix
  a = a
  b = b
  x = x
  w = w
  z = z
  NoNode = NoNode
  Decl = {root, A, B, X, Y}
  Ref = {all, one, plain, prefix, suffix}
  Name = {a, b, x, w, z}
  Root = root
  Prefix <- PrefixOf
  ImportOrder <- Order
  ImportAll = {all}
  Cloned = {}
  InitParent <- Parents
  InitName <- Names
  InitTarget <- Targets
  NewNames <- FewNames
  Movable = {Y}
  Homes = {A}
  Asked = {one}
  MaxChanges = 2
  MaxSessions = 1
INVARIANTS
  TargetsAreRight
PROPERTIES
  AllResolved
  ResolvingEnds
