SPECIFICATION Spec
CONSTANTS
  ListIds = {l1, l2}
  Registry = registry
  Nodes = {n1, n2, n3, n4}
  Values = {a}
  Iterators = {}
  NULL = null
  SizeMod = 8
SYMMETRY ListSymmetry
PROPERTY ResetsOnlyItsOwnLoop
