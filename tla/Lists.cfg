SPECIFICATION Spec
CONSTANTS
  ListIds = {l1, l2}
  Registry = registry
  Nodes = {n1, n2, n3, n4, n5}
  Values = {a, b}
  Iterators = {i1, i2}
  NULL = null
  SizeMod = 8
SYMMETRY ListSymmetry
INVARIANTS HeapSound NoDanglingIterator LoopVisitsAll
PROPERTIES ImplementsListSpec
