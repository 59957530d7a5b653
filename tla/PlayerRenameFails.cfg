CONSTANTS
  t1 = t1
  t2 = t2
  a1 = a1
  a2 = a2
  i1 = i1
  i2 = i2
  Tables = {t1, t2}
  Aux = {a1, a2}
  Intros = {i1, i2}
SPECIFICATION RenameSpec
SYMMETRY Symmetry
INVARIANTS FailureLeavesOld
CHECK_DEADLOCK FALSE
