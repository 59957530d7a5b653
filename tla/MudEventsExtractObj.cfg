SPECIFICATION Spec
CONSTANTS
  Events = {e1, e2}
  Chars = {}
  Descs = {}
  Regions = {}
  Rooms = {}
  Objs = {obj}
  Ids = {x}
  None = none
  Risks = {"extract_obj"}
SYMMETRY EventSymmetry
INVARIANT NoUseAfterFree
