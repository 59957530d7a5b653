SPECIFICATION Spec
CONSTANTS
  Events = {e1, e2}
  Chars = {}
  Descs = {}
  Regions = {}
  Rooms = {room}
  Objs = {}
  Ids = {x}
  None = none
  Risks = {"attach_nowhere"}
SYMMETRY EventSymmetry
INVARIANT NoUseAfterFree
