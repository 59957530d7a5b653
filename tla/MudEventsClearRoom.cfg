SPECIFICATION Spec
CONSTANTS
  Events = {e1, e2}
  Chars = {}
  Descs = {}
  Regions = {}
  Rooms = {room}
  Objs = {}
  Ids = {x}
  None = none
  Risks = {"delete_room"}
SYMMETRY EventSymmetry
INVARIANT NoUseAfterFree
