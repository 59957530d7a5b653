SPECIFICATION Spec
CONSTANTS
  Events = {e1, e2, e3}
  Chars = {ch1, ch2}
  Descs = {d}
  Regions = {reg}
  Rooms = {room}
  Objs = {obj}
  Ids = {x, y}
  None = none
  Risks = {}
SYMMETRY EventSymmetry
INVARIANTS NoUseAfterFree OwnersAndEventsAgree
PROPERTY DeathLeavesTheRunning
