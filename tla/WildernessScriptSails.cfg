CONSTANTS
  c1 = c1
  c2 = c2
  x = x
  y = y
  inn = inn
  harbour = harbour
  Chars = {c1, c2}
  Things = {}
  Ships = {s}
  Vehicles = {}
  Pool = {1, 2, 3}
  First = 1
  Fixed = {inn}
  Encounters = {inn}
  Places = {harbour, x, y}
  PlaceOf <- MCPlaceOf
  Origin = harbour
  City = city
  None = None
  MaxDepth = 2
  MaxBodies = 4
  Risks = {"script_sails"}
SPECIFICATION Spec
SYMMETRY Alike
INVARIANTS MeetAtPlace
