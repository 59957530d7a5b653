CONSTANTS
  c1 = c1
  c2 = c2
  x = x
  y = y
  inn = inn
  harbour = harbour
  Chars = {c1, c2}
  Things = {}
  Ships = {}
  Vehicles = {}
  Pool = {1, 2}
  First = 1
  Fixed = {inn}
  Encounters = {inn}
  Places = {harbour, x, y}
  PlaceOf <- MCPlaceOf
  Origin = harbour
  City = city
  None = None
  MaxDepth = 1
  MaxBodies = 4
  Risks = {"encounter_hits"}
SPECIFICATION Spec
SYMMETRY Alike
INVARIANTS MeetAtPlace
