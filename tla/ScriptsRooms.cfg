CONSTANTS
  m1 = m1
  o1 = o1
  r1 = r1
  r2 = r2
  t1 = t1
  t2 = t2
  t3 = t3
  Mobs = {m1}
  Objs = {o1}
  RoomOrder <- MCRooms
  Trigs = {t1, t2, t3}
  RandomTrigs = {t2, t3}
  Homes <- MCHomes
  Editable = {t3}
  None = None
  MaxScriptDepth = 1
  MaxLines = 2
  MaxLeaks = 1
SPECIFICATION Spec
INVARIANT OwnerRemainsValid
\* A script that follows a freed pointer ends the game.
CHECK_DEADLOCK FALSE
