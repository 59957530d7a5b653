CONSTANTS
  w1 = w1
  w2 = w2
  x = x
  z = z
  y = y
  Players = {w1, w2}
  Msgs = {x, y}
  Critical = 2
  MaxSize = 3
  Batch = 2
  MaxRetries = 3
  Risks = {}
SPECIFICATION FairSpec
INVARIANTS CountersExact NodesAreSound PassDiscipline
PROPERTIES QueueDrains
