CONSTANTS
  w1 = w1
  w2 = w2
  x = x
  z = z
  y = y
  Players = {w1, w2}
  Msgs = {x, y}
  Critical = 1
  MaxSize = 3
  Batch = 2
  MaxRetries = 3
  Risks = {"publish"}
SPECIFICATION Spec
INVARIANT NodesAreSound
