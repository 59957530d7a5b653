CONSTANTS
  m1 = m1
  m2 = m2
  p = p
  Mobs = {m1, m2}
  Players = {p}
  None = None
  Dexterities <- MCDexterities
  Initiatives <- MCInitiatives
  Scenarios <- Blows
  Risks = {}
SPECIFICATION Spec
INVARIANT LastAttackerKnown
