CONSTANTS
  m1 = m1
  m2 = m2
  p = p
  Mobs = {m1, m2}
  Players = {p}
  None = None
  Dexterities <- MCDexterities
  Initiatives <- MCInitiatives
  Scenarios <- FightsAndReferences
  Risks = {}
SPECIFICATION FairSpec
INVARIANTS CombatListSound FighterHasRound LeftNothingBehind
PROPERTIES ExtractionHappens RoundsKeepComing
