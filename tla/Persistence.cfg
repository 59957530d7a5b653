CONSTANTS
  ann = ann
  bob = bob
  d1 = d1
  d2 = d2
  h1 = h1
  h2 = h2
  Players = {ann, bob}
  Descs = {d1, d2}
  Houses = {h1, h2}
  None = None
  PulsesPerMinute = 3
  AutosaveTime = 2
  RetryPulses = 2
  MaxIncidents = 2
  Broken = {}
  Risks = {}
SPECIFICATION FairSpec
PROPERTIES CharactersSaved ObjectsSaved HousesSaved
