SPECIFICATION FairSpec
CONSTANTS
  Events = {e1, e2}
  NoEvent = NoEvent
  NumQueues = 2
  MaxEvents = 2
  LongMax = 5
  Delays = {0, 3, 5}
  MaxPulse = 4
INVARIANTS
  TypeOK
  NoOverdue
PROPERTIES
  PulseCompletes
