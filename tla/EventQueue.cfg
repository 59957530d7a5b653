SPECIFICATION FairSpec
CONSTANTS
  Events = {e1, e2, e3}
  NoEvent = NoEvent
  NumQueues = 2
  MaxEvents = 3
  LongMax = 4
  Delays = {0, 3}
  MaxPulse = 3
INVARIANTS
  QueueSound
  UnqueuedIsRunning
  PayloadBalance
  CounterExact
PROPERTIES
  ImplementsSchedule
  Served
