CONSTANTS
  MaxQueue = 2
  MaxSessions = 2
  MaxEvents = 2
  Risks = {"shutdown", "admin", "reading"}
SPECIFICATION FairSpec
INVARIANTS HeardInOrder SessionSound
PROPERTIES EventsDelivered ShutdownEnds
\* The game loop ends.
CHECK_DEADLOCK FALSE
