CONSTANTS
  MaxQueue = 1
  MaxSessions = 1
  MaxEvents = 1
  Risks = {"shutdown"}
SPECIFICATION FairSpec
PROPERTIES ShutdownCompletes
CHECK_DEADLOCK FALSE
