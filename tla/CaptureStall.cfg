CONSTANTS
  MaxInFlight = 2
  MaxConns = 1
  MaxGrabs = 2
  MaxFrames = 4
SPECIFICATION FairSpec
PROPERTY LimitIsTransient
CHECK_DEADLOCK FALSE
