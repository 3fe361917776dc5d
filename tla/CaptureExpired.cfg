CONSTANTS
  MaxInFlight = 2
  MaxConns = 2
  MaxGrabs = 1
  MaxFrames = 1
SPECIFICATION Spec
INVARIANT ExpiredTokenReconnects
CHECK_DEADLOCK FALSE
