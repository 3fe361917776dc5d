CONSTANTS
  MaxInFlight = 2
  MaxConns = 2
  MaxGrabs = 2
  MaxFrames = 4
SPECIFICATION FairSpec
INVARIANTS
  CreditsCoverFrames
  
PROPERTIES
  LostIsReplaced
  
\* The page is left, and the connections and the frames run out.
CHECK_DEADLOCK FALSE
