CONSTANTS
  Zone = {z1}
  Session = {s1, s2}
  NoSession = NoSession
  Analysable = {"safe", "blocked"}
  StaleAfter = 1
  RapidWindow = 0
  FailInterval = 1
  MaxClock = 2
  MaxFrames = 3
  MaxCrashes = 0
SPECIFICATION FairSpec
PROPERTIES
  FrameSettles
\* The clock, the frames and the sessions run out.
CHECK_DEADLOCK FALSE
