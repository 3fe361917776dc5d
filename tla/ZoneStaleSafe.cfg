CONSTANTS
  Zone = {z1}
  Session = {s1}
  NoSession = NoSession
  Analysable = {"safe", "unsafe"}
  StaleAfter = 1
  RapidWindow = 1
  FailInterval = 1
  MaxClock = 4
  MaxFrames = 3
  MaxCrashes = 0
SPECIFICATION Spec
INVARIANT SafeNeedsCurrentAnalysis
CHECK_DEADLOCK FALSE
