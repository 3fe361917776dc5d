CONSTANTS
  Zone = {z1}
  Session = {s1, s2}
  NoSession = NoSession
  Analysable = {"safe", "unsafe"}
  StaleAfter = 1
  RapidWindow = 1
  FailInterval = 1
  MaxClock = 3
  MaxFrames = 3
  MaxCrashes = 1
SPECIFICATION Spec
SYMMETRY SessionSymmetry
INVARIANTS
  TypeOK
  StatusBackedByHistory
  SevereAlertedOnEntry
  
  CameraLostIffUnclean
  AlertsAnnounced
PROPERTIES
  StatusTimeMonotone
\* The clock, the frames and the sessions run out.
CHECK_DEADLOCK FALSE
