SPECIFICATION Spec
CONSTANTS
  ItemOrder <- MCItems
  Target = {"r1", "r2"}
  FirstTargets = {"r1"}
  Label = {"safe"}
  MaxAttempts = 2
  MaxEdits = 1
  Me = "me"
  Known = {"me"}
  NewId = "bob"
  MaxPasswords = 2
  Words = {"a", "b"}
  MaxId = 1
  MaxItems = 2
  Alert = {"a1"}
  QueueSize = 1
  MaxBreaks = 1
  Section = {"rpi"}
  Field = {"f", "g"}
  MaxValue = 2
  Samples = 1
  Workers = 1
  MaxMedia = 2
  MaxRestarts = 1
  Tab = {t1, t2}
  NoTab = none
  MaxSignIns = 1
  MaxRotations = 2
  MaxCalls = 2
  FewCalls = 1
  MaxOthers = 1
INVARIANTS
  UnansweredWasNotShown
  ShownPasswordWorks
  SavesWhatWasLoaded
  
  SavesOnlyWhatWasTyped
  ShownIsFinal
  NoJobLost
  HonestIsNoThief

  
\* A tab may be closed, a page left and every bound reached.
CHECK_DEADLOCK FALSE
