CONSTANTS
  Family = {f1, f2}
  Request = {r1, r2, r3}
  NoRequest = NoRequest
  Grace = 1
  IdleTimeout = 1
  Lifetime = 2
  MaxClock = 3
  MaxRequests = 4
SPECIFICATION Spec
SYMMETRY AuthSymmetry
INVARIANTS
  OneLivePerFamily
  RotationChain
  EndMissesOnlySuccessors
PROPERTIES
  EndedStaysEnded
  RevokedOnce
  RefreshKeepsActivity
CHECK_DEADLOCK FALSE
