CONSTANTS
  Family = {f1}
  Request = {r1, r2}
  NoRequest = NoRequest
  Grace = 1
  IdleTimeout = 1
  Lifetime = 2
  MaxClock = 1
  MaxRequests = 3
SPECIFICATION Spec
INVARIANT LogoutEndsFamily
CHECK_DEADLOCK FALSE
