CONSTANTS
  Family = {f1, f2}
  Request = {r1, r2}
  NoRequest = NoRequest
  Grace = 1
  IdleTimeout = 0
  Lifetime = 2
  MaxClock = 2
  MaxRequests = 4
SPECIFICATION FairSpec
PROPERTY RequestsAnswered
CHECK_DEADLOCK FALSE
