SPECIFICATION FairSpec
CONSTANTS
  Calls = {c1, c2, c3}
  Requests = {r1}
  NoRequest = NoRequest
  Capacity = 1
  RateNum = 1
  RateDen = 1
  Poll = 1
  MaxAttempts = 2
  MaxEntries = 1
INVARIANTS PermitsExact RateBound 
PROPERTY CallsReturn
CHECK_DEADLOCK FALSE
