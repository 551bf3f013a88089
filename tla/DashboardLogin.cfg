\* A tick is five minutes: a code lives one, the rate window has three.
SPECIFICATION Spec
CONSTANTS
  MaxRequests = 3
  Window = 3
  Ttl = 1
  CodeBound = 4
  RestartBound = 1
INVARIANT RateLimited
PROPERTY FreshLogin
CHECK_DEADLOCK FALSE
