CONSTANTS
  QueueLimit = 2
  MaxRequests = 2
SPECIFICATION Spec
CHECK_DEADLOCK FALSE
INVARIANTS
  KeepAliveHonoured
