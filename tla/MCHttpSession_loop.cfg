CONSTANTS
  QueueLimit = 1
  MaxRequests = 4
SPECIFICATION FairSpec
CHECK_DEADLOCK FALSE
INVARIANTS
  TypeOK
  Serial
  InflightExact
  KeepAliveHonoured
PROPERTIES
  RequestAnswered
  ImplementsExchange
