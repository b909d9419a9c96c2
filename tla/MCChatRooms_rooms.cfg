CONSTANTS
  Workers = {w1, w2}
  Users = {1, 2}
  MaxRequests = 3
  MaxFaults = 1
SPECIFICATION FairSpec
CHECK_DEADLOCK FALSE
INVARIANTS
  TypeOK
  RoomHasMembers
  OrphansAreInvited
  LastMessageExists
  AnnouncedIsStored
PROPERTIES
  ImplementsStore
  SuccessIsStored
  EveryRequestEnds
