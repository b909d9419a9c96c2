CONSTANTS
  Users = {u1, u2}
  Sessions = {s1, s2}
  Workers = {w1}
  None = None
  Garbage = {None}
  MaxFrames = 2
SPECIFICATION FairSpec

CHECK_DEADLOCK FALSE
PROPERTIES
  HandedIsDelivered
