CONSTANTS
  Users = {u1, u2}
  Sessions = {s1, s2}
  Workers = {w1}
  None = None
  Garbage = {None}
  MaxFrames = 0
SPECIFICATION Spec
SYMMETRY Symmetry
CHECK_DEADLOCK FALSE
INVARIANTS
  OnlineReachable
