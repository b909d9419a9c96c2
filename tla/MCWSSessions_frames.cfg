CONSTANTS
  Users = {u1, u2}
  Sessions = {s1}
  Workers = {w1}
  None = None
  Garbage = {None}
  MaxFrames = 2
SPECIFICATION Spec
SYMMETRY Symmetry
CHECK_DEADLOCK FALSE
INVARIANTS
  EveryFrameHandled
