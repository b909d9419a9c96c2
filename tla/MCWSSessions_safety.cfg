CONSTANTS
  Users = {u1, u2}
  Sessions = {s1, s2}
  Workers = {w1, w2}
  None = None
  Garbage = {u1, u2, None}
  MaxFrames = 2
SPECIFICATION Spec
SYMMETRY Symmetry
CHECK_DEADLOCK FALSE
INVARIANTS
  TypeOK
  EntryOwner
  NoStaleEntry
  OneWrite
  DeliveryFifo
  MuteOnlyAfterError
