CONSTANTS
  Threads = {t1, t2}
  Nobody = Nobody
  SEQ_LIMIT = 2
  SEQ_SPAN = 4
  SERVICE_SPAN = 2
  TS_SPAN = 8
  service_id_ = 1
  custom_epoch_ = 1
  StartClock = 2
  MaxClock = 4
  MaxBack = 2
  MaxRestarts = 1
SPECIFICATION Spec
SYMMETRY Symmetry
CHECK_DEADLOCK FALSE
INVARIANTS
  TypeOK
  SequenceBounded
  IncreasingUnlessExposed
