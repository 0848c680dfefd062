SPECIFICATION Spec
CONSTANTS
  Callers = {1}
  bandSize = 2
  lowWatermark = 2
  maxReservation = 2
  ETIMS_MAX_SEQUENCE = 4
  FirstYear = 2026
  LastYear = 2026
  Overlapping = TRUE
INVARIANT NeverDoubleIssued
CHECK_DEADLOCK FALSE
