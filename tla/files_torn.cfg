SPECIFICATION MCSpec
CONSTANTS
  Parts = {"files"}
  c1 = c1
  w1 = w1
  w2 = w2
  Kinds = {"row", "event", "refund"}
  MaxSaves = 3
  MaxBoots = 3
  Callers = {c1}
INVARIANT FlushedSurvives
CHECK_DEADLOCK FALSE
