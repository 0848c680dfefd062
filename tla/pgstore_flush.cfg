SPECIFICATION MCSpec
CONSTANTS
  Parts = {"pg"}
  c1 = c1
  w1 = w1
  w2 = w2
  Kinds = {"row", "event", "refund"}
  MaxSaves = 3
  MaxBoots = 3
  Callers = {c1}
INVARIANT FlushCommits
CHECK_DEADLOCK FALSE
