SPECIFICATION MCSpec
CONSTANTS
  Parts = {"pg", "files", "trail", "query", "session", "key", "grant", "ingest"}
  c1 = c1
  w1 = w1
  w2 = w2
  Kinds = {"row", "event", "refund"}
  MaxSaves = 3
  MaxBoots = 3
  Callers = {c1}
INVARIANTS StoreIsFaithful FilesSurvive LogsTell
PROPERTIES SavesDoNotSit AccessIsCurrent
CHECK_DEADLOCK FALSE
