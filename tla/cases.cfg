SPECIFICATION MCSpec
CONSTANTS
  Parts = {"r8", "log", "serial", "numbers", "invoices", "newyear", "gates", "checkers", "rules", "replay", "ranks", "pay", "claims", "walk", "book"}
  c1 = c1
  c2 = c2
  r1 = r1
  r2 = r2
  w1 = w1
  w2 = w2
  p1 = p1
  p2 = p2
  None = None
  Cases = {c1, c2}
  Receivables = {r1, r2}
  Workers = {w1, w2}
  Coverings = {{r1}, {r1, r2}}
  Ops = {"open", "transition"}
  Priorities = {"normal"}
  ActionTypes = {"sms"}
  Sources = {""}
  Outcomes = {FALSE}
  MaxCommands = 6
INVARIANTS CoverageIsExclusive LogTellsCase CommittedNotReissued FourEyes ActionsAreGoverned
PROPERTIES ImplementsLane NoNumberVanishes ApiIsFaithful
SYMMETRY WorkerSymmetry
CHECK_DEADLOCK FALSE
