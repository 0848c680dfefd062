SPECIFICATION MCSpec
CONSTANTS
  Parts = {"dunning", "fees", "pool", "crowd", "plans", "ledger", "desk", "consent", "comms", "refused", "promise", "disputes", "attempt", "ussd", "menus"}
  Runners = {p1, p2}
  JobOf <- AllDunning
  ProcessOf <- OwnProcess
  PoolSize = 3
  Receivables = {1}
  DueDay <- DueDays
  Flagged = {}
  Orgs = {1}
  DunningLadder <- ShortLadder
  GraceDays = 0
  PeriodDays = 2
  Batch = 2
  MaxDay = 3
  MaxChanges = 2
  MaxFaults = 1
  MaxLost = 1
  NoRunner = NoRunner
  p1 = p1
  p2 = p2
  c1 = c1
  c2 = c2
  m1 = m1
  g1 = g1
  g2 = g2
  w1 = w1
  w2 = w2
  o1 = o1
  o2 = o2
  r1 = r1
  r2 = r2
  a1 = a1
  None = None
INVARIANTS OneEventPerClaim ContactFollowsRules RecordsTellOutcome
PROPERTIES DecidedIsFinal WhatIsDueHappens
CHECK_DEADLOCK FALSE
