SPECIFICATION MCSpec
CONSTANTS
  Parts = {"ceilings", "serial", "funds", "lane", "late", "adjust", "repay", "links", "plans", "declared", "money", "text", "shares", "transfer", "rates", "fx", "paid", "owed", "said", "habits", "words", "drift", "pair"}
  Txs = {t1, t2}
  Rows = {i1, i2, i3}
  Receivables = {c1, c2}
  Original <- OriginalOf
  Confirmed = 4
  Amounts = {1, 2}
  Kinds = {"alloc", "refund"}
  MaxOps = 2
  NoTx = NoTx
  NoRec = NoRec
  c1 = c1
  c2 = c2
  p1 = p1
  p2 = p2
  k1 = k1
  k2 = k2
  l1 = l1
  A = A
  B = B
  Customer = Customer
  Nobody = Nobody
  None = None
INVARIANTS BalanceIntegrity MoneyIsConserved ArithmeticIsSound ClaimsFollowFacts
PROPERTIES HistoryIsFinal
SYMMETRY Symmetry
CHECK_DEADLOCK FALSE
