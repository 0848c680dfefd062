SPECIFICATION MCSpec
CONSTANTS
  Parts = {"ceilings"}
  Txs = {t1, t2}
  Rows = {i1, i2}
  Receivables = {c1, c2}
  Original <- OriginalOf
  Confirmed = 2
  Amounts = {2}
  Kinds = {"alloc"}
  MaxOps = 1
  NoTx = NoTx
  NoRec = NoRec
  c1 = c1
  c2 = c2
  p1 = p1
  p2 = p2
  k1 = k1
  k2 = k2
  l1 = l1
  A = A
  B = B
  Customer = Customer
  Nobody = Nobody
  None = None
INVARIANT NoOverAllocation
CHECK_DEADLOCK FALSE
