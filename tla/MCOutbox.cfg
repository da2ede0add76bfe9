SPECIFICATION Spec
CONSTANTS
  m1 = m1
  m2 = m2
  m3 = m3
  m4 = m4
  t1 = t1
  t2 = t2
  Msgs = {m1, m2}
  Locks = {1, 2}
  KeyOf <- Pairs
  Txs = {t1, t2}
  Batch <- Single
  Workers = {w1, w2}
  Threshold = 2
  None = None
SYMMETRY Alike
INVARIANTS OneReceiptPerKey OrderKept
PROPERTY AtLeastOnce
