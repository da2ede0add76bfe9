SPECIFICATION FairSpec
CONSTANTS
  m1 = m1
  m2 = m2
  m3 = m3
  m4 = m4
  t1 = t1
  t2 = t2
  Msgs = {m1, m2, m3, m4}
  Locks = {1, 2}
  KeyOf <- Pairs
  Txs = {t1, t2}
  Batch <- Crossed
  Workers = {w1}
  Threshold = 0
  None = None
INVARIANT NoLockCycle
PROPERTY Delivers
