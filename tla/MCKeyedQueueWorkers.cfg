SPECIFICATION Spec
CONSTANTS
  s1 = s1
  Keys = {k1, k2}
  Sources = {s1, s2}
  Origin <- OneFeed
  Workers = {w1, w2}
  Capacity = 2
  RetryMin = 1
  RetryMax = 1
  Scanner = Scanner
  None = None
  Gone = Gone
SYMMETRY Alike
INVARIANTS QueueIsConsistent NoLostWakeup
