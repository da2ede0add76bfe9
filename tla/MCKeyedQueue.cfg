SPECIFICATION FairSpec
CONSTANTS
  s1 = s1
  Keys = {k1, k2}
  Sources = {s1}
  Origin <- OneFeed
  Workers = {w1}
  Capacity = 1
  RetryMin = 1
  RetryMax = 2
  Scanner = Scanner
  None = None
  Gone = Gone
INVARIANT NoLostInvalidation
PROPERTIES DelayKept Settles
