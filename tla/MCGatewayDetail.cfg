SPECIFICATION FairSpec
CONSTANTS
  Lifecycles <- MCLifecycles
  Opened <- MCOpened
  Window = 1
  MaxChanges = 2
  MaxRenames = 2
  MaxMutations = 2
INVARIANTS UnavailableIsEarned 
PROPERTY WaitIsBounded
CHECK_DEADLOCK FALSE
