SPECIFICATION FairSpec
CONSTANTS
  Items = {1, 2}
  Moving = {}
  PageSize = 1
  Found = {2}
  MaxVersions = 3
  MaxMoves = 2
INVARIANTS AcceptedIsShown TableSurvivesReload SearchIsLiteral
PROPERTY TransitionsEnd
CHECK_DEADLOCK FALSE
