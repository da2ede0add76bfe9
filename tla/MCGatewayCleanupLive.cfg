SPECIFICATION FairSpec
CONSTANTS
  Workers = {w1}
  Others = {}
  Allocator = Allocator
  Console = TRUE
  MaxLate = 1
PROPERTIES Finalizes LeavesNothing
