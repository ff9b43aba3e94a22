SPECIFICATION Spec
CONSTANTS
  x1 = x1
  Attempts = {x1}
  Books = {1}
  SpineCount <- MCSpineCount
  MinSpines = 2
  PoolSize = 2
  MaxFace = 2
  Overlapping = TRUE
INVARIANTS
  OneFacePerFile
CHECK_DEADLOCK FALSE
