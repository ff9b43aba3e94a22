SPECIFICATION Spec
CONSTANTS
  x1 = x1
  x2 = x2
  Attempts = {x1, x2}
  Books = {1, 2}
  SpineCount <- MCSpineCount
  MinSpines = 2
  PoolSize = 2
  MaxFace = 1
  Overlapping = TRUE
SYMMETRY Symmetry
INVARIANTS
  SavedInSpineOrder
PROPERTIES
  EachExportIsInOrder
CHECK_DEADLOCK FALSE
