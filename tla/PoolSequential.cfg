SPECIFICATION FairSpec
CONSTANTS
  x1 = x1
  x2 = x2
  Attempts = {x1, x2}
  Books = {1}
  SpineCount <- MCSpineCount
  MinSpines = 2
  PoolSize = 2
  MaxFace = 2
  Overlapping = FALSE
INVARIANTS
  TypeOK
  CurrentFace
  NoOrphanEngine
  LockedWhileExporting
PROPERTIES
  EveryExportEnds
CHECK_DEADLOCK FALSE
