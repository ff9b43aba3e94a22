SPECIFICATION FairSpec
CONSTANTS
  Books = {1, 2}
  SpineCount <- MCSpineCount
  PageCount <- MCPageCount
  StartSpine <- MCStartSpine
  Layouts = {1}
  Tones = {1}
  Chunk = 1
  CacheSize = 1
  Failing = {"size", "load", "build", "more"}
  Hasty = TRUE
  MaxOpens = 2
  MaxFaces = 0
  MaxRestarts = 0
  MaxInbox = 2
  MaxTimers = 2
INVARIANTS
  TypeOK
  PositionIsTrue
  OneBookEverywhere
PROPERTIES
  LastChoiceWins
  EveryOpenEnds
CHECK_DEADLOCK FALSE
