SPECIFICATION Spec
CONSTANTS
  Books = {1, 2}
  SpineCount <- MCSpineCount
  PageCount <- MCLongPages
  StartSpine <- MCStartSpine
  Layouts = {1}
  Tones = {1, 2}
  Chunk = 1
  CacheSize = 1
  Failing = {"size", "load", "face"}
  Hasty = FALSE
  MaxOpens = 2
  MaxFaces = 1
  MaxRestarts = 1
  MaxInbox = 1
  MaxTimers = 2
INVARIANTS
  OneBookEverywhere
  TrackingIsTrue
  AppliedFaceIsTrue
  CacheIsCurrent
CHECK_DEADLOCK FALSE
