SPECIFICATION Spec
CONSTANTS
  Spines = 1
  Looks = {1}
  Failing = {}
  Pool = {TRUE, FALSE}
  MaxActs = 5
  MaxOpens = 1
  MaxFaces = 2
  MaxDeaths = 0
  MaxPreps = 2
INVARIANT SavedFaceIsOwned
CHECK_DEADLOCK FALSE
