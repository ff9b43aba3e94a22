SPECIFICATION Spec
CONSTANTS
  Spines = 1
  Looks = {1, 2}
  Failing = {}
  Pool = {TRUE, FALSE}
  MaxActs = 5
  MaxOpens = 1
  MaxFaces = 1
  MaxDeaths = 0
  MaxPreps = 2
INVARIANT SavedFontIsChosen
CHECK_DEADLOCK FALSE
