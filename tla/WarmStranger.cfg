SPECIFICATION Spec
CONSTANTS
  Spines = 2
  Looks = {1}
  Failing = {}
  Pool = {FALSE}
  MaxActs = 4
  MaxOpens = 2
  MaxFaces = 0
  MaxDeaths = 0
  MaxPreps = 2
INVARIANT SavedBookIsOpen
CHECK_DEADLOCK FALSE
