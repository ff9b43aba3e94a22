SPECIFICATION Spec
CONSTANTS
  Spines = 2
  Looks = {1, 2}
  Failing = {"open", "load", "face", "engine"}
  Pool = {TRUE, FALSE}
  MaxActs = 4
  MaxOpens = 2
  MaxFaces = 2
  MaxDeaths = 1
  MaxPreps = 2
INVARIANTS
  TypeOK
  OneSourcePerFile
  SavedLookIsChosen
  SavedFaceIsCurrent
  FaceSynced
  ExportIsAwaited
  WaitersWillGo
CHECK_DEADLOCK FALSE
