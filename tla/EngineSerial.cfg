SPECIFICATION Spec
CONSTANTS
  b1 = b1
  b2 = b2
  builtin = builtin
  custom = custom
  Books = {b1, b2}
  NoBook = NoBook
  Spines = {0, 1}
  Layouts = {builtin, custom}
  DefaultLayout = builtin
  CustomLayout = custom
  SpineCount <- MCSpineCount
  PageCount <- MCPageCount
  Toc <- MCToc
  MaxChapters = 2
  MaxPages = 3
  MaxPlanPages = 3
  Calls = {"settings", "face", "profile", "mode", "preview", "serial"}
INVARIANTS
  TypeOK
  NoPartialFile
  NothingOfPreviousBook
  OneSpecPerExport
  ChaptersTileTheFile
PROPERTY FileIsStable
