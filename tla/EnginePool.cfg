SPECIFICATION Spec
CONSTANTS
  b1 = b1
  b2 = b2
  builtin = builtin
  custom = custom
  Books = {b1, b2}
  NoBook = NoBook
  Spines = {0, 1}
  Layouts = {builtin}
  DefaultLayout = builtin
  CustomLayout = builtin
  SpineCount <- MCSpineCount
  PageCount <- MCPageCount
  Toc <- MCToc
  MaxChapters = 2
  MaxPages = 3
  MaxPlanPages = 2
  Calls = {"pool"}
INVARIANTS
  NoPartialFile
  NothingOfPreviousBook
  OneFormatPerFile
  ChaptersTileTheFile
PROPERTY FileIsStable
