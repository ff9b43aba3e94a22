SPECIFICATION Spec
CONSTANTS
  Names = {section, html}
  section = section
  html = html
  Handles = {h1, h2}
  h1 = h1
  h2 = h2
  MaxBlobs = 2
  MaxWrite = 2
  Slacks = {0, 1}
  Sizes = {2, 4, 5}
  BookLimit = 8
  CopyLimit = 2
  OwnedLimit = 4
  Room = 5
  DefaultLimit = 3
  Window = 3
  Torn = FALSE
  MaxFaces = 2
INVARIANTS
  TypeOK
  MemoryIsAccounted
  FaceHasFile
  ReadsAreTrue
SYMMETRY Symmetry
