CONSTANTS
  MAX_CH = 2
  SENS_MAX_DEFAULT = 1
  NULL = NULL
  INT_SPAN = 256
  Ids = {n1, n2}
  seg1 = seg1
  seg2 = seg2
  Segments = {seg1, seg2}
  Dicts <- MCWindowDicts
  GlobalClasses = {NULL}
  Quirks = {}
SPECIFICATION WindowSpec
INVARIANTS
  WindowType
  SelectedIsListed
  PageFitsBox
  PageShowsReadback
  NoEcho
  WritingIsAwaited
SYMMETRY Symmetry
