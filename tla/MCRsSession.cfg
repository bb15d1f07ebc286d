CONSTANTS
  MAX_CH = 1
  SENS_MAX_DEFAULT = 1
  NULL = NULL
  INT_SPAN = 256
  Ids = {n1, n2}
  seg1 = seg1
  seg2 = seg2
  Segments = {seg1, seg2}
  Dicts <- MCSessionDicts
  NodeDicts <- MCDroppingDicts
  GlobalClasses <- MCSessionClasses
  Quirks = {}
  Proxies = {p1, p2, p3}
  BINDS_FAIL = FALSE
  ANSWERS = {"accept"}
  MAX_CHANGES = 1
  MAX_WRITES = 2
  MAX_UNDER_WAY = 2
SPECIFICATION SessionSpec
INVARIANTS
  LastGestureCounts
  NothingWaits
PROPERTY
  WindowOnWalk
CHECK_DEADLOCK FALSE
