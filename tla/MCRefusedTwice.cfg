CONSTANTS
  MAX_CH = 1
  SENS_MAX_DEFAULT = 1
  NULL = NULL
  INT_SPAN = 256
  Ids = {n1, n2}
  seg1 = seg1
  seg2 = seg2
  Segments = {seg1, seg2}
  Dicts <- MCRefusingDicts
  NodeDicts <- MCNodeDicts
  GlobalClasses <- MCSessionClasses
  Quirks = {}
  Proxies = {p1, p2, p3}
  BINDS_FAIL = FALSE
  ANSWERS = {"accept","refuse"}
  MAX_CHANGES = 1
  MAX_WRITES = 2
  MAX_UNDER_WAY = 2
SPECIFICATION SessionSpec
INVARIANT
  NothingWaits
CHECK_DEADLOCK FALSE
