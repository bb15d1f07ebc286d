CONSTANTS
  MAX_CH = 2
  SENS_MAX_DEFAULT = 55
  NULL = NULL
  INT_SPAN = 256
  Ids = {n1, n2}
  Segments = {seg1, seg2}
  Dicts <- MCNodeDicts
  NodeDicts <- MCNodeDicts
  GlobalClasses <- MCPwClasses
  Quirks = {}
  Proxies = {p1, p2, p3}
  BINDS_FAIL = FALSE
  ANSWERS = {"drop"}
  MAX_CHANGES = 3
  MAX_WRITES = 1
SPECIFICATION PwFairSpec
INVARIANTS
  PwType
  BoundIsBound
  WritesReachTheirSegment
  LeftHasLeft
PROPERTIES
  WalkIsFedInOrder
  Settles
CHECK_DEADLOCK FALSE
