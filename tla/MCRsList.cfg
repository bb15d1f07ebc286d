CONSTANTS
  MAX_CH = 2
  SENS_MAX_DEFAULT = 55
  NULL = NULL
  INT_SPAN = 256
  Ids = {n1, n2}
  seg1 = seg1
  seg2 = seg2
  Segments = {seg1, seg2}
  Alphabet <- MCAlphabet
  Dicts <- MCListDicts
  NodeDicts <- MCListDicts
  GlobalClasses <- MCPwClasses
  Quirks = {}
  Proxies = {p1, p2, p3}
  BINDS_FAIL = FALSE
  ANSWERS = {"drop"}
  MAX_CHANGES = 2
  MAX_WRITES = 0
  CONNECTION_LOST = TRUE
SPECIFICATION ListFairSpec
INVARIANTS
  ListIsComplete
  ListIsTrue
PROPERTY
  ListReturnsWhileServed
CHECK_DEADLOCK FALSE
