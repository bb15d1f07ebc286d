CONSTANTS
  MAX_CH = 2
  SENS_MAX_DEFAULT = 55
  NULL = NULL
  INT_SPAN = 256
  Ids = {n1, n2, n3}
  Segments = {seg1}
  Dicts <- MCAuditDicts
  GlobalClasses <- MCClasses
  Quirks = {}
SPECIFICATION AuditSpec
INVARIANTS
  ListenerIsCurrent
  ReadsFromItsDoor
SYMMETRY Symmetry
