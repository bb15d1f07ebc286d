CONSTANTS
  MAX_CH = 2
  SENS_MAX_DEFAULT = 55
  NULL = NULL
  INT_SPAN = 256
  Ids = {n1, n2, n3}
  Segments = {seg1, seg2}
  Dicts <- MCWalkDicts
  GlobalClasses <- MCClasses
  Quirks = {"promote", "overlap"}
SPECIFICATION Spec
INVARIANTS
  TypeOK
  MembersAgree
  SegmentsListed
  OneBoxPerSegment
  DoorIsBest
PROPERTY
  WalkIsDirectory
SYMMETRY Symmetry
