CONSTANTS
  MAX_CH = 1
  SENS_MAX_DEFAULT = 5
  NULL = NULL
  INT_SPAN = 16
  Dicts <- MCDicts
  Dbus <- MCDbus
SPECIFICATION Spec
INVARIANTS
  BoxType
  RestampIsSilent
  ReadbackComplete
  ShownWasAsserted
  NearestStep
  OkIsWritable
