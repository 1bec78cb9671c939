SPECIFICATION Spec
CONSTANTS
  a = a
  b = b
  MaxProc = 3
  Request = {a, b}
  max_reconnects = 1
  Wrap = 4
  Confs <- DroppedConfs
CHECK_DEADLOCK FALSE
INVARIANTS LoadRightAlways RunningIsActive DiedIsReaped
