SPECIFICATION FairSpec
CONSTANTS
  a = a
  b = b
  MaxProc = 3
  Request = {a, b}
  max_reconnects = 1
  Wrap = 4
  Confs <- BrokenConfs
CHECK_DEADLOCK FALSE
PROPERTY DeadProcsReturn
