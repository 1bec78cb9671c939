SPECIFICATION FairSpec
CONSTANTS
  MaxForks = 3
  MaxSlots = 3
  Setups <- OnlyWatcher
PROPERTY IntForwarded
CHECK_DEADLOCK FALSE
