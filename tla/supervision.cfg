SPECIFICATION FairSpec
CONSTANTS
  MaxForks = 3
  MaxSlots = 3
  Setups <- AllSetups
INVARIANTS OneCurrent EverybodyTold HardOnlyOnRequest NoHupStorm
PROPERTIES RestartHappens WorkersReplaced
CHECK_DEADLOCK FALSE
