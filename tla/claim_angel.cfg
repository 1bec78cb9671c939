SPECIFICATION Spec
CONSTANTS
  MaxForks = 3
  MaxSlots = 3
  Setups <- WithAngel
INVARIANTS RestartOnCrash SpawnOnHup OnlyTheChild HupSentOnce ReplacementStays
CHECK_DEADLOCK FALSE
