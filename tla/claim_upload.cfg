SPECIFICATION Spec
CONSTANTS
  MaxContent = 7
  FCGI_MAX_LENGTH = 3
  max_reconnects = 2
CHECK_DEADLOCK FALSE
INVARIANTS NoTempfileLeft AttemptsFresh
