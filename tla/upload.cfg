SPECIFICATION FairSpec
CONSTANTS
  MaxContent = 7
  FCGI_MAX_LENGTH = 3
  max_reconnects = 2
CHECK_DEADLOCK FALSE
INVARIANTS StreamRight CompleteAtEnd FilesThere
PROPERTY UploadEnds
