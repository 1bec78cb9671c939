SPECIFICATION Spec
CONSTANTS
  max_fds = 9
  base_fds = 7
  max_conns = 2
  Reports = {{"IN"}, {"OUT"}}
  accept_max = 1
  fd_reserve = 1
  max_read_idle = 0
  max_keep_alive_idle = 0
  max_write_idle = 0
  max_keep_alive_requests = 0
  header_max = 0
  max_reconnects = 1
  fastcgi = TRUE
  kbytes_limited = FALSE
  Faults = {}
  SigMax = 0
  RequestMax = 2
INVARIANTS TypeOK EventsReachOwner WaitersCounted NobodyForgotten CleanStart
PROPERTIES ImplementsDescriptors OnlyOwnEvents
