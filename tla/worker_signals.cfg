SPECIFICATION Spec
CONSTANTS
  max_fds = 12
  base_fds = 9
  max_conns = 1
  Reports = {{"IN"}, {"OUT"}, {"ERR"}}
  accept_max = 1
  fd_reserve = 1
  max_read_idle = 1
  max_keep_alive_idle = 0
  max_write_idle = 1
  max_keep_alive_requests = 1
  header_max = 0
  max_reconnects = 1
  fastcgi = TRUE
  kbytes_limited = TRUE
  Faults = {}
  SigMax = 2
  RequestMax = 3
INVARIANTS NobodyForgotten NoCrash
PROPERTIES AcceptOnlyWhenOpen KeepAliveLimited
