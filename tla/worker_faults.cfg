SPECIFICATION FairSpec
CONSTANTS
  max_fds = 12
  base_fds = 9
  max_conns = 1
  Reports = {{"IN"}, {"OUT"}, {"ERR"}, {"IN", "ERR"}}
  accept_max = 1
  fd_reserve = 1
  max_read_idle = 0
  max_keep_alive_idle = 0
  max_write_idle = 0
  max_keep_alive_requests = 0
  header_max = 0
  max_reconnects = 1
  fastcgi = TRUE
  kbytes_limited = FALSE
  Faults = {"fcntl", "ENOTCONN"}
  SigMax = 1
  RequestMax = 2
INVARIANT FdsCounted
PROPERTY GracefulEnds
