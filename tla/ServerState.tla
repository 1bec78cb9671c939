---------------------------- MODULE ServerState ----------------------------
(***************************************************************************)
(* The state of one lighttpd worker (base.h: server, connection,           *)
(* connections) and the operations on its shared containers: the           *)
(* connection pool (connections.c), the job list and the queue of          *)
(* connections waiting for a descriptor (joblist.c).                       *)
(*                                                                         *)
(* A handler of the code works on one connection and on the tables shared  *)
(* by all.  A frame collects both:                                         *)
(*   ev, open, cur_fds, conns : the shared tables,                         *)
(*   r, h                     : the connection and its FastCGI context,    *)
(*   jobs                     : how often joblist_append was called.       *)
(* The operators that translate C functions map frames to frames (or to    *)
(* sets of frames where a system call decides); Commit makes a frame the   *)
(* new state.                                                              *)
(***************************************************************************)
EXTENDS Fdevent, Sequences

CONSTANTS
  max_conns,                \* srv->max_conns
  fd_reserve,               \* the 16 of "max_fds - cur_fds - 16" (server.c:1204)
  accept_max,               \* accepts per event, 100 in the code (network.c:49)
  max_read_idle, max_keep_alive_idle, max_write_idle,
  max_keep_alive_requests,
  header_max,               \* the 64k limit on a request header, in reads
  max_reconnects,           \* the 5 of mod_fastcgi.c
  fastcgi,                  \* TRUE if requests may go to a FastCGI backend
  kbytes_limited,           \* TRUE if kbytes-per-second limits are configured
  Faults,                   \* the rare failures of system calls that may happen
  SigMax,                   \* bound on the number of signals sent
  RequestMax                \* bound on the requests of unknown HTTP versions

ASSUME ServerAssumption ==
  /\ max_conns \in Nat \ {0} /\ fd_reserve \in Nat /\ accept_max \in Nat \ {0}
  /\ max_read_idle \in Nat /\ max_keep_alive_idle \in Nat /\ max_write_idle \in Nat
  /\ max_keep_alive_requests \in Nat /\ header_max \in Nat /\ max_reconnects \in Nat
  /\ fastcgi \in BOOLEAN /\ kbytes_limited \in BOOLEAN
  /\ Faults \subseteq {"fcntl", "ENOTCONN"}
  /\ SigMax \in Nat /\ RequestMax \in Nat

\* The connection structures, and the slots of the array that holds them.
\* They are allocated once and never freed while the worker runs.
Conn == 0 .. (max_conns - 1)

VARIABLES
  ev,                \* srv->ev
  open,              \* the descriptors of Fd the kernel has open for us
  cur_fds, want_fds, \* srv->cur_fds, srv->want_fds
  conns,             \* srv->conns: ptr, used, and the ndx of every connection
  con,               \* the connection structures
  hctx,              \* con->plugin_ctx of mod_fastcgi, one per connection
  joblist, fdwaitqueue,
  pc,                \* where the main loop is
  cur, ret,          \* the connection in connection_state_machine, its caller
  i, k,              \* loop counters of the main loop
  pending, n,        \* select()'s answer, and the n of the dispatch loop
  sockets_disabled, listen_open, pid_file,
  graceful_shutdown, srv_shutdown,
  sigs, forced       \* signals sent so far; TRUE after SIGTERM or a 2nd SIGINT

-----------------------------------------------------------------------------
\* Connections.

ConStates ==
  {"CONNECT", "REQUEST_START", "READ", "REQUEST_END", "READ_POST",
   "HANDLE_REQUEST", "RESPONSE_START", "WRITE", "RESPONSE_END", "ERROR", "CLOSE"}

\* Timestamps are kept as ages, in seconds before srv->cur_ts, and counted
\* no further than the largest value any comparison tells apart.
IdleCap ==
  (IF max_read_idle < max_keep_alive_idle THEN max_keep_alive_idle ELSE max_read_idle)
  + max_conns
WriteCap == max_write_idle + max_conns
CloseCap == 2
\* The age of a timestamp that is 0.
Unset == -1

ConRec ==
  [state : ConStates,
   fd : Fd \cup {0}, fde_ndx : Fd \cup {0, NotArmed},
   is_readable : BOOLEAN, is_writable : BOOLEAN,
   keep_alive : BOOLEAN,
   decided : BOOLEAN,            \* http_status is neither 0 nor 200
   bad_version : BOOLEAN,        \* http_status is 505
   file_started : BOOLEAN, file_finished : BOOLEAN,
   write_queue : BOOLEAN,        \* the write queue is not empty
   mode : {"DIRECT", "FASTCGI"},
   traffic_limit_reached : BOOLEAN,
   request_count : Nat,
   read_queue : 0 .. (header_max + 1),  \* unparsed input, in reads
   read_idle : 0 .. IdleCap,
   write_idle : Unset .. WriteCap,
   close_idle : 0 .. CloseCap]

\* connection_init: calloc, fd 0, ndx and fde_ndx -1.
connection_init ==
  [state |-> "CONNECT", fd |-> 0, fde_ndx |-> NotArmed,
   is_readable |-> FALSE, is_writable |-> FALSE, keep_alive |-> FALSE,
   decided |-> FALSE, bad_version |-> FALSE,
   file_started |-> FALSE, file_finished |-> FALSE,
   write_queue |-> FALSE, mode |-> "DIRECT", traffic_limit_reached |-> FALSE,
   request_count |-> 0, read_queue |-> 0,
   read_idle |-> 0, write_idle |-> Unset, close_idle |-> CloseCap]

\* The FastCGI context of a connection; state "NULL" if it has none.
FcgiStates == {"NULL", "INIT", "CONNECT_DELAYED", "PREPARE_WRITE", "WRITE", "READ"}

CtxRec ==
  [state : FcgiStates, fd : Fd \cup {-1}, fde_ndx : Fd \cup {NotArmed},
   host : BOOLEAN,               \* a host is assigned
   reconnects : 0 .. max_reconnects,
   bytes_out : BOOLEAN]          \* a part of the request was sent

NoCtx == [state |-> "NULL", fd |-> -1, fde_ndx |-> NotArmed, host |-> FALSE,
          reconnects |-> 0, bytes_out |-> FALSE]

handler_ctx_init == [NoCtx EXCEPT !.state = "INIT"]

-----------------------------------------------------------------------------
\* Frames.

Frame(c) ==
  [ev |-> ev, open |-> open, cur_fds |-> cur_fds, conns |-> conns,
   r |-> con[c], h |-> hctx[c], jobs |-> 0]

Repeat(c, times) == [j \in 1 .. times |-> c]

\* joblist_append: in_joblist is tested but nothing ever sets it, so every
\* call appends.
joblist_append(g) == [g EXCEPT !.jobs = @ + 1]

Commit(c, g) ==
  /\ ev' = g.ev /\ open' = g.open /\ cur_fds' = g.cur_fds /\ conns' = g.conns
  /\ con' = [con EXCEPT ![c] = g.r]
  /\ hctx' = [hctx EXCEPT ![c] = g.h]
  /\ joblist' = joblist \o Repeat(c, g.jobs)

connection_set_state(g, s) == [g EXCEPT !.r.state = s]

\* The connections of the pool: slots 0 .. used-1.
InUse(c) == conns.ndx[c] # -1

\* A descriptor a new socket gets: the lowest free one.
FreeFd(g) == {fd \in Fd \ g.open : \A other \in Fd \ g.open : fd <= other}

\* A descriptor that select() still watches after it was closed.
CloseFd_watched(g, fde_ndx, fd) ==
  [g EXCEPT !.ev = fdevent_unregister(@, fd), !.open = @ \ {fd}, !.cur_fds = @ - 1]

\* event_del, unregister, close, cur_fds-- : the four steps by which both a
\* connection and a FastCGI context give up their descriptor.
CloseFd(g, fde_ndx, fd) ==
  [g EXCEPT !.ev = fdevent_unregister(fdevent_event_del(@, fde_ndx, fd), fd),
            !.open = @ \ {fd},
            !.cur_fds = @ - 1]

\* A swap that forgets to tell the moved connection its new slot.
connection_del_no_ndx(p, c) ==
  IF p.ndx[c] = -1 THEN p
  ELSE LET at == p.ndx[c]
           last == p.used - 1
       IN [ptr  |-> [p.ptr EXCEPT ![at] = p.ptr[last], ![last] = c],
           used |-> last,
           ndx  |-> [p.ndx EXCEPT ![c] = -1]]

\* The last connection of the array moves into the slot that becomes free.
connection_del(p, c) ==
  IF p.ndx[c] = -1 THEN p
  ELSE LET at == p.ndx[c]
           last == p.used - 1
           moved == p.ptr[last]
       IN [ptr  |-> [p.ptr EXCEPT ![at] = moved, ![last] = c],
           used |-> last,
           ndx  |-> [p.ndx EXCEPT ![moved] = at, ![c] = -1]]

\* connection_close: con->fd keeps its (now stale) number.
connection_close(c, g) ==
  LET closed == CloseFd(g, g.r.fde_ndx, g.r.fd)
  IN [closed EXCEPT !.conns = connection_del(@, c),
                    !.r.fde_ndx = NotArmed,
                    !.r.state = "CONNECT"]
=============================================================================
