---------------------------- MODULE ServerClaims ----------------------------
(***************************************************************************)
(* What the documentation and the comments of lighttpd say of the worker   *)
(* and its code does not do.  Each of these formulas is refuted by a run    *)
(* of its own; the counterexample is explained in README.md.               *)
(***************************************************************************)
EXTENDS Server

\* doc/state.txt:101-103: after an error "the 'close' state is used the init
\* a half-close and read all the delay packet from the network".  So once the
\* half-close has been made (state CLOSE), the connection is closed only when
\* its input was looked at and is empty, or after the time of the lingering
\* close.  connections.c:1741 clears keep_alive, which makes the next turn of
\* the machine close the connection at once (connections.c:1601).
LingeringClose ==
  [][\A c \in Conn :
       con[c].state = "CLOSE" /\ ~InUse(c)' /\ InUse(c) =>
         con[c].keep_alive \/ con[c].close_idle > 1]_vars

\* doc/configuration.txt:396-398: server.max-keep-alive-requests is the "maximum
\* number of request within a keep-alive session before the server terminates
\* the connection".  So a connection serves at most one request more than that.
\* A request of an unknown HTTP version (request.c:420) keeps the keep_alive of
\* the one before, and response.c:133 returns before the count is looked at.
KeepAliveBounded ==
  \A c \in Conn : con[c].request_count <= max_keep_alive_requests + 1

\* server.c:1196: "all connections are closed, we are ready to terminate
\* without harming anyone".  A worker that was asked once, by SIGINT, to stop
\* stops without dropping a connection.
GracefulHarmsNobody ==
  pc = "done" /\ ~forced => conns.used = 0

\* server.c:1156-1159: in a graceful shutdown "closing it right away will make
\* it possible for the next lighttpd to take over (graceful restart)".  When
\* the main loop has looked at its sockets during a graceful shutdown, the
\* listening socket is closed.
NextCanTakeOver ==
  [][pc = "sockets" /\ pc' # pc /\ graceful_shutdown => ~listen_open']_vars

\* doc/performance.txt:151-153: a worker that runs out of descriptors will
\* "stop accepting new connections for awhile to use the existing file
\* descriptors to handle the currently-running requests".  So when requests
\* wait for a descriptor, one of them can be served in the next turn, or
\* some connection is not waiting for one and will give its own back.
WaitersCanBeServed ==
  (pc = "poll" /\ want_fds > 0) =>
    \/ max_fds - cur_fds - fd_reserve > 0
    \/ \E c \in Conn : InUse(c) /\ ~Queued(c, fdwaitqueue)
=============================================================================
