----------------------------- MODULE ModFastcgi -----------------------------
(***************************************************************************)
(* mod_fastcgi as the connection engine sees it: the handler context of a  *)
(* request and the calls that create, advance and destroy it.  The choice  *)
(* of a host and the life of the backend processes are not kept: their     *)
(* answers ("no host", "no running process", "connect refused") are        *)
(* nondeterministic.  The responder mode only; no X-Sendfile.              *)
(*                                                                         *)
(* A call that returns a handler_t gives a set of outcomes                 *)
(* [g |-> frame after the call, r |-> value returned].                     *)
(***************************************************************************)
EXTENDS ServerState

Outcome(g, r) == [g |-> g, r |-> r]

\* The first lines of fcgi_connection_close and of fcgi_reconnect.
FcgiCloseFd(g) == IF g.h.fd = -1 THEN g ELSE CloseFd(g, g.h.fde_ndx, g.h.fd)

\* The context is freed, its descriptor is not.
fcgi_connection_close_leak(g) == [g EXCEPT !.h = NoCtx]

fcgi_connection_close(g) ==
  IF g.h.state = "NULL" THEN g ELSE [FcgiCloseFd(g) EXCEPT !.h = NoCtx]

\* The context before the next attempt: no descriptor and no host.
NextAttempt(h) ==
  [h EXCEPT !.fd = -1, !.fde_ndx = NotArmed, !.state = "INIT", !.host = FALSE,
            !.reconnects = @ + 1]

\* The descriptor is closed behind the back of cur_fds.
fcgi_reconnect_uncounted(g) ==
  [FcgiCloseFd(g) EXCEPT !.h = NextAttempt(g.h), !.cur_fds = g.cur_fds]

\* Gives up descriptor and host, and counts the attempt.  The reconnect
\* itself is left to whoever calls handle_subrequest next.
fcgi_reconnect(g) == [FcgiCloseFd(g) EXCEPT !.h = NextAttempt(g.h)]

\* Wait for events of one kind on the backend's descriptor.
FcgiWait(g, events) ==
  [g EXCEPT !.ev = fdevent_event_add(@, g.h.fd, events), !.h.fde_ndx = g.h.fd]

\* case FCGI_STATE_WRITE of fcgi_write_request: one write to the backend.
FcgiWrite(g) ==
  {Outcome([FcgiWait(g, "IN") EXCEPT !.h.state = "READ", !.h.bytes_out = TRUE],
           "WAIT_FOR_EVENT"),
   Outcome([FcgiWait(g, "OUT") EXCEPT !.h.bytes_out = TRUE], "WAIT_FOR_EVENT"),
   Outcome(FcgiWait(g, "OUT"), "WAIT_FOR_EVENT"),
   Outcome(g, "ERROR")}
  \cup (IF "ENOTCONN" \in Faults /\ ~g.h.bytes_out /\ g.h.reconnects < max_reconnects
        THEN {Outcome(fcgi_reconnect(g), "WAIT_FOR_FD")} ELSE {})

\* case FCGI_STATE_PREPARE_WRITE: building the request may fail.
FcgiPrepareWrite(g) ==
  {Outcome([g EXCEPT !.h.state = "PREPARE_WRITE"], "ERROR")}
  \cup FcgiWrite([g EXCEPT !.h.state = "WRITE"])

\* The socket is there: connect() succeeds, is delayed, or fails.
fcgi_establish_connection(g) ==
  FcgiPrepareWrite([g EXCEPT !.h.reconnects = 0])
  \cup {Outcome([FcgiWait(g, "OUT") EXCEPT !.h.state = "CONNECT_DELAYED"],
                "WAIT_FOR_EVENT"),
        Outcome(g, "ERROR")}

\* A new socket for the backend, with a node that leads to c's context.
FcgiSocket(c, g, fd) ==
  [g EXCEPT !.h.fd = fd, !.h.fde_ndx = NotArmed,
            !.ev = fdevent_register(@, fd, "fcgi", c),
            !.open = @ \cup {fd}, !.cur_fds = @ + 1]

\* case FCGI_STATE_INIT: no running process, out of descriptors, or a new
\* socket (a failing fcntl() ends like a refused connect).
FcgiInit(c, g) ==
  {Outcome([g EXCEPT !.h.fde_ndx = NotArmed], "ERROR")}
  \cup (IF FreeFd(g) = {} THEN {Outcome(g, "WAIT_FOR_FD")} ELSE {})
  \cup UNION {fcgi_establish_connection(FcgiSocket(c, g, fd)) : fd \in FreeFd(g)}

fcgi_write_request(c, g) ==
  CASE g.h.state = "CONNECT_DELAYED" -> {Outcome(g, "ERROR")} \cup FcgiPrepareWrite(g)
    [] g.h.state = "INIT"            -> FcgiInit(c, g)
    [] g.h.state = "PREPARE_WRITE"   -> FcgiPrepareWrite(g)
    [] g.h.state = "WRITE"           -> FcgiWrite(g)
    [] OTHER                         -> {Outcome(g, "WAIT_FOR_EVENT")}

\* The request is answered by the server itself, with an error status.
FcgiGiveUp(g) ==
  [fcgi_connection_close(g) EXCEPT !.r.mode = "DIRECT", !.r.decided = TRUE]

\* Attempts without end.
SubrequestError_unlimited(g) ==
  IF g.h.state \in {"INIT", "CONNECT_DELAYED"}
  THEN Outcome(joblist_append(fcgi_reconnect(g)), "WAIT_FOR_FD")
  ELSE Outcome(joblist_append(FcgiGiveUp(g)), "FINISHED")

\* mod_fastcgi_handle_subrequest after a failed fcgi_write_request.
SubrequestError(g) ==
  IF g.h.state \in {"INIT", "CONNECT_DELAYED"} /\ g.h.reconnects < max_reconnects
  THEN Outcome(joblist_append(fcgi_reconnect(g)), "WAIT_FOR_FD")
  ELSE Outcome(joblist_append(FcgiGiveUp(g)), "FINISHED")

\* mod_fastcgi_handle_subrequest after the others.
SubrequestWait(o) ==
  IF o.r = "WAIT_FOR_EVENT" /\ o.g.r.file_started THEN Outcome(o.g, "FINISHED") ELSE o

SubrequestResult(o) == IF o.r = "ERROR" THEN SubrequestError(o.g) ELSE SubrequestWait(o)

mod_fastcgi_handle_subrequest(c, g) ==
  (IF g.h.host THEN {} ELSE {Outcome(FcgiGiveUp(g), "FINISHED")})
  \cup {SubrequestResult(o) : o \in fcgi_write_request(c, [g EXCEPT !.h.host = TRUE])}

-----------------------------------------------------------------------------
\* Events on the backend's descriptor.

\* fcgi_demux_response: what one read from the backend brings: nothing
\* complete, a header, content, the end of the request.
FcgiHeader(g) == [g EXCEPT !.r.file_started = TRUE]
FcgiContent(g) == joblist_append([FcgiHeader(g) EXCEPT !.r.write_queue = TRUE])

\* The end of the request leaves nothing to write.
FcgiEndRequest_no_chunk(g) == joblist_append([g EXCEPT !.r.file_finished = TRUE])

\* http_chunk_append_mem(srv, con, NULL, 0) queues a chunk even if nothing is
\* left to send: the write state has to run once more to see the end.
FcgiEndRequest(g) ==
  joblist_append([g EXCEPT !.r.file_finished = TRUE, !.r.write_queue = TRUE])

\* The read from the backend failed, or met the end of the connection.  (The
\* reconnect of this branch is for a request of which nothing was sent;
\* in FCGI_STATE_READ all of it was.)
FcgiReadError(g) ==
  joblist_append(
    IF g.r.file_started
    THEN connection_set_state(fcgi_connection_close(g), "ERROR")
    ELSE connection_set_state(FcgiGiveUp(g), "HANDLE_REQUEST"))

fcgi_demux_response(g) ==
  {g, FcgiHeader(g), FcgiContent(g), FcgiReadError(g)}
  \cup {joblist_append(fcgi_connection_close(FcgiEndRequest(x)))
        : x \in {g, FcgiHeader(g), FcgiContent(g)}}

\* revents & FDEVENT_ERR: the connection is given up, whatever its state.
FcgiError(g) ==
  joblist_append(fcgi_connection_close(connection_set_state(g, "ERROR")))

\* The frames after fcgi_handle_fdevent.  The value mod_fastcgi_handle_subrequest
\* returns goes to the main loop, which drops it (server.c:1236).
fcgi_handle_fdevent(c, g, revents) ==
  LET read  == IF "IN" \in revents /\ g.h.state = "READ"
               THEN fcgi_demux_response(g) ELSE {g}
      sent(x) == IF "OUT" \in revents /\ x.h.state \in {"CONNECT_DELAYED", "WRITE"}
                 THEN {o.g : o \in mod_fastcgi_handle_subrequest(c, x)}
                 ELSE IF "ERR" \in revents /\ x.h.state # "NULL" THEN {FcgiError(x)}
                 ELSE {x}
  IN UNION {sent(x) : x \in read}

\* mod_fastcgi_handle_joblist: make sure the backend's descriptor is watched.
mod_fastcgi_handle_joblist(g) ==
  IF g.h.fd = -1 THEN g
  ELSE CASE g.h.state = "READ" -> FcgiWait(g, "IN")
         [] g.h.state \in {"CONNECT_DELAYED", "WRITE"} -> FcgiWait(g, "OUT")
         [] OTHER -> g
=============================================================================
